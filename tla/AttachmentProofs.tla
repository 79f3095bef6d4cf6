-------------------------- MODULE AttachmentProofs --------------------------
(***************************************************************************)
(* What holds of attachments for any rows, keys, tables, scope rules and   *)
(* batch size.                                                             *)
(*                                                                         *)
(* The chat database's references: the inductive invariant SafeReferences  *)
(* says that no row's references meet the tombstones, that trusted         *)
(* references are exact, and that nothing is trusted behind a fence.  The  *)
(* first and the second need each other: a claim spares referenced keys,   *)
(* which is only enough because trusted references list every key a row    *)
(* still shows.                                                            *)
(*                                                                         *)
(* Across core-api, the bucket and the chat database: every step is a step *)
(* of the references, so SafeReferences holds; LifecycleInv adds that      *)
(* content shows only unclaimed keys of uploads that are past being        *)
(* discarded, that the collector deletes only claimed keys, and that       *)
(* behind the fence of a fresh database the import will find, or has       *)
(* found, every older object.  From it follow both invariants, and every   *)
(* step of the refinement of AttachmentStore.                              *)
(*                                                                         *)
(* A wipe and the rebuild after it, whatever replicates, crashes, restarts *)
(* and is collected meanwhile: RestoreInv says that a wiped database stays *)
(* fenced, that the collector has nothing in hand, that the archive is     *)
(* what it was, that the database holds only rows as they were archived,   *)
(* and that a rebuild has still to restore whatever is missing.  The       *)
(* theorems assume what the procedure asks of the operator (DEPLOYMENT.md):*)
(* a rebuild succeeds before the quiet period has passed, and some stored  *)
(* file is older than the wipe, so that the fence of init is not lifted.   *)
(***************************************************************************)
EXTENDS AttachmentLifecycle, ArchiveRestore, TLAPS

(* The references *)

\* ClaimedNeverReferenced row by row, the form the steps are proved in.
UnclaimedRefs == \A r \in Rows : refs[r] \cap claims = {}

SafeReferences == UnclaimedRefs /\ TrustedReferencesExact /\ FencedUntilSettled

\* The union over the rows avoids the tombstones iff every row does.
LEMMA ReferencedRowwise == UnclaimedRefs <=> ClaimedNeverReferenced
BY DEF UnclaimedRefs, ClaimedNeverReferenced, Referenced

LEMMA RowsSplit ==
    /\ Messages \subseteq Rows /\ DirectMessages \subseteq Rows
    /\ Accounts \subseteq Rows /\ Spaces \subseteq Rows
BY DEF Rows

LEMMA ContentsAreKeys == \A r \in Rows : Contents(r) \subseteq SUBSET Keys
BY DEF Contents

LEMMA ScopeAreKeys ==
    ASSUME StructureAssumption PROVE \A r \in Rows : Scope[r] \subseteq Keys
BY DEF StructureAssumption

LEMMA InitTypeOK == Init => TypeOK
BY DEF Init, InitRows, TypeOK, Sides

\* Every reducer keeps the shape of the tables.
LEMMA StepTypeOK ==
    ASSUME StructureAssumption PROVE TypeOK /\ [Next]_moduleVars => TypeOK'
<1> SUFFICES ASSUME TypeOK, [Next]_moduleVars PROVE TypeOK'
  OBVIOUS
<1> USE RowsSplit, ContentsAreKeys, ScopeAreKeys DEF TypeOK
<1>1. CASE MessageReducers
  <2>1. PICK m \in Messages : \/ \E ks \in SUBSET Scope[m] : SendMessage(m, ks) \/ EditMessage(m, ks)
                              \/ DeleteMessage(m)
    BY <1>1 DEF MessageReducers
  <2>2. ASSUME NEW ks \in SUBSET Scope[m], SendMessage(m, ks) PROVE TypeOK'
    BY <2>2 DEF SendMessage, SyncReferences, WriteRow, claimVars, trustVars
  <2>3. ASSUME NEW ks \in SUBSET Scope[m], EditMessage(m, ks) PROVE TypeOK'
    BY <2>3 DEF EditMessage, SyncReferences, WriteRow, claimVars, trustVars
  <2>4. CASE DeleteMessage(m)
    BY <2>4 DEF DeleteMessage, claimVars, trustVars
  <2> QED BY <2>1, <2>2, <2>3, <2>4
<1>2. CASE DirectMessageReducers
  <2>1. PICK d \in DirectMessages :
              \/ \E ks \in SUBSET Scope[d] : SendDirectMessage(d, ks) \/ EditDirectMessage(d, ks)
              \/ \E side \in Sides : DeleteDirectMessage(d, side)
    BY <1>2 DEF DirectMessageReducers
  <2>2. ASSUME NEW ks \in SUBSET Scope[d], SendDirectMessage(d, ks) PROVE TypeOK'
    BY <2>2 DEF SendDirectMessage, SyncReferences, WriteRow, claimVars, trustVars
  <2>3. ASSUME NEW ks \in SUBSET Scope[d], EditDirectMessage(d, ks) PROVE TypeOK'
    BY <2>3 DEF EditDirectMessage, SyncReferences, WriteRow, claimVars, trustVars
  <2>4. ASSUME NEW side \in Sides, HideDirectMessage(d, side) PROVE TypeOK'
    BY <2>4 DEF HideDirectMessage, refVars
  <2>5. ASSUME NEW side \in Sides, PurgeDirectMessage(d, side) PROVE TypeOK'
    BY <2>5 DEF PurgeDirectMessage, RemoveRows
  <2> QED BY <2>1, <2>2, <2>3, <2>4, <2>5 DEF DeleteDirectMessage
<1>3. CASE SlotReducers
  <2>1. ASSUME NEW r \in Slots, CreateSlotRow(r) PROVE TypeOK'
    <3>1. r \in Rows  BY DEF Slots
    <3> QED BY <2>1, <3>1 DEF CreateSlotRow, WriteRow, refVars
  <2>2. ASSUME NEW r \in Slots, NEW ks \in Contents(r), SaveSlot(r, ks) PROVE TypeOK'
    <3>1. r \in Rows /\ ks \subseteq Keys  BY DEF Slots, Contents
    <3> QED BY <2>2, <3>1 DEF SaveSlot, SyncReferences, claimVars, trustVars
  <2>3. ASSUME NEW rs, RemoveRows(rs) PROVE TypeOK'
    BY <2>3 DEF RemoveRows
  <2> QED BY <1>3, <2>1, <2>2, <2>3
          DEF SlotReducers, RegisterUser, CreateServer, UpdateProfile, SetServerIcon,
              DeleteChannel, DeleteServer, Slots
<1>4. CASE ArchiveReducers
  <2>1. PICK r \in Rows, st \in {"live", "deleted"}, hidden \in {{}, {"sender"}, {"recipient"}} :
              \E ks \in Contents(r) : ArchiveRestore(r, st, ks, hidden)
    BY <1>4 DEF ArchiveReducers
  <2>2. PICK ks \in Contents(r) : ArchiveRestore(r, st, ks, hidden)
    BY <2>1
  <2>3. ks \subseteq Keys /\ hidden \subseteq Sides
    BY DEF Sides
  <2> QED BY <2>2, <2>3 DEF ArchiveRestore, RestoreReferences, SetFence, claimVars
<1>5. CASE CleanupReducers
  <2>1. ASSUME NEW predates \in BOOLEAN, ReleaseStorageInitFence(predates) PROVE TypeOK'
    BY <2>1 DEF ReleaseStorageInitFence, rowVars, claimVars
  <2>2. CASE RebuildStorageReferences
    BY <2>2 DEF RebuildStorageReferences, rowVars, claimVars
  <2>3. ASSUME NEW ks \in SUBSET Keys, ClaimUnreferencedStorage(ks) PROVE TypeOK'
    BY <2>3 DEF ClaimUnreferencedStorage, rowVars, trustVars
  <2> QED BY <1>5, <2>1, <2>2, <2>3 DEF CleanupReducers
<1>6. CASE QuietPeriodElapses
  BY <1>6 DEF QuietPeriodElapses, rowVars, claimVars
<1>7. CASE WipeDatabase
  BY <1>7 DEF WipeDatabase, SetFence
<1>8. CASE UNCHANGED moduleVars
  BY <1>8 DEF moduleVars
<1> QED BY <1>1, <1>2, <1>3, <1>4, <1>5, <1>6, <1>7, <1>8 DEF Next

\* Spec => []TypeOK: every table keeps its shape for any rows, keys and scopes.
THEOREM TypeCorrect ==
    ASSUME StructureAssumption PROVE Spec => []TypeOK
BY InitTypeOK, StepTypeOK, PTL DEF Spec

----------------------------------------------------------------------------
(* The reference invariant *)

LEMMA InitSafe == Init => SafeReferences
BY DEF Init, SafeReferences, UnclaimedRefs, TrustedReferencesExact, FencedUntilSettled

\* A reducer that rewrites one row's content and references together, with
\* unclaimed keys only, keeps the invariant.
LEMMA SyncKeepsSafe ==
    ASSUME TypeOK, SafeReferences, NEW r \in Rows, NEW ks, MaySync(r, ks),
           refs' = [refs EXCEPT ![r] = ks], attached' = [attached EXCEPT ![r] = ks],
           UNCHANGED <<claims, ready, fence>>
    PROVE  SafeReferences'
BY DEF TypeOK, SafeReferences, MaySync, UnclaimedRefs, TrustedReferencesExact, FencedUntilSettled

\* Rows that disappear take their references with them.
LEMMA RemovalKeepsSafe ==
    ASSUME TypeOK, SafeReferences, NEW rs, RemoveRows(rs)
    PROVE  SafeReferences'
BY DEF TypeOK, SafeReferences, RemoveRows, UnclaimedRefs, TrustedReferencesExact,
       FencedUntilSettled

LEMMA CleanupKeepsSafe == TypeOK /\ SafeReferences /\ CleanupReducers => SafeReferences'
<1> SUFFICES ASSUME TypeOK, SafeReferences, CleanupReducers PROVE SafeReferences'
  OBVIOUS
<1> USE DEF SafeReferences, UnclaimedRefs, TrustedReferencesExact, FencedUntilSettled
<1>1. ASSUME NEW predates \in BOOLEAN, ReleaseStorageInitFence(predates) PROVE SafeReferences'
  BY <1>1 DEF ReleaseStorageInitFence, rowVars, claimVars
<1>2. CASE RebuildStorageReferences
  <2>1. CASE ready /\ UNCHANGED refs
    BY <1>2, <2>1 DEF RebuildStorageReferences, rowVars, claimVars
  <2>2. CASE ~ready
    \* Only live rows are scanned; the others have no attachments to miss.
    <3>1. \A r \in Rows : refs'[r] = IF status[r] = "live" THEN attached[r] \ claims ELSE {}
      BY <1>2, <2>2 DEF RebuildStorageReferences
    <3>2. \A r \in Rows : refs'[r] = attached[r] \ claims
      BY <3>1 DEF TypeOK
    <3> QED BY <1>2, <2>2, <3>2 DEF RebuildStorageReferences, rowVars, claimVars
  <2> QED BY <1>2, <2>1, <2>2 DEF RebuildStorageReferences
<1>3. ASSUME NEW ks \in SUBSET Keys, ClaimUnreferencedStorage(ks) PROVE SafeReferences'
  <2>1. \A r \in Rows : refs[r] \cap (ks \ Referenced) = {}
    BY DEF Referenced
  <2>2. UnclaimedRefs'
    BY <1>3, <2>1 DEF ClaimUnreferencedStorage
  <2>3. TrustedReferencesExact'
    \* A key tombstoned now was in no row's references, hence in no row's
    \* attachments other than as an older tombstone.
    BY <1>3, <2>1 DEF ClaimUnreferencedStorage, rowVars, trustVars
  <2> QED BY <1>3, <2>2, <2>3 DEF ClaimUnreferencedStorage, trustVars
<1> QED BY <1>1, <1>2, <1>3 DEF CleanupReducers

LEMMA StepSafe == TypeOK /\ SafeReferences /\ [Next]_moduleVars => SafeReferences'
<1> SUFFICES ASSUME TypeOK, SafeReferences, [Next]_moduleVars PROVE SafeReferences'
  OBVIOUS
<1> USE RowsSplit
<1>1. CASE MessageReducers
  <2>1. PICK m \in Messages : \/ \E ks \in SUBSET Scope[m] : SendMessage(m, ks) \/ EditMessage(m, ks)
                              \/ DeleteMessage(m)
    BY <1>1 DEF MessageReducers
  <2>2. ASSUME NEW ks \in SUBSET Scope[m], SendMessage(m, ks) \/ EditMessage(m, ks)
        PROVE  SafeReferences'
    BY <2>2, SyncKeepsSafe
       DEF SendMessage, EditMessage, SyncReferences, WriteRow, claimVars, trustVars
  <2>3. CASE DeleteMessage(m)
    BY <2>3 DEF DeleteMessage, TypeOK, SafeReferences, UnclaimedRefs, TrustedReferencesExact,
                FencedUntilSettled, claimVars, trustVars
  <2> QED BY <2>1, <2>2, <2>3
<1>2. CASE DirectMessageReducers
  <2>1. PICK d \in DirectMessages :
              \/ \E ks \in SUBSET Scope[d] : SendDirectMessage(d, ks) \/ EditDirectMessage(d, ks)
              \/ \E side \in Sides : DeleteDirectMessage(d, side)
    BY <1>2 DEF DirectMessageReducers
  <2>2. ASSUME NEW ks \in SUBSET Scope[d], SendDirectMessage(d, ks) \/ EditDirectMessage(d, ks)
        PROVE  SafeReferences'
    BY <2>2, SyncKeepsSafe
       DEF SendDirectMessage, EditDirectMessage, SyncReferences, WriteRow, claimVars, trustVars
  <2>3. ASSUME NEW side \in Sides, HideDirectMessage(d, side) PROVE SafeReferences'
    BY <2>3 DEF HideDirectMessage, refVars, SafeReferences, UnclaimedRefs,
                TrustedReferencesExact, FencedUntilSettled
  <2>4. ASSUME NEW side \in Sides, PurgeDirectMessage(d, side) PROVE SafeReferences'
    BY <2>4, RemovalKeepsSafe DEF PurgeDirectMessage
  <2> QED BY <2>1, <2>2, <2>3, <2>4 DEF DeleteDirectMessage
<1>3. CASE SlotReducers
  <2>1. ASSUME NEW r \in Slots, CreateSlotRow(r) PROVE SafeReferences'
    \* A new row has no attachments, like the absent row it replaces.
    <3>1. r \in Rows /\ attached' = attached
      BY <2>1 DEF CreateSlotRow, WriteRow, Slots, TypeOK
    <3> QED BY <2>1, <3>1 DEF CreateSlotRow, refVars, SafeReferences, UnclaimedRefs,
                              TrustedReferencesExact, FencedUntilSettled
  <2>2. ASSUME NEW r \in Slots, NEW ks \in Contents(r), SaveSlot(r, ks) PROVE SafeReferences'
    <3>1. r \in Rows
      BY DEF Slots
    <3>2. CASE ks = attached[r] /\ UNCHANGED refs
      <4>1. attached' = attached
        BY <2>2, <3>1, <3>2 DEF SaveSlot, TypeOK
      <4> QED BY <2>2, <3>2, <4>1 DEF SaveSlot, claimVars, trustVars, SafeReferences,
                  UnclaimedRefs, TrustedReferencesExact, FencedUntilSettled
    <3>3. CASE SyncReferences(r, ks)
      BY <2>2, <3>1, <3>3, SyncKeepsSafe DEF SaveSlot, SyncReferences, claimVars, trustVars
    <3> QED BY <2>2, <3>2, <3>3 DEF SaveSlot
  <2>3. ASSUME NEW rs, RemoveRows(rs) PROVE SafeReferences'
    BY <2>3, RemovalKeepsSafe
  <2> QED BY <1>3, <2>1, <2>2, <2>3
          DEF SlotReducers, RegisterUser, CreateServer, UpdateProfile, SetServerIcon,
              DeleteChannel, DeleteServer, Slots
<1>4. CASE ArchiveReducers
  \* Restored references drop the tombstoned keys; trust is withdrawn.
  BY <1>4 DEF ArchiveReducers, ArchiveRestore, RestoreReferences, SetFence, claimVars, TypeOK,
              SafeReferences, UnclaimedRefs, TrustedReferencesExact, FencedUntilSettled
<1>5. CASE CleanupReducers
  BY <1>5, CleanupKeepsSafe
<1>6. CASE QuietPeriodElapses
  BY <1>6 DEF QuietPeriodElapses, rowVars, claimVars, SafeReferences, UnclaimedRefs,
              TrustedReferencesExact, FencedUntilSettled
<1>7. CASE WipeDatabase
  BY <1>7 DEF WipeDatabase, SetFence, SafeReferences, UnclaimedRefs, TrustedReferencesExact,
              FencedUntilSettled
<1>8. CASE UNCHANGED moduleVars
  BY <1>8 DEF moduleVars, SafeReferences, UnclaimedRefs, TrustedReferencesExact,
              FencedUntilSettled
<1> QED BY <1>1, <1>2, <1>3, <1>4, <1>5, <1>6, <1>7, <1>8 DEF Next

LEMMA SafeReferencesInvariant ==
    ASSUME StructureAssumption PROVE Spec => []SafeReferences
BY TypeCorrect, InitSafe, StepSafe, PTL DEF Spec

\* A tombstoned key is never referenced again, for any rows and keys: whatever
\* interleaving of sends, edits, deletes, restores, rebuilds, wipes and claims.
THEOREM ClaimsStaySafe ==
    ASSUME StructureAssumption PROVE Spec => []ClaimedNeverReferenced
BY SafeReferencesInvariant, ReferencedRowwise, PTL DEF SafeReferences

\* While the reference table is trusted it is exact, for any rows and keys.
THEOREM TrustIsExact ==
    ASSUME StructureAssumption PROVE Spec => []TrustedReferencesExact
BY SafeReferencesInvariant, PTL DEF SafeReferences

\* Behind the fence of a wipe or of a recent restore batch the reference table
\* is never trusted, for any rows and keys.
THEOREM FenceHolds ==
    ASSUME StructureAssumption PROVE Spec => []FencedUntilSettled
BY SafeReferencesInvariant, PTL DEF SafeReferences

\* The collector's reducer never tombstones a key a live row shows.
THEOREM NoLiveKeyClaimed ==
    ASSUME StructureAssumption PROVE Spec => OnlyUnattachedClaimed
<1>1. TypeOK /\ SafeReferences /\ [Next]_moduleVars
        => [(claims' \ claims) \cap Attached = {}]_moduleVars
  <2> SUFFICES ASSUME TypeOK, SafeReferences, Next
               PROVE  (claims' \ claims) \cap Attached = {}
    OBVIOUS
  <2>1. CASE \E ks \in SUBSET Keys : ClaimUnreferencedStorage(ks)
    BY <2>1 DEF ClaimUnreferencedStorage, Attached, Referenced, SafeReferences,
                TrustedReferencesExact
  <2>2. CASE claims' \subseteq claims
    BY <2>2
  <2>3. (\E ks \in SUBSET Keys : ClaimUnreferencedStorage(ks)) \/ claims' \subseteq claims
    BY DEF Next, MessageReducers, DirectMessageReducers, SlotReducers, ArchiveReducers,
           CleanupReducers, SendMessage, EditMessage, DeleteMessage, DeleteChannel,
           SendDirectMessage, EditDirectMessage, DeleteDirectMessage, HideDirectMessage,
           PurgeDirectMessage, RegisterUser, CreateServer, CreateSlotRow, UpdateProfile,
           SetServerIcon, SaveSlot, DeleteServer, RemoveRows, ArchiveRestore,
           ReleaseStorageInitFence, RebuildStorageReferences, QuietPeriodElapses,
           WipeDatabase, claimVars, refVars
  <2> QED BY <2>1, <2>2, <2>3
<1> QED BY <1>1, TypeCorrect, SafeReferencesInvariant, PTL DEF Spec, OnlyUnattachedClaimed

----------------------------------------------------------------------------
(* The life of an attachment *)

LEMMA UploadStates ==
    /\ PendingStates = {"pending", "expired", "overdue"} /\ ConfirmedStates = {"confirmed", "aged", "adopted"}
BY DEF PendingStates, ConfirmedStates

LEMMA BatchesAreKeys == \A S \in SUBSET Keys : Batches(S) \subseteq SUBSET Keys
BY DEF Batches

\* What was confirmed, or predates a fresh database, is past its upload and has its object as long as it is not claimed; content shows only such keys.
Kept(k) == upload[k] \in ConfirmedStates \cup {"gone"} /\ (k \in claims \/ objects[k] # "absent")
Past == handed \cup old \cup {k \in Keys : upload[k] \in {"confirmed", "aged"}}
HandedIsKept == Attached \subseteq handed \ claims /\ \A k \in Past : Kept(k)

\* The collector deletes what is claimed.
ClaimedFirst == batch \subseteq claims /\ (pc = "delete" => todo \subseteq claims)

\* Behind the fence of a fresh database the import has, or will have, a row for
\* every object that predates it.
Inventoried ==
    /\ fence \in {"none", "init"}
    /\ fence = "none" => old = {}
    /\ fence = "init" => claims = {}
    /\ pc = "fence" => imported
    /\ fence = "init" =>
         /\ imported => old \subseteq ConfirmedRows
         /\ pc = "known" => old \subseteq todo
         /\ pc \in {"pending", "adopt"} => old \subseteq todo \cup ConfirmedRows

LifecycleInv == HandedIsKept /\ ClaimedFirst /\ Inventoried

LEMMA LifecycleInitTypes == StructureAssumption /\ LifecycleInit => LifecycleTypeOK
<1> SUFFICES ASSUME StructureAssumption, LifecycleInit PROVE LifecycleTypeOK
  OBVIOUS
<1>1. TypeOK
  BY InitTypeOK DEF LifecycleInit
<1>2. Attached \subseteq Keys
  BY <1>1 DEF TypeOK, Attached
<1>3. PICK e \in [Keys -> ExistingUpload] : /\ upload   = [k \in Keys |-> e[k][1]]
                                           /\ objects  = [k \in Keys |-> e[k][2]]
                                           /\ transfer = [k \in Keys |-> e[k][3]]
  BY DEF LifecycleInit
<1>4. \A k \in Keys : /\ e[k][1] \in {"unused", "gone", "aged", "pending"} /\ e[k][2] \in {"absent", "whole"}
                      /\ e[k][3] = "none"
  BY DEF ExistingUpload
<1> QED BY <1>2, <1>3, <1>4, UploadStates DEF LifecycleInit, LifecycleTypeOK, Stored

LEMMA LifecycleInitInv == StructureAssumption /\ LifecycleInit => LifecycleInv
<1> SUFFICES ASSUME StructureAssumption, LifecycleInit PROVE LifecycleInv
  OBVIOUS
<1>1. LifecycleTypeOK
  BY LifecycleInitTypes
<1>2. PICK e \in [Keys -> ExistingUpload] : /\ upload   = [k \in Keys |-> e[k][1]]
                                           /\ objects  = [k \in Keys |-> e[k][2]]
                                           /\ transfer = [k \in Keys |-> e[k][3]]
  BY DEF LifecycleInit
<1>3. \A k \in Keys : /\ objects[k] # "absent" /\ upload[k] # "pending" => upload[k] \in {"gone", "aged"}
                      /\ upload[k] \in {"confirmed", "aged"} => objects[k] # "absent"
  BY <1>2 DEF ExistingUpload
<1>4. claims = {} /\ batch = {} /\ pc = "down" /\ imported = FALSE /\ fence \in {"none", "init"}
  BY DEF LifecycleInit, Init
<1>5. \A k \in Attached : objects[k] = "whole" /\ upload[k] # "pending"
  BY DEF LifecycleInit
<1>6. \A k \in old : objects[k] # "absent" /\ upload[k] # "pending"
  BY DEF LifecycleInit, Stored
<1>7. handed = Attached /\ (fence = "none" => old = {})
  BY DEF LifecycleInit
<1>8. ASSUME NEW k \in Past PROVE k \in Keys /\ objects[k] # "absent" /\ upload[k] \in {"gone", "confirmed", "aged"}
  <2>1. k \in Keys
    BY <1>1 DEF Past, LifecycleTypeOK
  <2>2. objects[k] # "absent" /\ (upload[k] # "pending" \/ upload[k] = "confirmed")
    <3>1. CASE k \in Attached
      <4>1. objects[k] = "whole" /\ upload[k] # "pending"
        BY <1>5, <3>1
      <4> QED BY <4>1
    <3>2. CASE k \in old
      BY <1>6, <3>2
    <3>3. CASE upload[k] \in {"confirmed", "aged"}
      BY <1>3, <2>1, <3>3
    <3> QED BY <1>7, <3>1, <3>2, <3>3 DEF Past
  <2> QED BY <1>3, <2>1, <2>2
<1>9. HandedIsKept
  BY <1>4, <1>7, <1>8, UploadStates DEF HandedIsKept, Kept
<1> QED BY <1>4, <1>7, <1>9 DEF LifecycleInv, ClaimedFirst, Inventoried

\* A step of the three stores is a step of the chat database, or none.
LEMMA LifecycleIsReferences ==
    ASSUME LifecycleTypeOK, LifecycleNext PROVE [Next]_moduleVars
<1>1. CASE ChatStep
  <2>1. ASSUME NEW m \in Messages, NEW ks \in SUBSET (Scope[m] \cap handed), SendMessage(m, ks) \/ EditMessage(m, ks)
        PROVE  Next
    BY <2>1 DEF Next, MessageReducers
  <2>2. ASSUME NEW m \in Messages, DeleteMessage(m) PROVE Next
    BY <2>2 DEF Next, MessageReducers
  <2>3. ASSUME NEW d \in DirectMessages, NEW ks \in SUBSET (Scope[d] \cap handed),
               SendDirectMessage(d, ks) \/ EditDirectMessage(d, ks)
        PROVE  Next
    BY <2>3 DEF Next, DirectMessageReducers
  <2>4. ASSUME NEW d \in DirectMessages, NEW side \in Sides, DeleteDirectMessage(d, side) PROVE Next
    BY <2>4 DEF Next, DirectMessageReducers
  <2>5. ASSUME NEW r \in Slots, CreateSlotRow(r) \/ \E ks \in Contents(r) : ks \subseteq handed /\ SaveSlot(r, ks)
        PROVE  Next
    BY <2>5 DEF Next, SlotReducers, Slots, RegisterUser, CreateServer, UpdateProfile, SetServerIcon
  <2>6. ASSUME NEW s \in Spaces, DeleteServer(s) PROVE Next
    BY <2>6 DEF Next, SlotReducers
  <2>7. ASSUME NEW c \in Channels, DeleteChannel(c) PROVE Next
    BY <2>7 DEF Next, SlotReducers
  <2> QED BY <1>1, <2>1, <2>2, <2>3, <2>4, <2>5, <2>6, <2>7 DEF ChatStep
<1>2. CASE UploadStep
  BY <1>2 DEF UploadStep
<1>3. CASE CollectorStep
  <2>1. CASE ReleaseFence
    <3>1. (old \cap ConfirmedRows # {}) \in BOOLEAN
      OBVIOUS
    <3> QED BY <2>1, <3>1 DEF ReleaseFence, Next, CleanupReducers
  <2>2. CASE EnsureReady
    BY <2>2 DEF EnsureReady, Next, CleanupReducers
  <2>3. CASE Claim
    BY <2>3 DEF Claim, Next, CleanupReducers, LifecycleTypeOK
  <2>4. CASE ~ReleaseFence /\ ~EnsureReady /\ ~Claim
    BY <1>3, <2>4 DEF CollectorStep, StartSweep, SweepEnds, ListObjects, ReadKnown, ReadPending, Adopt, ReadPage, ReadClaims,
        DeletionsEnd, CallFails, Crash, Restart, SweepPending, DeleteUnreferenced
  <2> QED BY <2>1, <2>2, <2>3, <2>4
<1> QED BY <1>1, <1>2, <1>3 DEF LifecycleNext

LEMMA LifecycleTypes == ASSUME LifecycleTypeOK, [LifecycleNext]_lifecycleVars PROVE LifecycleTypeOK'
<1> USE UploadStates DEF LifecycleTypeOK
<1>1. CASE ChatStep
  BY <1>1 DEF ChatStep, coreVars, collectorVars
<1>2. CASE UploadStep
  <2>1. PICK k \in Keys :
        \/ \E t \in {"open", "parts", "none"} : RequestUpload(k, t)
        \/ StartPut(k)
        \/ \E size \in {"whole", "wrong"} : FinishPut(k, size)
        \/ UploadParts(k)
        \/ UrlExpires(k)
        \/ TimePasses(k)
        \/ ConfirmUpload(k)
        \/ AbortUpload(k)
    BY <1>2 DEF UploadStep
  <2>2. UNCHANGED collectorVars
    BY <1>2 DEF UploadStep
  <2> QED BY <2>1, <2>2 DEF RequestUpload, StartPut, FinishPut, UploadParts, UrlExpires, TimePasses, ConfirmUpload, AbortUpload,
         ConfirmCommits, ConfirmLost, ConfirmRefused, ConfirmAgain, Discard, AbortTransfer, collectorVars
<1>3. CASE CollectorStep
  <2>1. CASE \E k \in todo : SweepPending(k) \/ DeleteUnreferenced(k)
    BY <2>1 DEF SweepPending, DeleteUnreferenced, Discard, AbortTransfer, coreVars
  <2>2. CASE StartSweep
    BY <2>2, BatchesAreKeys DEF StartSweep, Overdue, coreVars
  <2>3. CASE ReadPage
    BY <2>3, BatchesAreKeys DEF ReadPage, Candidates, coreVars
  <2>4. CASE Adopt
    BY <2>4 DEF Adopt
  <2>5. CASE SweepEnds \/ ListObjects \/ ReadKnown \/ ReadPending \/ ReleaseFence \/ EnsureReady \/ Claim \/ ReadClaims
             \/ DeletionsEnd \/ CallFails \/ Crash \/ Restart
    BY <2>5 DEF SweepEnds, ListObjects, ReadKnown, ReadPending, ReleaseFence, EnsureReady, Claim, ReadClaims,
        DeletionsEnd, CallFails, Crash, Restart, Stored, coreVars
  <2> QED BY <1>3, <2>1, <2>2, <2>3, <2>4, <2>5 DEF CollectorStep
<1>4. CASE UNCHANGED lifecycleVars
  BY <1>4 DEF lifecycleVars, coreVars, collectorVars
<1> QED BY <1>1, <1>2, <1>3, <1>4 DEF LifecycleNext

\* A reducer that a client calls writes one row with keys it was handed, which are
\* not claimed, or removes rows.
LEMMA ChatWrites ==
    ASSUME TypeOK, StructureAssumption, HandedIsKept, ChatStep
    PROVE  /\ UNCHANGED <<claims, batch, ready, fence, coreVars, collectorVars>>
           /\ \/ \E r \in Rows, ks \in SUBSET (handed \ claims) : attached' = [attached EXCEPT ![r] = ks]
              \/ \E rs \in SUBSET Rows : attached' = [r \in Rows |-> IF r \in rs THEN {} ELSE attached[r]]
<1> DEFINE Writes == /\ UNCHANGED <<claims, batch, ready, fence>>
                     /\ \/ \E r \in Rows, ks \in SUBSET (handed \ claims) : attached' = [attached EXCEPT ![r] = ks]
                        \/ \E rs \in SUBSET Rows : attached' = [r \in Rows |-> IF r \in rs THEN {} ELSE attached[r]]
<1> USE RowsSplit
<1>1. ASSUME NEW m \in Messages, NEW ks \in SUBSET (Scope[m] \cap handed), SendMessage(m, ks) \/ EditMessage(m, ks)
      PROVE  Writes
  BY <1>1 DEF SendMessage, EditMessage, SyncReferences, MaySync, WriteRow, claimVars, trustVars
<1>2. ASSUME NEW m \in Messages, DeleteMessage(m) PROVE Writes
  BY <1>2 DEF DeleteMessage, claimVars, trustVars
<1>3. ASSUME NEW d \in DirectMessages, NEW ks \in SUBSET (Scope[d] \cap handed),
             SendDirectMessage(d, ks) \/ EditDirectMessage(d, ks)
      PROVE  Writes
  BY <1>3 DEF SendDirectMessage, EditDirectMessage, SyncReferences, MaySync, WriteRow, claimVars, trustVars
<1>4. ASSUME NEW d \in DirectMessages, NEW side \in Sides, DeleteDirectMessage(d, side) PROVE Writes
  <2>1. CASE HideDirectMessage(d, side)
    <3>1. attached' = [r \in Rows |-> IF r \in {} THEN {} ELSE attached[r]]
      BY <2>1 DEF HideDirectMessage, TypeOK
    <3> QED BY <2>1, <3>1 DEF HideDirectMessage, refVars
  <2>2. CASE PurgeDirectMessage(d, side)
    BY <2>2 DEF PurgeDirectMessage, RemoveRows
  <2> QED BY <1>4, <2>1, <2>2 DEF DeleteDirectMessage
<1>5. ASSUME NEW r \in Slots, CreateSlotRow(r) PROVE Writes
  <2>1. r \in Rows
    BY DEF Slots
  <2> QED BY <1>5, <2>1 DEF CreateSlotRow, WriteRow, refVars
<1>6. ASSUME NEW r \in Slots, NEW ks \in Contents(r), ks \subseteq handed, SaveSlot(r, ks) PROVE Writes
  <2>1. r \in Rows
    BY DEF Slots
  <2>2. ks \cap claims = {}
    BY <1>6, <2>1 DEF SaveSlot, SyncReferences, MaySync, HandedIsKept, Attached
  <2>3. UNCHANGED <<claims, batch, ready, fence>> /\ attached' = [attached EXCEPT ![r] = ks]
    BY <1>6 DEF SaveSlot, claimVars, trustVars
  <2> QED BY <1>6, <2>1, <2>2, <2>3
<1>7. ASSUME NEW rs \in SUBSET Rows, RemoveRows(rs) PROVE Writes
  BY <1>7 DEF RemoveRows
<1>8. ASSUME NEW s \in Spaces, DeleteServer(s) PROVE Writes
  <2>1. {s} \cup {m \in Messages : SpaceOf[ChannelOf[m]] = s} \in SUBSET Rows
    OBVIOUS
  <2> QED BY <1>7, <1>8, <2>1 DEF DeleteServer
<1>9. ASSUME NEW c \in Channels, DeleteChannel(c) PROVE Writes
  <2>1. {m \in Messages : ChannelOf[m] = c} \in SUBSET Rows
    OBVIOUS
  <2> QED BY <1>7, <1>9, <2>1 DEF DeleteChannel
<1>10. UNCHANGED <<coreVars, collectorVars>>
  BY DEF ChatStep
<1> HIDE DEF Writes
<1>11. Writes
  BY <1>1, <1>2, <1>3, <1>4, <1>5, <1>6, <1>8, <1>9 DEF ChatStep
<1> QED BY <1>10, <1>11 DEF Writes

LEMMA ChatKeepsInv == ASSUME TypeOK, StructureAssumption, LifecycleInv, ChatStep PROVE LifecycleInv'
<1>1. /\ UNCHANGED <<claims, batch, ready, fence, coreVars, collectorVars>>
      /\ \/ \E r \in Rows, ks \in SUBSET (handed \ claims) : attached' = [attached EXCEPT ![r] = ks]
         \/ \E rs \in SUBSET Rows : attached' = [r \in Rows |-> IF r \in rs THEN {} ELSE attached[r]]
  BY ChatWrites DEF LifecycleInv
<1>2. Attached' \subseteq handed \ claims
  BY <1>1 DEF LifecycleInv, HandedIsKept, Attached, TypeOK
<1>3. HandedIsKept'
  BY <1>1, <1>2 DEF LifecycleInv, HandedIsKept, Past, Kept, coreVars
<1> QED BY <1>1, <1>3 DEF LifecycleInv, ClaimedFirst, Inventoried, ConfirmedRows, coreVars, collectorVars

\* What a client or the sweeper does to an upload that is not past it, and time to
\* any other, takes no kept object away.
LEMMA UploadKeepsInv == ASSUME LifecycleTypeOK, LifecycleInv, UploadStep PROVE LifecycleInv'
<1>1. PICK k \in Keys :
        \/ \E t \in {"open", "parts", "none"} : RequestUpload(k, t)
        \/ StartPut(k)
        \/ \E size \in {"whole", "wrong"} : FinishPut(k, size)
        \/ UploadParts(k)
        \/ UrlExpires(k)
        \/ TimePasses(k)
        \/ ConfirmUpload(k)
        \/ AbortUpload(k)
  BY DEF UploadStep
<1>2. UNCHANGED moduleVars /\ UNCHANGED collectorVars
  BY DEF UploadStep
<1>3. /\ upload \in [Keys -> {"unused", "gone"} \cup PendingStates \cup ConfirmedStates]
      /\ objects \in [Keys -> {"absent", "whole", "wrong"}] /\ old \subseteq Keys /\ handed \subseteq Keys
  BY DEF LifecycleTypeOK
<1>4. /\ old' = old /\ handed \subseteq handed' /\ handed' \subseteq handed \cup {k}
      /\ \A i \in Keys : i # k => upload'[i] = upload[i] /\ objects'[i] = objects[i]
  BY <1>1, <1>3 DEF RequestUpload, StartPut, FinishPut, UploadParts, UrlExpires, TimePasses, ConfirmUpload, AbortUpload,
         ConfirmCommits, ConfirmLost, ConfirmRefused, ConfirmAgain, Discard, AbortTransfer
<1>5. k \in Past => Kept(k)
  BY DEF LifecycleInv, HandedIsKept
<1>6. k \in Past' => Kept(k)'
  <2>1. ASSUME NEW t, RequestUpload(k, t) PROVE k \in Past' => Kept(k)'
    BY <1>2, <1>3, <1>5, <2>1, UploadStates DEF RequestUpload, Past, Kept, moduleVars
  <2>2. CASE StartPut(k) \/ UploadParts(k) \/ UrlExpires(k)
    BY <1>2, <1>3, <1>5, <2>2, UploadStates DEF StartPut, UploadParts, UrlExpires, Past, Kept, moduleVars
  <2>3. ASSUME NEW size \in {"whole", "wrong"}, FinishPut(k, size) PROVE k \in Past' => Kept(k)'
    BY <1>2, <1>3, <1>5, <2>3, UploadStates DEF FinishPut, Past, Kept, moduleVars
  <2>4. CASE TimePasses(k)
    BY <1>2, <1>3, <1>5, <2>4, UploadStates DEF TimePasses, Past, Kept, moduleVars
  <2>5. CASE ConfirmUpload(k)
    BY <1>2, <1>3, <1>5, <2>5, UploadStates DEF ConfirmUpload, ConfirmCommits, ConfirmLost, ConfirmRefused, ConfirmAgain,
       Discard, Past, Kept, moduleVars
  <2>6. CASE AbortUpload(k)
    BY <1>2, <1>3, <1>5, <2>6, UploadStates DEF AbortUpload, Discard, Past, Kept, moduleVars
  <2> QED BY <1>1, <2>1, <2>2, <2>3, <2>4, <2>5, <2>6
<1>7. \A i \in Past' : Kept(i)'
  <2> SUFFICES ASSUME NEW i \in Past' PROVE Kept(i)'
    OBVIOUS
  <2>1. CASE i = k
    BY <1>6, <2>1
  <2>2. CASE i # k
    <3>1. i \in Keys
      BY <1>3, <1>4 DEF Past
    <3> QED BY <1>2, <1>4, <2>2, <3>1 DEF LifecycleInv, HandedIsKept, Past, Kept, moduleVars
  <2> QED BY <2>1, <2>2
<1>8. HandedIsKept'
  BY <1>2, <1>4, <1>7 DEF LifecycleInv, HandedIsKept, Attached, moduleVars
<1>9. old \cap ConfirmedRows \subseteq ConfirmedRows'
  <2>1. k \in old /\ k \in ConfirmedRows => upload'[k] \in ConfirmedStates
    BY <1>1, <1>3, UploadStates DEF ConfirmedRows, RequestUpload, StartPut, FinishPut, UploadParts, UrlExpires, TimePasses,
       ConfirmUpload, AbortUpload, ConfirmCommits, ConfirmLost, ConfirmRefused, ConfirmAgain, Discard
  <2> QED BY <1>3, <1>4, <2>1 DEF ConfirmedRows
<1> QED BY <1>2, <1>4, <1>8, <1>9 DEF LifecycleInv, ClaimedFirst, Inventoried, moduleVars, collectorVars

\* The collector deletes only claimed keys, and claims only what nothing shows once
\* the fence is gone.
LEMMA CollectorKeepsInv ==
    ASSUME TypeOK, SafeReferences, LifecycleTypeOK, LifecycleInv, CollectorStep PROVE LifecycleInv'
<1>1. /\ upload \in [Keys -> {"unused", "gone"} \cup PendingStates \cup ConfirmedStates]
      /\ objects \in [Keys -> {"absent", "whole", "wrong"}] /\ old \subseteq Keys /\ handed \subseteq Keys
      /\ page \subseteq Keys /\ todo \subseteq Keys
  BY DEF LifecycleTypeOK
<1>2. CASE StartSweep \/ SweepEnds \/ ReadPage \/ DeletionsEnd \/ CallFails \/ Crash \/ Restart
  <2>1. UNCHANGED <<coreVars, moduleVars>>
    BY <1>2 DEF StartSweep, SweepEnds, ReadPage, DeletionsEnd, CallFails, Crash, Restart
  <2>2. HandedIsKept'
    BY <2>1 DEF LifecycleInv, HandedIsKept, Past, Kept, Attached, coreVars, moduleVars
  <2>3. pc' \notin {"known", "pending", "adopt", "delete"} /\ (pc' = "fence" => imported') /\ (imported' => imported)
    BY <1>2 DEF StartSweep, SweepEnds, ReadPage, DeletionsEnd, CallFails, Crash, Restart
  <2>. QED  BY <2>1, <2>2, <2>3 DEF LifecycleInv, ClaimedFirst, Inventoried, ConfirmedRows, coreVars, moduleVars
<1>3. CASE ListObjects \/ ReadKnown \/ ReadPending
  <2>1. UNCHANGED <<coreVars, moduleVars, imported>>
    BY <1>3 DEF ListObjects, ReadKnown, ReadPending
  <2>2. HandedIsKept'
    BY <2>1 DEF LifecycleInv, HandedIsKept, Past, Kept, Attached, coreVars, moduleVars
  <2>3. \A k \in old : k \notin PendingRows /\ (k \notin claims => k \in Stored)
    BY <1>1, UploadStates DEF LifecycleInv, HandedIsKept, Past, Kept, PendingRows, Stored
  <2>4. CASE ListObjects
    BY <2>1, <2>2, <2>3, <2>4 DEF LifecycleInv, ClaimedFirst, Inventoried, ConfirmedRows, ListObjects, coreVars, moduleVars
  <2>5. CASE ReadKnown
    BY <2>1, <2>2, <2>5 DEF LifecycleInv, ClaimedFirst, Inventoried, ConfirmedRows, ReadKnown, coreVars, moduleVars
  <2>6. CASE ReadPending
    BY <2>1, <2>2, <2>3, <2>6 DEF LifecycleInv, ClaimedFirst, Inventoried, ConfirmedRows, ReadPending, coreVars, moduleVars
  <2>. QED  BY <1>3, <2>4, <2>5, <2>6
<1>4. CASE Adopt
  <2>1. UNCHANGED <<moduleVars, objects, handed, old>> /\ todo' = {} /\ pc' \in {"fence", "idle"}
    BY <1>4 DEF Adopt
  <2>2. \A k \in Keys : upload'[k] \in {upload[k], "adopted"}
    BY <1>1, <1>4 DEF Adopt
  <2>3. HandedIsKept'
    <3>1. \A k \in Past' : k \in Past
      BY <2>1, <2>2 DEF Past
    <3>2. ASSUME NEW k \in Past' PROVE Kept(k)'
      BY <1>1, <2>1, <2>2, <3>1, UploadStates DEF LifecycleInv, HandedIsKept, Past, Kept, moduleVars
    <3>. QED  BY <2>1, <3>2 DEF LifecycleInv, HandedIsKept, Attached, moduleVars
  <2>4. ConfirmedRows \subseteq ConfirmedRows'
    BY <2>2, UploadStates DEF ConfirmedRows
  <2>5. pc' = "fence" => imported' /\ todo \subseteq ConfirmedRows'
    BY <1>1, <1>4, UploadStates DEF Adopt, ConfirmedRows
  <2>6. pc = "adopt" /\ (imported' = imported \/ pc' = "fence")
    BY <1>4 DEF Adopt
  <2>. QED  BY <2>1, <2>3, <2>4, <2>5, <2>6 DEF LifecycleInv, ClaimedFirst, Inventoried, moduleVars
<1>5. CASE ReleaseFence
  <2>1. UNCHANGED <<coreVars, rowVars, refs, claimVars, ready, imported, todo>> /\ pc = "fence" /\ pc' = "ensure"
    BY <1>5 DEF ReleaseFence, ReleaseStorageInitFence, moduleVars, rowVars, claimVars
  <2>2. HandedIsKept'
    BY <2>1 DEF LifecycleInv, HandedIsKept, Past, Kept, Attached, coreVars, rowVars, claimVars
  <2>3. fence' = fence \/ (fence = "init" /\ fence' = "none" /\ old \cap ConfirmedRows = {})
    BY <1>5 DEF ReleaseFence, ReleaseStorageInitFence, moduleVars
  <2>. QED  BY <2>1, <2>2, <2>3 DEF LifecycleInv, ClaimedFirst, Inventoried, ConfirmedRows, coreVars, claimVars
<1>6. CASE EnsureReady
  <2>1. UNCHANGED <<coreVars, rowVars, claimVars, fence, imported, todo>> /\ pc' = "page"
    BY <1>6 DEF EnsureReady, RebuildStorageReferences
  <2>2. HandedIsKept'
    BY <2>1 DEF LifecycleInv, HandedIsKept, Past, Kept, Attached, coreVars, rowVars, claimVars
  <2>. QED  BY <2>1, <2>2 DEF LifecycleInv, ClaimedFirst, Inventoried, ConfirmedRows, coreVars, claimVars
<1>7. CASE Claim
  <2>1. UNCHANGED <<coreVars, rowVars, fence, imported, todo>> /\ pc' = "view" /\ ready
    BY <1>7 DEF Claim, ClaimUnreferencedStorage, trustVars
  <2>2. claims' = claims \cup (page \ Referenced) /\ batch' = page \ Referenced
    BY <1>7 DEF Claim, ClaimUnreferencedStorage
  <2>3. Attached \subseteq Referenced
    BY <2>1 DEF SafeReferences, TrustedReferencesExact, LifecycleInv, HandedIsKept, Attached, Referenced
  <2>4. HandedIsKept'
    BY <2>1, <2>2, <2>3 DEF LifecycleInv, HandedIsKept, Past, Kept, Attached, coreVars, rowVars
  <2>5. fence # "init"
    BY <2>1 DEF SafeReferences, FencedUntilSettled
  <2>. QED  BY <2>1, <2>2, <2>4, <2>5 DEF LifecycleInv, ClaimedFirst, Inventoried, coreVars
<1>8. CASE ReadClaims
  <2>1. UNCHANGED <<coreVars, moduleVars, imported>> /\ pc' = "delete" /\ todo' \subseteq batch
    BY <1>8 DEF ReadClaims
  <2>2. HandedIsKept'
    BY <2>1 DEF LifecycleInv, HandedIsKept, Past, Kept, Attached, coreVars, moduleVars
  <2>. QED  BY <2>1, <2>2 DEF LifecycleInv, ClaimedFirst, Inventoried, ConfirmedRows, coreVars, moduleVars
<1>9. ASSUME NEW k \in todo, SweepPending(k) \/ DeleteUnreferenced(k) PROVE LifecycleInv'
  <2>1. UNCHANGED <<pc, imported, moduleVars>> /\ todo' = todo \ {k} /\ pc \in {"sweep", "delete"}
    BY <1>9 DEF SweepPending, DeleteUnreferenced
  <2>2. /\ handed' = handed /\ old' = old
        /\ \A i \in Keys : i # k => upload'[i] = upload[i] /\ objects'[i] = objects[i]
        /\ upload'[k] \in {upload[k], "gone"}
        /\ k \notin claims => (upload'[k] = upload[k] /\ objects'[k] = objects[k]) \/ upload[k] = "overdue"
    BY <1>1, <1>9 DEF SweepPending, DeleteUnreferenced, Discard, coreVars, LifecycleInv, ClaimedFirst
  <2>3. Past \subseteq Keys /\ Past' \subseteq Past
    BY <1>1, <2>2 DEF Past
  <2>4. ASSUME NEW i \in Past' PROVE Kept(i)'
    BY <1>1, <2>1, <2>2, <2>3, UploadStates DEF LifecycleInv, HandedIsKept, Kept, moduleVars
  <2>5. HandedIsKept'
    BY <2>1, <2>2, <2>4 DEF LifecycleInv, HandedIsKept, Attached, moduleVars
  <2>6. fence = "init" => old \cap ConfirmedRows \subseteq ConfirmedRows'
    <3>1. ASSUME fence = "init", NEW i \in old, i \in ConfirmedRows PROVE i \in ConfirmedRows'
      <4>1. i \notin claims /\ upload[i] \in ConfirmedStates /\ i \in Keys
        BY <1>1, <3>1 DEF LifecycleInv, Inventoried, ConfirmedRows
      <4>. QED  BY <2>2, <4>1, UploadStates DEF ConfirmedRows
    <3>. QED  BY <3>1
  <2>. QED  BY <2>1, <2>2, <2>5, <2>6 DEF LifecycleInv, ClaimedFirst, Inventoried, moduleVars
<1>. QED  BY <1>2, <1>3, <1>4, <1>5, <1>6, <1>7, <1>8, <1>9 DEF CollectorStep

LEMMA LifecycleInvariant ==
    ASSUME StructureAssumption
    PROVE  LifecycleSpec => [](TypeOK /\ SafeReferences /\ LifecycleTypeOK /\ LifecycleInv)
<1> DEFINE All == TypeOK /\ SafeReferences /\ LifecycleTypeOK /\ LifecycleInv
<1>1. LifecycleInit => All
  BY InitTypeOK, InitSafe, LifecycleInitTypes, LifecycleInitInv DEF LifecycleInit
<1>2. All /\ [LifecycleNext]_lifecycleVars => All'
  <2> SUFFICES ASSUME All, [LifecycleNext]_lifecycleVars PROVE All'
    OBVIOUS
  <2>1. [Next]_moduleVars
    BY LifecycleIsReferences DEF lifecycleVars
  <2>2. TypeOK' /\ SafeReferences'
    BY <2>1, StepTypeOK, StepSafe
  <2>3. LifecycleTypeOK'
    BY LifecycleTypes
  <2>4. LifecycleInv'
    <3>1. CASE UNCHANGED lifecycleVars
      BY <3>1 DEF lifecycleVars, moduleVars, coreVars, collectorVars, LifecycleInv, HandedIsKept, ClaimedFirst, Inventoried,
                  Past, Kept, Attached, ConfirmedRows
    <3> QED BY <3>1, ChatKeepsInv, UploadKeepsInv, CollectorKeepsInv DEF LifecycleNext
  <2> QED BY <2>2, <2>3, <2>4
<1> QED BY <1>1, <1>2, PTL DEF LifecycleSpec

\* What a live row shows is stored, whatever uploads, aborts, sweeps, imports, claims,
\* deletions and restarts of core-api go on meanwhile (PendingUploadSweeper.cs).
THEOREM AttachedIsAlwaysStored ==
    ASSUME StructureAssumption PROVE LifecycleSpec => []AttachedIsStored
<1>1. LifecycleTypeOK /\ LifecycleInv => AttachedIsStored
  BY DEF LifecycleTypeOK, LifecycleInv, HandedIsKept, Past, Kept, AttachedIsStored, Stored
<1> QED BY <1>1, LifecycleInvariant, PTL

\* Nothing that was in the bucket before the database was initialised is ever given
\* up: the fence goes only when the import found no such object.
THEOREM OldObjectsAlwaysKept ==
    ASSUME StructureAssumption PROVE LifecycleSpec => []OldObjectsKept
<1>1. LifecycleInv => OldObjectsKept
  BY DEF LifecycleInv, Inventoried, OldObjectsKept
<1> QED BY <1>1, LifecycleInvariant, PTL

----------------------------------------------------------------------------
(* The refinement: every step is one of the plain store's, or changes nothing *)
(* it knows of.                                                              *)

LEMMA StoreInit == ASSUME StructureAssumption, LifecycleInit PROVE Store!Init
<1>1. LifecycleTypeOK /\ TypeOK /\ LifecycleInv
  BY LifecycleInitTypes, LifecycleInitInv, InitTypeOK DEF LifecycleInit
<1>2. Attached \subseteq Stored \ claims
  BY <1>1 DEF LifecycleTypeOK, LifecycleInv, HandedIsKept, Past, Kept, Stored
<1> QED BY <1>1, <1>2 DEF Store!Init, TypeOK, Stored, Attached

LEMMA StoreStep ==
    ASSUME StructureAssumption, TypeOK, SafeReferences, LifecycleTypeOK, LifecycleInv, LifecycleNext
    PROVE  [Store!Next]_Store!storeVars
<1> DEFINE Avail == Stored \ claims
<1>1. handed \ claims \subseteq Avail /\ Attached \subseteq handed \ claims /\ claims \subseteq Keys
  BY DEF LifecycleTypeOK, LifecycleInv, HandedIsKept, Past, Kept, Stored, TypeOK
<1>2. CASE ChatStep
  <2>1. Avail' = Avail
    BY <1>2, ChatWrites DEF LifecycleInv, Stored, coreVars
  <2>2. ASSUME NEW r \in Rows, NEW ks \in SUBSET (handed \ claims), attached' = [attached EXCEPT ![r] = ks]
        PROVE  Store!Next
    <3>1. Store!Show(r, ks) /\ ks \in SUBSET Keys
      BY <1>1, <2>1, <2>2 DEF Store!Show, Stored
    <3> QED BY <3>1 DEF Store!Next
  <2>3. ASSUME NEW rs \in SUBSET Rows, attached' = [r \in Rows |-> IF r \in rs THEN {} ELSE attached[r]]
        PROVE  Store!Next
    BY <2>1, <2>3 DEF Store!Next, Store!Hide
  <2> QED BY <1>2, <2>2, <2>3, ChatWrites DEF LifecycleInv
<1>3. ASSUME attached' = attached, Avail \subseteq Avail' PROVE Store!Next
  <2>1. Avail' \in SUBSET Keys /\ Avail' = Avail \cup Avail'
    BY <1>3 DEF Stored
  <2> QED BY <1>3, <2>1 DEF Store!Next, Store!Store
<1>4. ASSUME attached' = attached, NEW ks \in SUBSET Keys, Avail' = Avail \ ks, ks \cap Attached = {} PROVE Store!Next
  BY <1>4 DEF Store!Next, Store!Retire, Store!OnShow, Attached
<1>5. ASSUME NEW k \in Keys, attached' = attached, claims' = claims, k \notin Past \/ k \in claims,
             Discard(k) \/ UNCHANGED coreVars
      PROVE  Store!Next
  <2>1. Avail' \in {Avail, Avail \ {k}}
    BY <1>5 DEF Discard, Stored, coreVars, LifecycleTypeOK
  <2>2. {k} \cap Attached = {} \/ k \notin Avail
    BY <1>1, <1>5 DEF Past
  <2>3. CASE Avail' = Avail
    BY <1>3, <1>5, <2>3
  <2>4. CASE Avail' = Avail \ {k} /\ k \in Avail
    BY <1>4, <1>5, <2>2, <2>4
  <2>5. CASE Avail' = Avail \ {k} /\ k \notin Avail
    <3>1. Avail' = Avail
      BY <2>5
    <3> QED BY <1>3, <1>5, <3>1
  <2> QED BY <2>1, <2>3, <2>4, <2>5
<1>6. CASE UploadStep
  <2>1. attached' = attached /\ claims' = claims
    BY <1>6 DEF UploadStep, moduleVars
  <2>2. PICK k \in Keys :
        \/ \E t \in {"open", "parts", "none"} : RequestUpload(k, t)
        \/ StartPut(k)
        \/ \E size \in {"whole", "wrong"} : FinishPut(k, size)
        \/ UploadParts(k)
        \/ UrlExpires(k)
        \/ TimePasses(k)
        \/ ConfirmUpload(k)
        \/ AbortUpload(k)
    BY <1>6 DEF UploadStep
  <2>3. CASE ConfirmRefused(k) \/ AbortUpload(k)
    <3>1. Discard(k) /\ upload[k] \in PendingStates
      BY <2>3, UploadStates DEF ConfirmRefused, AbortUpload
    <3>2. k \notin Past
      BY <3>1, UploadStates DEF LifecycleInv, HandedIsKept, Kept
    <3> QED BY <1>5, <2>1, <3>1, <3>2
  <2>4. CASE ~ConfirmRefused(k) /\ ~AbortUpload(k)
    <3>1. objects' = objects \/ \E size \in {"whole", "wrong"} : objects' = [objects EXCEPT ![k] = size]
      BY <2>2, <2>4 DEF RequestUpload, StartPut, FinishPut, UploadParts, UrlExpires, TimePasses, ConfirmUpload,
         ConfirmCommits, ConfirmLost, ConfirmAgain
    <3>2. Avail \subseteq Avail'
      BY <2>1, <3>1 DEF Stored, LifecycleTypeOK
    <3> QED BY <1>3, <2>1, <3>2
  <2> QED BY <2>3, <2>4
<1>7. CASE CollectorStep
  <2>1. ASSUME NEW k \in todo, SweepPending(k) \/ DeleteUnreferenced(k) PROVE Store!Next
    <3>1. attached' = attached /\ claims' = claims /\ k \in Keys
      BY <2>1 DEF SweepPending, DeleteUnreferenced, moduleVars, LifecycleTypeOK
    <3>2. (Discard(k) \/ UNCHANGED coreVars) /\ (upload[k] = "overdue" \/ k \in claims \/ UNCHANGED coreVars)
      BY <2>1 DEF SweepPending, DeleteUnreferenced, LifecycleInv, ClaimedFirst
    <3>3. upload[k] = "overdue" => k \notin Past
      BY UploadStates DEF LifecycleInv, HandedIsKept, Kept
    <3>4. CASE UNCHANGED coreVars
      <4>1. Avail \subseteq Avail'
        BY <3>1, <3>4 DEF Stored, coreVars
      <4> QED BY <1>3, <3>1, <4>1
    <3> QED BY <1>5, <3>1, <3>2, <3>3, <3>4
  <2>2. CASE Claim
    <3>1. attached' = attached /\ objects' = objects /\ ready /\ claims' = claims \cup (page \ Referenced)
      BY <2>2 DEF Claim, ClaimUnreferencedStorage, rowVars, coreVars
    <3>2. Attached \subseteq Referenced
      BY <3>1 DEF SafeReferences, TrustedReferencesExact, LifecycleInv, HandedIsKept, Attached, Referenced
    <3>3. page \ Referenced \in SUBSET Keys /\ (page \ Referenced) \cap Attached = {}
      BY <3>2 DEF LifecycleTypeOK
    <3>4. Avail' = Avail \ (page \ Referenced)
      BY <3>1 DEF Stored
    <3> QED BY <1>4, <3>1, <3>3, <3>4
  <2>3. CASE ~Claim /\ ~\E k \in todo : SweepPending(k) \/ DeleteUnreferenced(k)
    <3>1. attached' = attached /\ objects' = objects /\ claims' = claims
      BY <1>7, <2>3 DEF CollectorStep, StartSweep, SweepEnds, ListObjects, ReadKnown, ReadPending, Adopt, ReadPage, ReadClaims,
         ReleaseFence, ReleaseStorageInitFence, EnsureReady, RebuildStorageReferences,
         DeletionsEnd, CallFails, Crash, Restart, coreVars, moduleVars, rowVars, claimVars
    <3>2. Avail' = Avail
      BY <3>1 DEF Stored
    <3> QED BY <1>3, <3>1, <3>2
  <2> QED BY <2>1, <2>2, <2>3
<1> QED BY <1>2, <1>6, <1>7 DEF LifecycleNext

\* The whole machinery behind attachments implements the plain store: content points
\* at available objects only, and nothing on show is given up.
THEOREM LifecycleImplementsStore ==
    ASSUME StructureAssumption PROVE LifecycleSpec => ImplementsStore
<1>1. LifecycleInit => Store!Init
  BY StoreInit
<1>2. TypeOK /\ SafeReferences /\ LifecycleTypeOK /\ LifecycleInv /\ [LifecycleNext]_lifecycleVars
        => [Store!Next]_Store!storeVars
  <2>1. UNCHANGED lifecycleVars => UNCHANGED Store!storeVars
    BY DEF lifecycleVars, moduleVars, coreVars, Store!storeVars, Stored
  <2> QED BY <2>1, StoreStep
<1> QED BY <1>1, <1>2, LifecycleInvariant, PTL DEF LifecycleSpec, ImplementsStore, Store!Spec

----------------------------------------------------------------------------
(* A wipe and the rebuild after it *)

Records == [st : {"absent", "live", "deleted"}, ks : SUBSET Keys, hidden : SUBSET Sides]

RestoreTypeOK ==
    /\ TypeOK
    /\ plain \subseteq PlainRows /\ plainArchive \subseteq PlainRows
    /\ archive \in [Rows -> Records]
    /\ bucket \subseteq Keys
    /\ phase \in {"normal", "wiped"}

\* A record as the database can hold it for row r.
WellFormed(r, x) ==
    /\ x.st # "live" => x.ks = {}
    /\ r \notin DirectMessages \/ x.st = "absent" => x.hidden = {}

StillFenced == ~ready /\ fence \in {"init", "recent"} /\ inHand = {} /\ bucket # {}
ArchiveKept == owed = Mirror /\ \A r \in Rows : WellFormed(r, archive[r])
OnlyArchived == plain \subseteq plainArchive /\ \A r \in Rows : status[r] # "absent" => RowRecord(r) = archive[r]
RestIsRemaining ==
    rebuilding =>
      /\ dump = Mirror /\ remaining \subseteq Archived(Mirror)
      /\ \A r \in Rows : archive[r] # NoRow /\ r \notin remaining => RowRecord(r) = archive[r]
      /\ plainArchive \ remaining \subseteq plain

RestoreInv ==
    /\ ~coreUp => inHand = {}
    /\ rebuilding => phase = "wiped"
    /\ phase = "wiped" => StillFenced /\ ArchiveKept /\ OnlyArchived /\ RestIsRemaining

LEMMA RecordsAre ==
    ASSUME TypeOK, NEW r \in Rows
    PROVE  /\ RowRecord(r) \in Records /\ WellFormed(r, RowRecord(r))
           /\ RowRecord(r).st = status[r] /\ RowRecord(r).ks = attached[r]
           /\ status[r] = "absent" <=> RowRecord(r) = NoRow
BY DEF TypeOK, RowRecord, Records, WellFormed, NoRow

LEMMA RestoreInitial == RestoreInit => RestoreTypeOK /\ RestoreInv
<1> SUFFICES ASSUME RestoreInit PROVE RestoreTypeOK /\ RestoreInv
  OBVIOUS
<1>1. TypeOK
  BY InitTypeOK DEF RestoreInit
<1>2. archive \in [Rows -> Records]
  BY DEF RestoreInit, Empty, NoRow, Records
<1>3. phase = "normal" /\ inHand = {} /\ plain = {} /\ plainArchive = {} /\ bucket \subseteq Keys /\ ~rebuilding
  BY DEF RestoreInit
<1> QED BY <1>1, <1>2, <1>3 DEF RestoreTypeOK, RestoreInv

\* The steps of users, of time and of the collector are reducers' steps.
LEMMA ChatIsReferences == ASSUME UserStep PROVE Next
<1>1. ASSUME NEW m \in Messages, \/ \E ks \in SUBSET (Scope[m] \cap Attachable) : SendMessage(m, ks) \/ EditMessage(m, ks)
                                 \/ DeleteMessage(m)
      PROVE  Next
  BY <1>1 DEF Next, MessageReducers
<1>2. ASSUME NEW d \in DirectMessages,
             \/ \E ks \in SUBSET (Scope[d] \cap Attachable) :
                     SendDirectMessage(d, ks) \/ EditDirectMessage(d, ks)
             \/ \E side \in Sides : DeleteDirectMessage(d, side)
      PROVE  Next
  BY <1>2 DEF Next, DirectMessageReducers
<1>3. ASSUME NEW r \in Slots, CreateSlotRow(r) \/ \E ks \in Contents(r) : ks \subseteq Attachable /\ SaveSlot(r, ks)
      PROVE  Next
  BY <1>3 DEF Next, SlotReducers, Slots, RegisterUser, CreateServer, UpdateProfile, SetServerIcon
<1>4. ASSUME NEW s \in Spaces, DeleteServer(s) PROVE Next
  BY <1>4 DEF Next, SlotReducers
<1> QED BY <1>1, <1>2, <1>3, <1>4 DEF UserStep

LEMMA CollectorIsReferences == ASSUME RestoreTypeOK, CleanupStep PROVE Next \/ UNCHANGED moduleVars
<1>1. CASE LiftFence
  <2>1. (bucket # {}) \in BOOLEAN
    OBVIOUS
  <2> QED BY <1>1, <2>1 DEF LiftFence, Next, CleanupReducers
<1>2. CASE ImportReferences
  BY <1>2 DEF ImportReferences, Next, CleanupReducers
<1>3. ASSUME NEW ks \in SUBSET bucket, ClaimAndRead(ks) PROVE Next
  BY <1>3 DEF ClaimAndRead, Next, CleanupReducers, RestoreTypeOK
<1>4. ASSUME NEW k \in inHand, DeleteObject(k) PROVE UNCHANGED moduleVars
  BY <1>4 DEF DeleteObject
<1> QED BY <1>1, <1>2, <1>3, <1>4 DEF CleanupStep

\* While the database is wiped nothing that is not the rebuild touches its rows.
LEMMA SameRecords ==
    ASSUME UNCHANGED <<status, attached, hiddenBy>>
    PROVE  \A r : RowRecord(r)' = RowRecord(r)
BY DEF RowRecord

\* What is outside the archive and the operator's hands.
LEMMA OutsideKeeps ==
    ASSUME StructureAssumption, RestoresInTime, RestoreTypeOK, RestoreInv,
           UserStep \/ (\E p \in PlainRows : ChangePlain(p)) \/ QuietPeriod \/ CleanupStep
    PROVE  RestoreTypeOK' /\ RestoreInv'
<1>1. UNCHANGED <<archive, plainArchive, phase, owed, dump, remaining, rebuilding>>
  BY DEF UserStep, ChangePlain, QuietPeriod, CleanupStep, LiftFence, ImportReferences, ClaimAndRead, DeleteObject,
         mirrorVars, rebuildVars
<1>2. Next \/ UNCHANGED moduleVars
  <2>1. CASE UserStep
    BY <2>1, ChatIsReferences
  <2>2. CASE CleanupStep
    BY <2>2, CollectorIsReferences
  <2> QED BY <2>1, <2>2 DEF ChangePlain, QuietPeriod, Next
<1>3. TypeOK'
  BY <1>2, StepTypeOK DEF RestoreTypeOK
<1>4. plain' \subseteq PlainRows /\ bucket' \subseteq bucket
  BY DEF RestoreTypeOK, UserStep, ChangePlain, QuietPeriod, CleanupStep, LiftFence, ImportReferences, ClaimAndRead,
         DeleteObject, mirrorVars, fileVars
<1>5. RestoreTypeOK'
  BY <1>1, <1>3, <1>4 DEF RestoreTypeOK
<1>6. ~coreUp' => inHand' = {}
  BY DEF RestoreInv, UserStep, ChangePlain, QuietPeriod, CleanupStep, LiftFence, ImportReferences, ClaimAndRead,
         DeleteObject, fileVars
<1>7. ASSUME phase = "wiped"
      PROVE  UNCHANGED <<status, attached, hiddenBy, plain, inHand, bucket, ready, fence>>
  <2>1. StillFenced
    BY <1>7 DEF RestoreInv
  <2>2. CASE LiftFence
    BY <2>1, <2>2 DEF LiftFence, ReleaseStorageInitFence, StillFenced, rowVars, mirrorVars, fileVars
  <2>3. CASE ImportReferences
    BY <2>1, <2>3 DEF ImportReferences, RebuildStorageReferences, StillFenced
  <2>4. ASSUME NEW ks, ClaimAndRead(ks) PROVE FALSE
    BY <2>1, <2>4 DEF ClaimAndRead, ClaimUnreferencedStorage, StillFenced
  <2>5. ASSUME NEW k \in inHand, DeleteObject(k) PROVE FALSE
    BY <2>1, <2>5 DEF StillFenced
  <2> QED BY <1>7, <2>2, <2>3, <2>4, <2>5 DEF UserStep, ChangePlain, QuietPeriod, CleanupStep
<1>8. ASSUME phase = "wiped" PROVE (StillFenced /\ ArchiveKept /\ OnlyArchived /\ RestIsRemaining)'
  <2>1. \A r : RowRecord(r)' = RowRecord(r)
    BY <1>7, <1>8, SameRecords
  <2>2. Mirror' = Mirror
    BY <1>1 DEF Mirror
  <2> QED BY <1>1, <1>7, <1>8, <2>1, <2>2 DEF RestoreInv, StillFenced, ArchiveKept, OnlyArchived, RestIsRemaining, WellFormed
<1> QED BY <1>1, <1>5, <1>6, <1>8 DEF RestoreInv

\* The worker copies what is there, and prunes only once can_delete is true.
LEMMA WorkerKeeps ==
    ASSUME RestoreTypeOK, RestoreInv, WorkerStep PROVE RestoreTypeOK' /\ RestoreInv'
<1>1. UNCHANGED <<moduleVars, plain, rebuildVars, fileVars>>
  BY DEF WorkerStep, WorkerConnects, WorkerDisconnects, ReconcileWhenReady, Replicate, ReplicateDelete
<1>2. \A r : RowRecord(r)' = RowRecord(r)
  BY <1>1, SameRecords DEF moduleVars, rowVars
<1>3. archive' \in [Rows -> Records] /\ plainArchive' \subseteq PlainRows
  <2>1. CASE WorkerConnects \/ WorkerDisconnects
    BY <2>1 DEF WorkerConnects, WorkerDisconnects, RestoreTypeOK
  <2>2. NoRow \in Records
    BY DEF NoRow, Records
  <2>3. CASE ReconcileWhenReady
    BY <2>2, <2>3 DEF ReconcileWhenReady, RestoreTypeOK
  <2>4. ASSUME NEW r, Replicate(r) PROVE archive' \in [Rows -> Records] /\ plainArchive' \subseteq PlainRows
    BY <2>4, RecordsAre DEF Replicate, RestoreTypeOK
  <2>5. ASSUME NEW r, ReplicateDelete(r) PROVE archive' \in [Rows -> Records] /\ plainArchive' \subseteq PlainRows
    BY <2>2, <2>5 DEF ReplicateDelete, RestoreTypeOK
  <2> QED BY <2>1, <2>3, <2>4, <2>5 DEF WorkerStep
<1>4. TypeOK'
  BY <1>1 DEF RestoreTypeOK, TypeOK, moduleVars, rowVars, claimVars
<1>5. RestoreTypeOK'
  BY <1>1, <1>3, <1>4 DEF RestoreTypeOK, rebuildVars, fileVars
<1>6. ASSUME phase = "wiped" PROVE UNCHANGED <<archive, plainArchive>>
  <2>1. ~ready /\ OnlyArchived
    BY <1>6 DEF RestoreInv, StillFenced
  <2>2. CASE ReconcileWhenReady
    <3>1. archive' = [r \in Rows |-> archive[r]] /\ plainArchive' = plainArchive
      BY <2>1, <2>2 DEF ReconcileWhenReady, CanDelete
    <3> QED BY <3>1 DEF RestoreTypeOK
  <2>3. ASSUME NEW r, Replicate(r) PROVE UNCHANGED <<archive, plainArchive>>
    BY <2>1, <2>3 DEF Replicate, OnlyArchived, RestoreTypeOK
  <2>4. ASSUME NEW r, ReplicateDelete(r) PROVE FALSE
    BY <2>1, <2>4 DEF ReplicateDelete, CanDelete
  <2> QED BY <2>2, <2>3, <2>4 DEF WorkerStep, WorkerConnects, WorkerDisconnects
<1>7. ASSUME phase = "wiped" PROVE (StillFenced /\ ArchiveKept /\ OnlyArchived /\ RestIsRemaining)'
  <2>1. Mirror' = Mirror
    BY <1>6, <1>7 DEF Mirror
  <2>2. UNCHANGED <<status, ready, fence>>
    BY <1>1 DEF moduleVars, rowVars
  <2> QED BY <1>1, <1>2, <1>6, <1>7, <2>1, <2>2
          DEF RestoreInv, StillFenced, ArchiveKept, OnlyArchived, RestIsRemaining, WellFormed, rebuildVars, fileVars
<1> QED BY <1>1, <1>5, <1>7 DEF RestoreInv, rebuildVars, fileVars

\* A restored row is the row that was archived; no other row changes.
LEMMA RestoredIs ==
    ASSUME TypeOK, NEW r \in Rows, NEW x \in Records, WellFormed(r, x),
           ArchiveRestore(r, x.st, x.ks, x.hidden)
    PROVE  /\ TypeOK'
           /\ RowRecord(r)' = x
           /\ \A s \in Rows \ {r} : RowRecord(s)' = RowRecord(s) /\ status'[s] = status[s]
           /\ ~ready' /\ fence' = "recent"
<1> USE DEF ArchiveRestore
<1>1. x.st \in {"absent", "live", "deleted"} /\ x.ks \in SUBSET Keys /\ x.hidden \in SUBSET Sides
      /\ x = [st |-> x.st, ks |-> x.ks, hidden |-> x.hidden]
  BY DEF Records
<1>2. /\ status' \in [Rows -> {"absent", "live", "deleted"}] /\ attached' \in [Rows -> SUBSET Keys]
      /\ \A s \in Rows : status'[s] # "live" => attached'[s] = {}
      /\ hiddenBy' \in [DirectMessages -> SUBSET Sides]
  BY <1>1 DEF TypeOK, WellFormed
<1>3. refs' \in [Rows -> SUBSET Keys] /\ claims' = claims /\ batch' = batch
  BY <1>1 DEF TypeOK, RestoreReferences, claimVars
<1>4. ~ready' /\ fence' = "recent"
  BY DEF SetFence
<1>5. TypeOK'
  BY <1>2, <1>3, <1>4 DEF TypeOK, SetFence
<1>6. status'[r] = x.st /\ attached'[r] = x.ks /\ (r \in DirectMessages => hiddenBy'[r] = x.hidden)
  BY DEF TypeOK
<1>7. (IF r \in DirectMessages /\ x.st # "absent" THEN x.hidden ELSE {}) = x.hidden
  BY DEF WellFormed
<1>8. RowRecord(r)' = x
  BY <1>1, <1>6, <1>7 DEF RowRecord
<1>9. ASSUME NEW s \in Rows, s # r PROVE RowRecord(s)' = RowRecord(s) /\ status'[s] = status[s]
  BY <1>9 DEF RowRecord, TypeOK
<1> QED BY <1>4, <1>5, <1>8, <1>9

\* The batches of a rebuild put back archived rows and nothing else.
LEMMA BatchKeeps ==
    ASSUME RestoreAssumption, RestoreTypeOK, RestoreInv, NEW r \in remaining, RestoreBatch(r)
    PROVE  RestoreTypeOK' /\ RestoreInv'
<1>1. phase = "wiped" /\ rebuilding /\ StillFenced /\ ArchiveKept /\ OnlyArchived /\ RestIsRemaining
  BY DEF RestoreBatch, RestoreInv
<1>2. UNCHANGED <<archive, plainArchive, phase, owed, dump, rebuilding, coreUp, inHand, bucket>>
      /\ remaining' = remaining \ {r}
  BY DEF RestoreBatch, fileVars
<1>3. Mirror' = Mirror /\ Archived(Mirror)' = Archived(Mirror)
  BY <1>2 DEF Mirror, Archived
<1>4. CASE r \in Rows /\ ArchiveRestore(r, dump.rows[r].st, dump.rows[r].ks, dump.rows[r].hidden) /\ UNCHANGED plain
  <2>1. dump.rows[r] = archive[r] /\ archive[r] \in Records /\ WellFormed(r, archive[r])
    BY <1>1, <1>4 DEF RestIsRemaining, Mirror, ArchiveKept, RestoreTypeOK
  <2>2. /\ TypeOK' /\ RowRecord(r)' = archive[r]
        /\ \A s \in Rows \ {r} : RowRecord(s)' = RowRecord(s) /\ status'[s] = status[s]
        /\ ~ready' /\ fence' = "recent"
    BY <1>4, <2>1, RestoredIs DEF RestoreTypeOK
  <2>3. r \notin PlainRows
    BY <1>4 DEF RestoreAssumption
  <2>4. RestoreTypeOK'
    BY <1>2, <1>4, <2>2 DEF RestoreTypeOK
  <2>5. StillFenced' /\ ArchiveKept'
    BY <1>1, <1>2, <1>3, <2>2 DEF StillFenced, ArchiveKept, WellFormed
  <2>6. OnlyArchived'
    BY <1>1, <1>2, <1>4, <2>2 DEF OnlyArchived
  <2>7. plainArchive \ remaining' \subseteq plain
    BY <1>1, <1>2, <2>3 DEF RestIsRemaining, RestoreTypeOK
  <2>8. RestIsRemaining'
    BY <1>1, <1>2, <1>3, <1>4, <2>2, <2>7 DEF RestIsRemaining
  <2> QED BY <1>1, <1>2, <2>4, <2>5, <2>6, <2>8 DEF RestoreInv
<1>5. CASE r \in PlainRows /\ plain' = plain \cup {r} /\ UNCHANGED moduleVars
  <2>1. r \in plainArchive /\ r \notin Rows
    BY <1>1, <1>5 DEF RestIsRemaining, Archived, Mirror, RestoreAssumption
  <2>2. UNCHANGED <<status, attached, hiddenBy, ready, fence>>
    BY <1>5 DEF moduleVars
  <2>3. \A s : RowRecord(s)' = RowRecord(s)
    BY <2>2, SameRecords
  <2>4. TypeOK'
    BY <1>5 DEF RestoreTypeOK, TypeOK, moduleVars
  <2>5. RestoreTypeOK'
    BY <1>2, <1>5, <2>4 DEF RestoreTypeOK
  <2>6. StillFenced' /\ ArchiveKept' /\ OnlyArchived'
    BY <1>1, <1>2, <1>3, <1>5, <2>1, <2>2, <2>3 DEF StillFenced, ArchiveKept, OnlyArchived, WellFormed
  <2>7. RestIsRemaining'
    BY <1>1, <1>2, <1>3, <1>5, <2>1, <2>3 DEF RestIsRemaining
  <2> QED BY <1>1, <1>2, <2>5, <2>6, <2>7 DEF RestoreInv
<1> QED BY <1>4, <1>5 DEF RestoreBatch

\* The wipe sets the invariant up; starting, failing and succeeding keep it.
LEMMA OperatorKeeps ==
    ASSUME RestoreAssumption, FilesPredateWipe, RestoreTypeOK, RestoreInv, OperatorStep
    PROVE  RestoreTypeOK' /\ RestoreInv'
<1>1. CASE StopCore \/ StartCore \/ RebuildFails \/ RebuildSucceeds \/ StartRebuild
  <2>1. UNCHANGED <<moduleVars, mirrorVars, bucket>> /\ inHand' \in {inHand, {}}
        /\ \/ coreUp' = coreUp /\ inHand' = inHand
           \/ inHand' = {}
    BY <1>1 DEF StopCore, StartCore, RebuildFails, RebuildSucceeds, StartRebuild, fileVars, RestoreInv
  <2>2. \A r : RowRecord(r)' = RowRecord(r)
    BY <2>1, SameRecords DEF moduleVars
  <2>3. UNCHANGED <<status, plain, archive, plainArchive, ready, fence>> /\ Mirror' = Mirror
    BY <2>1 DEF mirrorVars, moduleVars, Mirror
  <2>4. TypeOK'
    BY <2>1 DEF RestoreTypeOK, TypeOK, moduleVars
  <2>5. phase' \in {phase, "normal"} /\ (phase' = "wiped" => owed' = owed) /\ (phase' = "normal" /\ phase = "wiped" => ~rebuilding')
    BY <1>1 DEF StopCore, StartCore, RebuildFails, RebuildSucceeds, StartRebuild, rebuildVars
  <2>6. rebuilding' => phase' = "wiped"
    BY <1>1 DEF StopCore, StartCore, RebuildFails, RebuildSucceeds, StartRebuild, rebuildVars, RestoreInv
  <2>7. RestoreTypeOK'
    BY <2>1, <2>3, <2>4, <2>5 DEF RestoreTypeOK
  <2>8. ASSUME phase' = "wiped" PROVE (StillFenced /\ ArchiveKept /\ OnlyArchived /\ RestIsRemaining)'
    <3>1. phase = "wiped" /\ owed' = owed
      BY <2>5, <2>8 DEF RestoreTypeOK
    <3>2. StillFenced /\ ArchiveKept /\ OnlyArchived /\ RestIsRemaining
      BY <3>1 DEF RestoreInv
    <3>3. (StillFenced /\ ArchiveKept /\ OnlyArchived)'
      BY <2>1, <2>2, <2>3, <3>1, <3>2 DEF StillFenced, ArchiveKept, OnlyArchived, WellFormed
    <3>4. CASE StartRebuild
      <4>1. Archived(Mirror)' = Archived(Mirror)
        BY <2>3 DEF Archived
      <4>2. dump' = Mirror' /\ remaining' = Archived(Mirror)'
        BY <2>3, <3>4, <4>1 DEF StartRebuild
      <4>3. \A r \in Rows : archive[r] # NoRow => r \in remaining'
        BY <3>4 DEF StartRebuild, Archived, Mirror
      <4>4. plainArchive \subseteq remaining'
        BY <3>4 DEF StartRebuild, Archived, Mirror
      <4> QED BY <2>3, <3>3, <4>2, <4>3, <4>4 DEF RestIsRemaining
    <3>5. CASE RebuildFails \/ RebuildSucceeds
      BY <3>3, <3>5 DEF RebuildFails, RebuildSucceeds, RestIsRemaining
    <3>6. CASE StopCore \/ StartCore
      <4>1. UNCHANGED <<dump, remaining, rebuilding>>
        BY <3>6 DEF StopCore, StartCore, rebuildVars
      <4>2. Archived(Mirror)' = Archived(Mirror)
        BY <2>3 DEF Archived
      <4> QED BY <2>2, <2>3, <3>2, <3>3, <4>1, <4>2 DEF RestIsRemaining
    <3> QED BY <1>1, <3>3, <3>4, <3>5, <3>6
  <2>9. ~coreUp' => inHand' = {}
    BY <2>1 DEF RestoreInv
  <2> QED BY <2>6, <2>7, <2>8, <2>9 DEF RestoreInv
<1>2. CASE Wipe
  <2>1. inHand = {} /\ ~rebuilding
    BY <1>2 DEF Wipe, RestoreInv
  <2>2. UNCHANGED <<archive, plainArchive, rebuilding, coreUp, inHand, bucket>>
        /\ owed' = Mirror /\ phase' = "wiped" /\ plain' = {} /\ WipeDatabase
    BY <1>2 DEF Wipe, fileVars
  <2>3. TypeOK' /\ ~ready' /\ fence' = "init" /\ \A r \in Rows : status'[r] = "absent"
    BY <2>2 DEF WipeDatabase, SetFence, RestoreTypeOK, TypeOK
  <2>4. RestoreTypeOK'
    BY <2>2, <2>3 DEF RestoreTypeOK
  <2>5. Mirror' = Mirror
    BY <2>2 DEF Mirror
  <2>6. \A r \in Rows : archive[r] = RowRecord(r)
    <3>1. archive = Database
      BY <1>2 DEF Wipe, Mirror
    <3> QED BY <3>1 DEF Database
  <2>7. \A r \in Rows : WellFormed(r, archive[r])
    BY <2>6, RecordsAre DEF RestoreTypeOK
  <2>8. ArchiveKept'
    BY <2>2, <2>5, <2>7 DEF ArchiveKept, WellFormed
  <2>9. StillFenced'
    BY <1>2, <2>1, <2>2, <2>3 DEF Wipe, StillFenced
  <2>10. OnlyArchived' /\ RestIsRemaining'
    BY <2>1, <2>2, <2>3 DEF OnlyArchived, RestIsRemaining
  <2> QED BY <2>1, <2>2, <2>4, <2>8, <2>9, <2>10 DEF RestoreInv
<1>3. ASSUME NEW r \in remaining, RestoreBatch(r) PROVE RestoreTypeOK' /\ RestoreInv'
  BY <1>3, BatchKeeps
<1> QED BY <1>1, <1>2, <1>3 DEF OperatorStep

LEMMA RestoreStep ==
    ASSUME StructureAssumption, RestoreAssumption, RestoresInTime, FilesPredateWipe,
           RestoreTypeOK, RestoreInv, [RestoreNext]_restoreVars
    PROVE  RestoreTypeOK' /\ RestoreInv'
<1>1. CASE UNCHANGED restoreVars
  <2>1. UNCHANGED <<moduleVars, mirrorVars, rebuildVars, fileVars>>
    BY <1>1 DEF restoreVars
  <2>2. TypeOK'
    BY <2>1 DEF RestoreTypeOK, TypeOK, moduleVars
  <2>3. RestoreTypeOK'
    BY <2>1, <2>2 DEF RestoreTypeOK, mirrorVars, rebuildVars, fileVars
  <2>4. \A r : RowRecord(r)' = RowRecord(r)
    BY <2>1, SameRecords DEF moduleVars
  <2>5. Mirror' = Mirror /\ Archived(Mirror)' = Archived(Mirror)
    BY <2>1 DEF Mirror, Archived, mirrorVars
  <2>6. UNCHANGED <<status, ready, fence, plain, archive, plainArchive, phase, owed, dump, remaining, rebuilding, coreUp, inHand, bucket>>
    BY <2>1 DEF moduleVars, mirrorVars, rebuildVars, fileVars
  <2>7. ASSUME phase = "wiped" PROVE (StillFenced /\ ArchiveKept /\ OnlyArchived /\ RestIsRemaining)'
    BY <2>4, <2>5, <2>6, <2>7 DEF RestoreInv, StillFenced, ArchiveKept, OnlyArchived, RestIsRemaining, WellFormed
  <2> QED BY <2>3, <2>6, <2>7 DEF RestoreInv
<1> QED BY <1>1, OutsideKeeps, WorkerKeeps, OperatorKeeps DEF RestoreNext

LEMMA RestoreInvariant ==
    ASSUME StructureAssumption, RestoreAssumption, RestoresInTime, FilesPredateWipe
    PROVE  RestoreSpec => [](RestoreTypeOK /\ RestoreInv)
BY RestoreInitial, RestoreStep, PTL DEF RestoreSpec

\* Whatever the running worker does between the wipe and a rebuild that
\* succeeds (connecting, copying, waiting for can_delete), what the archive
\* held is still there to be read.
THEOREM ArchiveOutlivesTheWipe ==
    ASSUME StructureAssumption, RestoreAssumption, RestoresInTime, FilesPredateWipe
    PROVE  RestoreSpec => []ArchiveIntactDuringRestore
<1>1. RestoreInv => ArchiveIntactDuringRestore
  BY DEF RestoreInv, ArchiveKept, ArchiveIntactDuringRestore
<1> QED BY <1>1, RestoreInvariant, PTL

\* However many rebuilds died partway, the one that succeeds leaves the
\* database exactly as it was when it was wiped.
THEOREM RebuildIsComplete ==
    ASSUME StructureAssumption, RestoreAssumption, RestoresInTime, FilesPredateWipe
    PROVE  RestoreSpec => RebuildRestoresEverything
<1>1. ASSUME RestoreTypeOK, RestoreInv, RestoreNext, phase = "wiped", phase' = "normal"
      PROVE  Database = owed.rows /\ plain = owed.plain
  <2>1. RebuildSucceeds
    <3>1. CASE OperatorStep
      <4>1. \A r : ~RestoreBatch(r)
        BY <1>1 DEF RestoreBatch
      <4> QED BY <1>1, <3>1, <4>1 DEF OperatorStep, StopCore, StartCore, Wipe, StartRebuild, RebuildFails, rebuildVars
    <3> QED BY <1>1, <3>1 DEF RestoreNext, UserStep, ChangePlain, WorkerStep, WorkerConnects, WorkerDisconnects,
            ReconcileWhenReady, Replicate, ReplicateDelete, QuietPeriod, CleanupStep, LiftFence, ImportReferences,
            ClaimAndRead, DeleteObject, rebuildVars
  <2>2. rebuilding /\ remaining = {} /\ ArchiveKept /\ OnlyArchived /\ RestIsRemaining
    BY <1>1, <2>1 DEF RebuildSucceeds, RestoreInv
  <2>3. \A r \in Rows : RowRecord(r) = archive[r]
    BY <1>1, <2>2, RecordsAre DEF RestIsRemaining, OnlyArchived, RestoreTypeOK
  <2>4. Database = archive
    BY <1>1, <2>3 DEF Database, RestoreTypeOK
  <2>5. plain = plainArchive
    BY <2>2 DEF RestIsRemaining, OnlyArchived
  <2> QED BY <2>2, <2>4, <2>5 DEF ArchiveKept, Mirror
<1>2. RestoreTypeOK /\ RestoreInv /\ [RestoreNext]_restoreVars
      => [phase = "wiped" /\ phase' = "normal" => Database = owed.rows /\ plain = owed.plain]_restoreVars
  BY <1>1
<1> QED BY <1>2, RestoreInvariant, PTL DEF RestoreSpec, RebuildRestoresEverything
============================================================================
