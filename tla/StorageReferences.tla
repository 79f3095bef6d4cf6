------------------------- MODULE StorageReferences -------------------------
(***************************************************************************)
(* The chat database's side of attachment storage: the SpacetimeDB module  *)
(* tables that say which stored objects a chat row points at               *)
(* (storage_reference), whether that derived table may be trusted          *)
(* (storage_reference_state, storage_restore_fence), and which objects     *)
(* have been given up for good (storage_deletion_claim).                   *)
(*                                                                         *)
(* A reducer is one serialised transaction whose error rolls everything    *)
(* back, so each reducer is one action, enabled when the reducer succeeds. *)
(*                                                                         *)
(* Rows abstract the four tables with attachments.  A slot (avatar, icon)  *)
(* holds at most one key.  Scope[r] is the set of keys the scope rules     *)
(* (is_channel_key, is_dm_key, is_avatar_key, is_icon_key, is_legacy_key)  *)
(* accept for row r.                                                       *)
(***************************************************************************)
EXTENDS Naturals, FiniteSets

CONSTANTS Messages, DirectMessages, Accounts, Spaces,
          Channels, ChannelOf, SpaceOf,
          Keys, Scope

Rows  == Messages \cup DirectMessages \cup Accounts \cup Spaces
Slots == Accounts \cup Spaces
Sides == {"sender", "recipient"}

\* What the theorems assume of the constants: the tables are disjoint, and every
\* message is in a channel of a space.
StructureAssumption ==
    /\ ChannelOf \in [Messages -> Channels]
    /\ SpaceOf \in [Channels -> Spaces]
    /\ Scope \in [Rows -> SUBSET Keys]
    /\ Messages \cap (DirectMessages \cup Slots) = {}
    /\ DirectMessages \cap Slots = {}
    /\ Accounts \cap Spaces = {}

VARIABLES
    status,     \* [Rows -> "absent" | "live" | "deleted"]: the row itself
    attached,   \* [Rows -> SUBSET Keys]: the keys the row's content points at
    hiddenBy,   \* [DirectMessages -> SUBSET Sides]: deleted_by_sender / _recipient
    refs,       \* [Rows -> SUBSET Keys]: storage_reference, grouped by owner_key
    claims,     \* SUBSET Keys: storage_deletion_claim
    batch,      \* SUBSET Keys: the claims labelled with the current batch
    ready,      \* storage_reference_state.ready (FALSE also when the row is missing)
    fence       \* storage_restore_fence: none, init, recent or quiet

rowVars   == <<status, attached, hiddenBy>>
claimVars == <<claims, batch>>
trustVars == <<ready, fence>>
refVars   == <<refs, claims, batch, ready, fence>>
moduleVars == <<status, attached, hiddenBy, refs, claims, batch, ready, fence>>

\* What a row of each table can point at: any set of attachments for a
\* message, at most one key for an avatar or an icon.
Contents(r) == IF r \in Slots THEN {{}} \cup {{k} : k \in Keys} ELSE SUBSET Keys

Referenced == UNION {refs[r] : r \in Rows}
Attached   == UNION {attached[r] : r \in Rows}

----------------------------------------------------------------------------
(* A module published on top of existing rows starts with an empty reference *)
(* table and no fence (additive upgrade); a fresh database runs init.        *)

InitRows ==
    /\ status \in [Rows -> {"absent", "live"}]
    /\ attached \in [Rows -> SUBSET Keys]
    /\ \A r \in Rows : /\ attached[r] \in Contents(r)
                       /\ attached[r] \subseteq Scope[r]
                       /\ status[r] = "absent" => attached[r] = {}
    /\ hiddenBy = [d \in DirectMessages |-> {}]

Init ==
    /\ InitRows
    /\ refs = [r \in Rows |-> {}]
    /\ claims = {}
    /\ batch = {}
    /\ ready = FALSE
    /\ \/ fence = "none"
       \/ fence = "init" /\ \A r \in Rows : status[r] = "absent"

----------------------------------------------------------------------------
(* Helpers shared by the reducers (storage_refs.rs) *)

\* Plausible bug: the tombstone table is not consulted.
MaySyncIgnoringClaims(r, ks) == ks \subseteq Scope[r]

\* sync_*_reference: every key must be in scope and unclaimed, else the whole
\* reducer fails; then the row's references are replaced.
MaySync(r, ks) == ks \subseteq Scope[r] /\ ks \cap claims = {}

SyncReferences(r, ks) ==
    /\ MaySync(r, ks)
    /\ refs' = [refs EXCEPT ![r] = ks]

\* restore_*_reference: never fails, silently drops what is already claimed.
RestoreReferences(r, ks) == refs' = [refs EXCEPT ![r] = ks \ claims]

\* set_fence: the reference table stops being trusted.
SetFence(f) == ready' = FALSE /\ fence' = f

\* Plausible bug: the references of the rows stay.
RemoveRowsKeepingReferences(rs) ==
    /\ status'   = [r \in Rows |-> IF r \in rs THEN "absent" ELSE status[r]]
    /\ attached' = [r \in Rows |-> IF r \in rs THEN {} ELSE attached[r]]
    /\ UNCHANGED <<refs, hiddenBy, claims, batch, ready, fence>>

\* remove_references of a set of rows that disappear together.
RemoveRows(rs) ==
    /\ status'   = [r \in Rows |-> IF r \in rs THEN "absent" ELSE status[r]]
    /\ attached' = [r \in Rows |-> IF r \in rs THEN {} ELSE attached[r]]
    /\ refs'     = [r \in Rows |-> IF r \in rs THEN {} ELSE refs[r]]
    /\ UNCHANGED <<hiddenBy, claims, batch, ready, fence>>

WriteRow(r, ks) ==
    /\ status'   = [status EXCEPT ![r] = "live"]
    /\ attached' = [attached EXCEPT ![r] = ks]

----------------------------------------------------------------------------
(* Channel messages *)

SendMessage(m, ks) ==
    /\ status[m] = "absent"
    /\ status[SpaceOf[ChannelOf[m]]] = "live"
    /\ SyncReferences(m, ks)
    /\ WriteRow(m, ks)
    /\ UNCHANGED <<hiddenBy, claimVars, trustVars>>

EditMessage(m, ks) ==
    /\ status[m] = "live"
    /\ SyncReferences(m, ks)
    /\ WriteRow(m, ks)
    /\ UNCHANGED <<hiddenBy, claimVars, trustVars>>

\* The row stays as a tombstone; its content and its references go.
DeleteMessage(m) ==
    /\ status[m] # "absent"
    /\ status'   = [status EXCEPT ![m] = "deleted"]
    /\ attached' = [attached EXCEPT ![m] = {}]
    /\ refs'     = [refs EXCEPT ![m] = {}]
    /\ UNCHANGED <<hiddenBy, claimVars, trustVars>>

DeleteChannel(c) ==
    /\ status[SpaceOf[c]] = "live"
    /\ RemoveRows({m \in Messages : ChannelOf[m] = c})

----------------------------------------------------------------------------
(* Direct messages: the row and its references survive until both sides have *)
(* deleted it.                                                               *)

SendDirectMessage(d, ks) ==
    /\ status[d] = "absent"
    /\ SyncReferences(d, ks)
    /\ WriteRow(d, ks)
    /\ hiddenBy' = [hiddenBy EXCEPT ![d] = {}]
    /\ UNCHANGED <<claimVars, trustVars>>

EditDirectMessage(d, ks) ==
    /\ status[d] = "live"
    /\ SyncReferences(d, ks)
    /\ WriteRow(d, ks)
    /\ UNCHANGED <<hiddenBy, claimVars, trustVars>>

HideDirectMessage(d, side) ==
    /\ status[d] = "live"
    /\ hiddenBy[d] \cup {side} # Sides
    /\ hiddenBy' = [hiddenBy EXCEPT ![d] = @ \cup {side}]
    /\ UNCHANGED <<status, attached, refVars>>

PurgeDirectMessage(d, side) ==
    /\ status[d] = "live"
    /\ hiddenBy[d] \cup {side} = Sides
    /\ RemoveRows({d})

DeleteDirectMessage(d, side) == HideDirectMessage(d, side) \/ PurgeDirectMessage(d, side)

----------------------------------------------------------------------------
(* Avatars and icons: only a changed value is validated, so a value that has *)
(* lost its object can be saved again with the rest of the profile.          *)

CreateSlotRow(r) ==
    /\ status[r] = "absent"
    /\ WriteRow(r, {})
    /\ UNCHANGED <<hiddenBy, refVars>>

RegisterUser(a) == CreateSlotRow(a)
CreateServer(s) == CreateSlotRow(s)

SaveSlot(r, ks) ==
    /\ status[r] = "live"
    /\ \/ ks = attached[r] /\ UNCHANGED refs
       \/ ks # attached[r] /\ SyncReferences(r, ks)
    /\ attached' = [attached EXCEPT ![r] = ks]
    /\ UNCHANGED <<status, hiddenBy, claimVars, trustVars>>

UpdateProfile(a, ks) == SaveSlot(a, ks)
SetServerIcon(s, ks) == SaveSlot(s, ks)

DeleteServer(s) ==
    /\ status[s] = "live"
    /\ RemoveRows({s} \cup {m \in Messages : SpaceOf[ChannelOf[m]] = s})

----------------------------------------------------------------------------
(* The archive worker reloads rows verbatim; every batch fences the collector *)

\* Plausible bug: a restored direct message is shown to the side that deleted it.
ArchiveRestoreShowsHidden(r, st, ks, hidden) ==
    /\ ks \in Contents(r)
    /\ st = "deleted" => r \in Messages /\ ks = {}
    /\ WriteRow(r, ks)
    /\ UNCHANGED hiddenBy
    /\ RestoreReferences(r, ks)
    /\ SetFence("recent")
    /\ UNCHANGED claimVars

ArchiveRestore(r, st, ks, hidden) ==
    /\ ks \in Contents(r)
    /\ st = "deleted" => r \in Messages /\ ks = {}
    /\ status'   = [status EXCEPT ![r] = st]
    /\ attached' = [attached EXCEPT ![r] = ks]
    /\ hiddenBy' = IF r \in DirectMessages THEN [hiddenBy EXCEPT ![r] = hidden] ELSE hiddenBy
    /\ RestoreReferences(r, ks)
    /\ SetFence("recent")
    /\ UNCHANGED claimVars

\* RESTORE_QUIET_MICROS pass without another restore batch.
QuietPeriodElapses ==
    /\ fence = "recent"
    /\ fence' = "quiet"
    /\ UNCHANGED <<rowVars, refs, claimVars, ready>>

\* --delete-data empties every table and runs init, which fences indefinitely.
WipeDatabase ==
    /\ status'   = [r \in Rows |-> "absent"]
    /\ attached' = [r \in Rows |-> {}]
    /\ hiddenBy' = [d \in DirectMessages |-> {}]
    /\ refs'     = [r \in Rows |-> {}]
    /\ claims' = {}
    /\ batch' = {}
    /\ SetFence("init")

----------------------------------------------------------------------------
(* What core-api's collector calls *)

\* Ok when already settled; refused while stored objects predate init.
ReleaseStorageInitFence(predates) ==
    /\ \/ fence = "init" /\ ~predates /\ fence' = "none"
       \/ fence # "init" /\ UNCHANGED fence
    /\ UNCHANGED <<rowVars, refs, claimVars, ready>>

\* A cheap no-op while ready; otherwise recomputed from the live rows, unless
\* the init fence or a recent restore forbids it.
RebuildStorageReferences ==
    /\ \/ ready /\ UNCHANGED refs
       \/ /\ ~ready
          /\ fence \in {"none", "quiet"}
          /\ refs' = [r \in Rows |-> IF status[r] = "live" THEN attached[r] \ claims ELSE {}]
    /\ ready' = TRUE
    /\ UNCHANGED <<rowVars, claimVars, fence>>

\* New claims for the unreferenced candidates; an older claim joins the batch.
ClaimUnreferencedStorage(ks) ==
    /\ ready
    /\ claims' = claims \cup (ks \ Referenced)
    /\ batch' = ks \ Referenced
    /\ UNCHANGED <<rowVars, refs, trustVars>>

\* storage_deletion_claims_for_cleanup shows the batch only while references
\* are ready; the sentinel row tells an empty batch from a refused answer.
ClaimsVisible == ready

----------------------------------------------------------------------------

MessageReducers ==
    \E m \in Messages :
        \/ \E ks \in SUBSET Scope[m] : SendMessage(m, ks) \/ EditMessage(m, ks)
        \/ DeleteMessage(m)

DirectMessageReducers ==
    \E d \in DirectMessages :
        \/ \E ks \in SUBSET Scope[d] : SendDirectMessage(d, ks) \/ EditDirectMessage(d, ks)
        \/ \E side \in Sides : DeleteDirectMessage(d, side)

SlotReducers ==
    \/ \E a \in Accounts : RegisterUser(a) \/ \E ks \in Contents(a) : UpdateProfile(a, ks)
    \/ \E s \in Spaces   : CreateServer(s) \/ \E ks \in Contents(s) : SetServerIcon(s, ks)
    \/ \E c \in Channels : DeleteChannel(c)
    \/ \E s \in Spaces   : DeleteServer(s)

ArchiveReducers ==
    \E r \in Rows, st \in {"live", "deleted"}, hidden \in {{}, {"sender"}, {"recipient"}} :
        \E ks \in Contents(r) : ArchiveRestore(r, st, ks, hidden)

CleanupReducers ==
    \/ \E predates \in BOOLEAN : ReleaseStorageInitFence(predates)
    \/ RebuildStorageReferences
    \/ \E ks \in SUBSET Keys : ClaimUnreferencedStorage(ks)

Next ==
    \/ MessageReducers
    \/ DirectMessageReducers
    \/ SlotReducers
    \/ ArchiveReducers
    \/ CleanupReducers
    \/ QuietPeriodElapses
    \/ WipeDatabase

Spec == Init /\ [][Next]_moduleVars

----------------------------------------------------------------------------
(* Properties *)

\* Every table has its shape, and a row that is not live points at nothing.
TypeOK ==
    /\ status \in [Rows -> {"absent", "live", "deleted"}]
    /\ attached \in [Rows -> SUBSET Keys]
    /\ \A r \in Rows : status[r] # "live" => attached[r] = {}
    /\ hiddenBy \in [DirectMessages -> SUBSET Sides]
    /\ refs \in [Rows -> SUBSET Keys]
    /\ claims \subseteq Keys
    /\ batch \subseteq Keys
    /\ ready \in BOOLEAN
    /\ fence \in {"none", "init", "recent", "quiet"}

\* A tombstoned key is never referenced again: sync_*_reference refuses it and
\* restore_*_reference drops it, so a claim once taken stays safe to act on.
ClaimedNeverReferenced == claims \cap Referenced = {}

\* While storage_reference_state says ready, the derived table is exactly the
\* live rows' attachments minus what was already given up: no reducer that
\* writes a row may forget its references, and none may leave one behind.
TrustedReferencesExact == ready => \A r \in Rows : refs[r] = attached[r] \ claims

\* claim_unreferenced_storage never tombstones a key that a live row shows at
\* that moment, whatever restores, rebuilds and edits came before.
OnlyUnattachedClaimed == [][(claims' \ claims) \cap Attached = {}]_moduleVars

\* After init on a wiped database the references are not trusted again before
\* either a restore replaced the fence and went quiet, or the fence was lifted.
FencedUntilSettled == fence \in {"init", "recent"} => ~ready
===========================================================================
