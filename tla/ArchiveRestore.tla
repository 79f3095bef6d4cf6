--------------------------- MODULE ArchiveRestore ---------------------------
(***************************************************************************)
(* Surviving --delete-data: the archive worker mirrors the chat database   *)
(* into PostgreSQL, the operator drains it and wipes the database, and a   *)
(* one-shot rebuild reloads the rows table by table.  Meanwhile core-api's *)
(* collector and the running worker's reconciliation both wait for the     *)
(* same signal, storage_reference_state.ready, before they delete          *)
(* anything.                                                               *)
(*                                                                         *)
(* Tables without attachments (channels, members, bans, ...) are PlainRows:*)
(* they are restored between the spaces and the messages, and their        *)
(* restore reducers do not renew the fence.  The chat is closed to its     *)
(* users from the wipe until a rebuild succeeds.                           *)
(***************************************************************************)
EXTENDS StorageReferences

CONSTANTS PlainRows,
          RestoresInTime,   \* no RESTORE_QUIET_MICROS pass before a rebuild succeeds
          FilesPredateWipe  \* some stored object is older than the wiped database

ASSUME RestoreAssumption ==
    /\ PlainRows \cap Rows = {}
    /\ RestoresInTime \in BOOLEAN
    /\ FilesPredateWipe \in BOOLEAN

VARIABLES
    plain,    \* SUBSET PlainRows: the other tables' live rows
    archive,  \* [Rows -> RowRecords]: the archive_* tables of rows with attachments
    plainArchive,  \* SUBSET PlainRows: the other archive_* tables
    worker,   \* "off", "waiting" or "pruning" (canDelete has been seen true)
    phase,    \* "normal", or "wiped" until a rebuild succeeds
    owed,     \* what the archive held when the database was wiped
    dump,     \* the rows a running rebuild has read
    remaining,  \* the rows it has not restored yet
    rebuilding, \* whether a rebuild is running
    coreUp,   \* whether core-api is running
    inHand,   \* SUBSET Keys: claims the collector has read and not yet acted on
    bucket    \* SUBSET Keys: the stored objects

mirrorVars  == <<plain, archive, plainArchive, worker>>
rebuildVars == <<phase, owed, dump, remaining, rebuilding>>
fileVars    == <<coreUp, inHand, bucket>>
restoreVars == <<moduleVars, mirrorVars, rebuildVars, fileVars>>

NoRow      == [st |-> "absent", ks |-> {}, hidden |-> {}]

RowRecord(r) ==
    [st |-> status[r], ks |-> attached[r],
     hidden |-> IF r \in DirectMessages /\ status[r] # "absent" THEN hiddenBy[r] ELSE {}]

Database == [r \in Rows |-> RowRecord(r)]
Mirror   == [rows |-> archive, plain |-> plainArchive]
Empty    == [rows |-> [r \in Rows |-> NoRow], plain |-> {}]

Archived(a) == {r \in Rows : a.rows[r] # NoRow} \cup a.plain

\* Rebuild.RunAsync restores users, servers, the other tables, messages, DMs.
Stage(r) == CASE r \in Accounts       -> 1
              [] r \in Spaces         -> 2
              [] r \in PlainRows      -> 3
              [] r \in Messages       -> 4
              [] r \in DirectMessages -> 5

RestoreInit ==
    /\ Init
    /\ plain = {}
    /\ archive = Empty.rows
    /\ plainArchive = {}
    /\ worker = "off"
    /\ phase = "normal"
    /\ owed = Empty
    /\ dump = Empty
    /\ remaining = {}
    /\ rebuilding = FALSE
    /\ coreUp = TRUE
    /\ inHand = {}
    /\ bucket \in {Keys, {}}
    /\ Attached \subseteq bucket

----------------------------------------------------------------------------
(* Users, while the chat is open *)

Attachable == bucket

UserStep ==
    /\ phase = "normal"
    /\ \/ \E m \in Messages :
            \/ \E ks \in SUBSET (Scope[m] \cap Attachable) : SendMessage(m, ks) \/ EditMessage(m, ks)
            \/ DeleteMessage(m)
       \/ \E d \in DirectMessages :
            \/ \E ks \in SUBSET (Scope[d] \cap Attachable) :
                    SendDirectMessage(d, ks) \/ EditDirectMessage(d, ks)
            \/ \E side \in Sides : DeleteDirectMessage(d, side)
       \/ \E r \in Slots :
            \/ CreateSlotRow(r)
            \/ \E ks \in Contents(r) : ks \subseteq Attachable /\ SaveSlot(r, ks)
       \/ \E s \in Spaces : DeleteServer(s)
    /\ UNCHANGED <<mirrorVars, rebuildVars, fileVars>>

ChangePlain(p) ==
    /\ phase = "normal"
    /\ plain' = (plain \cup {p}) \ (plain \cap {p})
    /\ UNCHANGED <<moduleVars, archive, plainArchive, worker, rebuildVars, fileVars>>

----------------------------------------------------------------------------
(* The running archive worker *)

\* archive_replication_status.can_delete
CanDelete == ready

WorkerConnects ==
    /\ worker = "off"
    /\ worker' = "waiting"
    /\ UNCHANGED <<moduleVars, plain, archive, plainArchive, rebuildVars, fileVars>>

WorkerDisconnects ==
    /\ worker # "off"
    /\ worker' = "off"
    /\ UNCHANGED <<moduleVars, plain, archive, plainArchive, rebuildVars, fileVars>>

\* Upserts are copied whether or not deletions are allowed.
Replicate(r) ==
    /\ worker # "off"
    /\ \/ /\ r \in Rows /\ status[r] # "absent"
          /\ archive' = [archive EXCEPT ![r] = RowRecord(r)]
          /\ UNCHANGED plainArchive
       \/ /\ r \in plain
          /\ plainArchive' = plainArchive \cup {r}
          /\ UNCHANGED archive
    /\ UNCHANGED <<moduleVars, plain, worker, rebuildVars, fileVars>>

\* Plausible bug: the worker reconciles on every (re)subscribe.
ReconcileOnSubscribe ==
    /\ worker = "waiting"
    /\ worker' = "pruning"
    /\ archive' = [r \in Rows |-> IF status[r] = "absent" THEN NoRow ELSE archive[r]]
    /\ plainArchive' = plainArchive \cap plain
    /\ UNCHANGED <<moduleVars, plain, rebuildVars, fileVars>>

\* When can_delete turns true, every archived row without a live row goes; when
\* it turns false the worker waits for the next time.  The guard against views
\* that are all empty never holds: init inserts the module owner.
ReconcileWhenReady ==
    LET prunes == CanDelete /\ worker = "waiting" IN
    /\ worker # "off"
    /\ worker' = IF CanDelete THEN "pruning" ELSE "waiting"
    /\ archive' = [r \in Rows |-> IF prunes /\ status[r] = "absent" THEN NoRow ELSE archive[r]]
    /\ plainArchive' = IF prunes THEN plainArchive \cap plain ELSE plainArchive
    /\ UNCHANGED <<moduleVars, plain, rebuildVars, fileVars>>

\* OnDelete, checked against the SDK cache.
ReplicateDelete(r) ==
    /\ worker = "pruning"
    /\ CanDelete
    /\ \/ /\ r \in Rows /\ status[r] = "absent" /\ archive[r] # NoRow
          /\ archive' = [archive EXCEPT ![r] = NoRow]
          /\ UNCHANGED plainArchive
       \/ /\ r \in plainArchive \ plain
          /\ plainArchive' = plainArchive \ {r}
          /\ UNCHANGED archive
    /\ UNCHANGED <<moduleVars, plain, worker, rebuildVars, fileVars>>

----------------------------------------------------------------------------
(* The operator: drain, stop core-api, wipe, start it, rebuild until it works *)

StopCore ==
    /\ coreUp
    /\ coreUp' = FALSE
    /\ inHand' = {}
    /\ UNCHANGED <<moduleVars, mirrorVars, rebuildVars, bucket>>

StartCore ==
    /\ ~coreUp
    /\ coreUp' = TRUE
    /\ UNCHANGED <<moduleVars, mirrorVars, rebuildVars, inHand, bucket>>

\* The worker's connection does not survive the wipe.
Wipe ==
    /\ phase = "normal"
    /\ ~coreUp
    /\ Mirror = [rows |-> Database, plain |-> plain]  \* drained
    /\ Archived(Mirror) # {}
    /\ FilesPredateWipe => bucket # {}
    /\ WipeDatabase
    /\ plain' = {}
    /\ worker' = "off"
    /\ phase' = "wiped"
    /\ owed' = Mirror
    /\ UNCHANGED <<archive, plainArchive, dump, remaining, rebuilding, fileVars>>

\* The worker's identity is registered by core-api, so core-api must be up.
StartRebuild ==
    /\ phase = "wiped"
    /\ ~rebuilding
    /\ coreUp
    /\ rebuilding' = TRUE
    /\ dump' = Mirror
    /\ remaining' = Archived(Mirror)
    /\ UNCHANGED <<moduleVars, mirrorVars, phase, owed, fileVars>>

\* One row stands for one confirmed batch.
RestoreBatch(r) ==
    /\ rebuilding
    /\ r \in remaining
    /\ \A s \in remaining : Stage(r) <= Stage(s)
    /\ \/ /\ r \in Rows
          /\ ArchiveRestore(r, dump.rows[r].st, dump.rows[r].ks, dump.rows[r].hidden)
          /\ UNCHANGED plain
       \/ /\ r \in PlainRows
          /\ plain' = plain \cup {r}
          /\ UNCHANGED moduleVars
    /\ remaining' = remaining \ {r}
    /\ UNCHANGED <<archive, plainArchive, worker, phase, owed, dump, rebuilding, fileVars>>

\* A failed, unconfirmed or disconnected batch exits with code 1.
RebuildFails ==
    /\ rebuilding
    /\ rebuilding' = FALSE
    /\ dump' = Empty
    /\ remaining' = {}
    /\ UNCHANGED <<moduleVars, mirrorVars, phase, owed, fileVars>>

RebuildSucceeds ==
    /\ rebuilding
    /\ remaining = {}
    /\ rebuilding' = FALSE
    /\ dump' = Empty
    /\ phase' = "normal"
    /\ owed' = Empty
    /\ UNCHANGED <<moduleVars, mirrorVars, remaining, fileVars>>

QuietPeriod ==
    /\ RestoresInTime => phase = "normal"
    /\ QuietPeriodElapses
    /\ UNCHANGED <<mirrorVars, rebuildVars, fileVars>>

----------------------------------------------------------------------------
(* core-api's collector *)

\* The oldest retained object; nothing is uploaded here after the wipe.
LiftFence ==
    /\ coreUp
    /\ ReleaseStorageInitFence(bucket # {})
    /\ UNCHANGED <<mirrorVars, rebuildVars, fileVars>>

ImportReferences ==
    /\ coreUp
    /\ RebuildStorageReferences
    /\ UNCHANGED <<mirrorVars, rebuildVars, fileVars>>

ClaimAndRead(ks) ==
    /\ coreUp
    /\ inHand = {}
    /\ ClaimUnreferencedStorage(ks)
    /\ inHand' = batch'
    /\ UNCHANGED <<mirrorVars, rebuildVars, coreUp, bucket>>

DeleteObject(k) ==
    /\ coreUp
    /\ k \in inHand
    /\ bucket' = bucket \ {k}
    /\ inHand' = inHand \ {k}
    /\ UNCHANGED <<moduleVars, mirrorVars, rebuildVars, coreUp>>

----------------------------------------------------------------------------

WorkerStep ==
    \/ WorkerConnects \/ WorkerDisconnects \/ ReconcileWhenReady
    \/ \E r \in Rows \cup PlainRows : Replicate(r) \/ ReplicateDelete(r)

OperatorStep ==
    \/ StopCore \/ StartCore \/ Wipe
    \/ StartRebuild \/ RebuildFails \/ RebuildSucceeds
    \/ \E r \in remaining : RestoreBatch(r)

CleanupStep ==
    \/ LiftFence \/ ImportReferences
    \/ \E ks \in SUBSET bucket : ks # {} /\ ClaimAndRead(ks)
    \/ \E k \in inHand : DeleteObject(k)

RestoreNext ==
    \/ UserStep
    \/ \E p \in PlainRows : ChangePlain(p)
    \/ WorkerStep
    \/ OperatorStep
    \/ QuietPeriod
    \/ CleanupStep

RestoreSpec == RestoreInit /\ [][RestoreNext]_restoreVars

----------------------------------------------------------------------------
(* Properties *)

\* "A rebuild that dies partway can be re-run safely": when a rebuild succeeds,
\* the database holds everything the archive held when it was wiped.
RebuildRestoresEverything ==
    [][phase = "wiped" /\ phase' = "normal"
        => Database = owed.rows /\ plain = owed.plain]_restoreVars

\* "During a restore, replication copies messages but does not delete archive
\* rows": what is still to be restored is still there to be read.
ArchiveIntactDuringRestore ==
    phase = "wiped" => Archived(owed) \subseteq Archived(Mirror)

=============================================================================
