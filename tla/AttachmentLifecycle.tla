------------------------ MODULE AttachmentLifecycle ------------------------
(***************************************************************************)
(* The life of one attachment across three stores that share no            *)
(* transaction: core-api's upload registry in PostgreSQL, the objects in   *)
(* MinIO, and the chat database (StorageReferences), together with the     *)
(* clients that upload and attach, and core-api's background collector,    *)
(* which may be interrupted between any two of its calls.                  *)
(*                                                                         *)
(* Normal operation and upgrades; wipes and archive restores are the       *)
(* subject of ArchiveRestore.  A registry transaction holds its row lock   *)
(* from its first read to its commit, so it is one action with a second    *)
(* outcome for a failure after MinIO has already acted.                    *)
(***************************************************************************)
EXTENDS StorageReferences

CONSTANT BatchSize  \* PendingUploadSweeper.BatchSize

ASSUME BatchSizeAssumption == BatchSize \in Nat \ {0}

VARIABLES
    upload,    \* the rows of PendingUploads and ConfirmedUploads, by state
    objects,   \* [Keys -> "absent" | "whole" | "wrong"]: the bucket
    transfer,  \* the client's PUT or multipart session: "open" has a valid URL,
               \* "flying" bytes on their way, "parts" and "assembled" some and
               \* all of a multipart upload's parts
    handed,    \* SUBSET Keys: the keys /uploads/confirm has told a client
    old,       \* SUBSET Keys: objects that predate a freshly initialised database
    pc,        \* where the collector's sweep is
    imported,  \* _inventoryImported
    settled,   \* _initFenceSettled
    page,      \* SUBSET Keys: candidates of this sweep
    todo       \* SUBSET Keys: what the current loop or import still has in hand

coreVars      == <<upload, objects, transfer, handed, old>>
collectorVars == <<pc, imported, settled, page, todo>>
lifecycleVars == <<moduleVars, coreVars, collectorVars>>

\* A pending row whose ExpiresAt has passed is refused by confirm; the sweeper
\* waits GraceSeconds longer (overdue).  A confirmed row older than
\* ConfirmedGraceSeconds is aged; an adopted row has no UploadId, and its
\* ConfirmedAt is the object's LastModified, which may be any age.
PendingStates   == {"pending", "expired", "overdue"}
ConfirmedStates == {"confirmed", "aged", "adopted"}

Stored     == {k \in Keys : objects[k] # "absent"}
Candidates == {k \in Keys : upload[k] \in {"aged", "adopted"}}
Overdue    == {k \in Keys : upload[k] = "overdue"}
ConfirmedRows == {k \in Keys : upload[k] \in ConfirmedStates}
PendingRows   == {k \in Keys : upload[k] \in PendingStates}

Batches(S) == {p \in SUBSET S : p # {} /\ Cardinality(p) <= BatchSize}

----------------------------------------------------------------------------
(* Init: an upgrade over existing rows, or a fresh database, in either case  *)
(* with whatever core-api and MinIO already hold.                            *)

ExistingUpload == {<<"unused", "absent", "none">>, <<"gone", "whole", "none">>,
                   <<"aged", "whole", "none">>, <<"pending", "whole", "none">>}

LifecycleInit ==
    /\ \E e \in [Keys -> ExistingUpload] :
        /\ upload   = [k \in Keys |-> e[k][1]]
        /\ objects  = [k \in Keys |-> e[k][2]]
        /\ transfer = [k \in Keys |-> e[k][3]]
    /\ Init
    /\ \A k \in Attached : objects[k] = "whole" /\ upload[k] # "pending"
    /\ handed = Attached
    /\ old = IF fence = "init" THEN {k \in Stored : upload[k] # "pending"} ELSE {}
    /\ pc = "down"
    /\ imported = FALSE
    /\ settled = FALSE
    /\ page = {}
    /\ todo = {}

----------------------------------------------------------------------------
(* Clients and the bucket *)

RequestUpload(k, t) ==
    /\ pc # "down"
    /\ upload[k] = "unused"
    /\ upload'   = [upload EXCEPT ![k] = "pending"]
    /\ transfer' = [transfer EXCEPT ![k] = t]  \* "none": the answer never got out
    /\ UNCHANGED <<objects, handed, old>>

StartPut(k) ==
    /\ transfer[k] = "open"
    /\ transfer' = [transfer EXCEPT ![k] = "flying"]
    /\ UNCHANGED <<upload, objects, handed, old>>

\* The signature is checked when the PUT starts, so it can land long after.
FinishPut(k, size) ==
    /\ transfer[k] = "flying"
    /\ transfer' = [transfer EXCEPT ![k] = "none"]
    /\ objects'  = [objects EXCEPT ![k] = size]
    /\ UNCHANGED <<upload, handed, old>>

UploadParts(k) ==
    /\ transfer[k] = "parts"
    /\ upload[k] = "pending"
    /\ transfer' = [transfer EXCEPT ![k] = "assembled"]
    /\ UNCHANGED <<upload, objects, handed, old>>

UrlExpires(k) ==
    /\ transfer[k] = "open"
    /\ transfer' = [transfer EXCEPT ![k] = "none"]
    /\ UNCHANGED <<upload, objects, handed, old>>

\* PresignUploadSeconds < PendingUploadTtlSeconds: the URL expires first.
TimePasses(k) ==
    /\ \/ upload[k] = "pending" /\ transfer[k] # "open"
                                /\ upload' = [upload EXCEPT ![k] = "expired"]
       \/ upload[k] = "expired" /\ upload' = [upload EXCEPT ![k] = "overdue"]
       \/ upload[k] = "confirmed" /\ upload' = [upload EXCEPT ![k] = "aged"]
    /\ UNCHANGED <<objects, transfer, handed, old>>

----------------------------------------------------------------------------
(* Registry transactions (UploadEndpoints) *)

\* AbortMultipart ends a multipart session; a plain PUT cannot be recalled.
AbortTransfer(k) ==
    transfer' = [transfer EXCEPT ![k] = IF @ \in {"parts", "assembled"} THEN "none" ELSE @]

\* Delete the object, then the row; the row survives a failure in between.
Discard(k) ==
    /\ AbortTransfer(k)
    /\ objects' = [objects EXCEPT ![k] = "absent"]
    /\ \/ upload' = [upload EXCEPT ![k] = "gone"]
       \/ UNCHANGED upload
    /\ UNCHANGED <<handed, old>>

\* Completes an assembled multipart session when no object is there yet.
ConfirmCommits(k, delivered) ==
    /\ upload[k] = "pending"
    /\ \/ objects[k] = "whole" /\ UNCHANGED <<objects, transfer>>
       \/ /\ objects[k] = "absent"
          /\ transfer[k] = "assembled"
          /\ objects'  = [objects EXCEPT ![k] = "whole"]
          /\ transfer' = [transfer EXCEPT ![k] = "none"]
    /\ upload' = [upload EXCEPT ![k] = "confirmed"]
    /\ handed' = IF delivered THEN handed \cup {k} ELSE handed
    /\ UNCHANGED old

\* MinIO completed the object, PostgreSQL did not commit.
ConfirmLost(k) ==
    /\ upload[k] = "pending"
    /\ objects[k] = "absent"
    /\ transfer[k] = "assembled"
    /\ objects'  = [objects EXCEPT ![k] = "whole"]
    /\ transfer' = [transfer EXCEPT ![k] = "none"]
    /\ UNCHANGED <<upload, handed, old>>

ConfirmRefused(k) ==
    /\ \/ upload[k] \in {"expired", "overdue"}
       \/ upload[k] = "pending" /\ objects[k] = "wrong"
    /\ Discard(k)

\* An interrupted confirm is retried by UploadId, which adopted rows lack.
ConfirmAgain(k) ==
    /\ upload[k] \in {"confirmed", "aged"}
    /\ handed' = handed \cup {k}
    /\ UNCHANGED <<upload, objects, transfer, old>>

ConfirmUpload(k) ==
    /\ pc # "down"
    /\ \/ \E delivered \in BOOLEAN : ConfirmCommits(k, delivered)
       \/ ConfirmLost(k)
       \/ ConfirmRefused(k)
       \/ ConfirmAgain(k)

AbortUpload(k) ==
    /\ pc # "down"
    /\ upload[k] \in PendingStates
    /\ Discard(k)

----------------------------------------------------------------------------
(* The collector: SweepOnceAsync *)

StartSweep ==
    /\ pc = "idle"
    /\ \/ Overdue = {} /\ todo' = {}
       \/ todo' \in Batches(Overdue)
    /\ pc' = "sweep"
    /\ UNCHANGED <<imported, settled, page, coreVars, moduleVars>>

\* The row is locked and read again: it may have gone since the query.
SweepPending(k) ==
    /\ pc = "sweep"
    /\ k \in todo
    /\ \/ upload[k] = "overdue" /\ Discard(k)
       \/ upload[k] # "overdue" /\ UNCHANGED coreVars
    /\ todo' = todo \ {k}
    /\ UNCHANGED <<pc, imported, settled, page, moduleVars>>

SweepEnds ==
    /\ pc = "sweep"
    /\ todo = {}
    /\ pc' = IF imported THEN "fence" ELSE "list"
    /\ UNCHANGED <<imported, settled, page, todo, coreVars, moduleVars>>

----------------------------------------------------------------------------
(* ImportExistingObjectsAsync: a listing and two queries, no lock held *)

ListObjects ==
    /\ pc = "list"
    /\ todo' = Stored
    /\ pc' = "known"
    /\ UNCHANGED <<imported, settled, page, coreVars, moduleVars>>

ReadKnown ==
    /\ pc = "known"
    /\ todo' = todo \ ConfirmedRows
    /\ pc' = "pending"
    /\ UNCHANGED <<imported, settled, page, coreVars, moduleVars>>

ReadPending ==
    /\ pc = "pending"
    /\ todo' = todo \ PendingRows
    /\ pc' = "adopt"
    /\ UNCHANGED <<imported, settled, page, coreVars, moduleVars>>

\* A row confirmed since the first query violates the primary key: SaveChanges
\* throws and the sweep starts over at the next tick.
Adopt ==
    /\ pc = "adopt"
    /\ \/ /\ todo \cap ConfirmedRows = {}
          /\ upload' = [k \in Keys |-> IF k \in todo THEN "adopted" ELSE upload[k]]
          /\ imported' = TRUE
          /\ pc' = "fence"
       \/ /\ todo \cap ConfirmedRows # {}
          /\ pc' = "idle"
          /\ UNCHANGED <<upload, imported>>
    /\ todo' = {}
    /\ UNCHANGED <<objects, transfer, handed, old, settled, page, moduleVars>>

----------------------------------------------------------------------------
(* SweepUnreferencedConfirmedAsync *)

\* Plausible bug: the oldest object is looked up among the pending uploads.
ReleaseFenceBlindly ==
    /\ pc = "fence"
    /\ \/ ReleaseStorageInitFence(FALSE)
       \/ UNCHANGED moduleVars
    /\ settled' = TRUE
    /\ pc' = "ensure"
    /\ UNCHANGED <<imported, page, todo, coreVars>>

\* The oldest ConfirmedAt is compared with the time of init.
ReleaseFence ==
    /\ pc = "fence"
    /\ \/ settled /\ UNCHANGED <<settled, moduleVars>>
       \/ /\ ~settled
          /\ ReleaseStorageInitFence(old \cap ConfirmedRows # {})
          /\ settled' = TRUE
       \/ ~settled /\ UNCHANGED <<settled, moduleVars>>  \* refused or unreachable
    /\ pc' = "ensure"
    /\ UNCHANGED <<imported, page, todo, coreVars>>

EnsureReady ==
    /\ pc = "ensure"
    /\ RebuildStorageReferences
    /\ pc' = "page"
    /\ UNCHANGED <<imported, settled, page, todo, coreVars>>

\* The keyset cursor decides which page comes next; here it may be any.
ReadPage ==
    /\ pc = "page"
    /\ \/ Candidates = {} /\ pc' = "idle" /\ UNCHANGED page
       \/ page' \in Batches(Candidates) /\ pc' = "claim"
    /\ UNCHANGED <<imported, settled, todo, coreVars, moduleVars>>

Claim ==
    /\ pc = "claim"
    /\ ClaimUnreferencedStorage(page)
    /\ pc' = "view"
    /\ UNCHANGED <<imported, settled, page, todo, coreVars>>

\* Plausible bug: an unanswered view is read as "everything is claimed".
TrustPage ==
    /\ pc = "view"
    /\ todo' = page
    /\ pc' = "delete"
    /\ UNCHANGED <<imported, settled, page, coreVars, moduleVars>>

\* A second call reads the decision back; without its sentinel it is refused.
ReadClaims ==
    /\ pc = "view"
    /\ ClaimsVisible
    /\ todo' = batch \cap page
    /\ pc' = "delete"
    /\ UNCHANGED <<imported, settled, page, coreVars, moduleVars>>

DeleteUnreferenced(k) ==
    /\ pc = "delete"
    /\ k \in todo
    /\ \/ k \in Candidates /\ Discard(k)
       \/ k \notin Candidates /\ UNCHANGED coreVars
    /\ todo' = todo \ {k}
    /\ UNCHANGED <<pc, imported, settled, page, moduleVars>>

DeletionsEnd ==
    /\ pc = "delete"
    /\ todo = {}
    /\ pc' = "idle"
    /\ page' = {}
    /\ UNCHANGED <<imported, settled, todo, coreVars, moduleVars>>

\* MinIO, PostgreSQL or the chat database does not answer: wait for the next tick.
CallFails ==
    /\ pc \notin {"down", "idle"}
    /\ pc' = "idle"
    /\ page' = {}
    /\ todo' = {}
    /\ UNCHANGED <<imported, settled, coreVars, moduleVars>>

Crash ==
    /\ pc # "down"
    /\ pc' = "down"
    /\ imported' = FALSE
    /\ settled' = FALSE
    /\ page' = {}
    /\ todo' = {}
    /\ UNCHANGED <<coreVars, moduleVars>>

Restart ==
    /\ pc = "down"
    /\ pc' = "idle"
    /\ UNCHANGED <<imported, settled, page, todo, coreVars, moduleVars>>

----------------------------------------------------------------------------

\* Honest clients attach what a confirm told them, or what a row already shows.
ChatStep ==
    /\ \/ \E m \in Messages :
            \/ \E ks \in SUBSET (Scope[m] \cap handed) : SendMessage(m, ks) \/ EditMessage(m, ks)
            \/ DeleteMessage(m)
       \/ \E d \in DirectMessages :
            \/ \E ks \in SUBSET (Scope[d] \cap handed) :
                    SendDirectMessage(d, ks) \/ EditDirectMessage(d, ks)
            \/ \E side \in Sides : DeleteDirectMessage(d, side)
       \/ \E r \in Slots :
            \/ CreateSlotRow(r)
            \/ \E ks \in Contents(r) : ks \subseteq handed /\ SaveSlot(r, ks)
       \/ \E s \in Spaces : DeleteServer(s)
       \/ \E c \in Channels : DeleteChannel(c)
    /\ UNCHANGED <<coreVars, collectorVars>>

UploadStep ==
    /\ \E k \in Keys :
        \/ \E t \in {"open", "parts", "none"} : RequestUpload(k, t)
        \/ StartPut(k)
        \/ \E size \in {"whole", "wrong"} : FinishPut(k, size)
        \/ UploadParts(k)
        \/ UrlExpires(k)
        \/ TimePasses(k)
        \/ ConfirmUpload(k)
        \/ AbortUpload(k)
    /\ UNCHANGED <<moduleVars, collectorVars>>

CollectorStep ==
    \/ StartSweep \/ SweepEnds
    \/ ListObjects \/ ReadKnown \/ ReadPending \/ Adopt
    \/ ReleaseFence \/ EnsureReady \/ ReadPage \/ Claim \/ ReadClaims
    \/ DeletionsEnd \/ CallFails \/ Crash \/ Restart
    \/ \E k \in todo : SweepPending(k) \/ DeleteUnreferenced(k)

LifecycleNext == ChatStep \/ UploadStep \/ CollectorStep

LifecycleSpec == LifecycleInit /\ [][LifecycleNext]_lifecycleVars

----------------------------------------------------------------------------
(* Properties *)

LifecycleTypeOK ==
    /\ upload \in [Keys -> {"unused", "gone"} \cup PendingStates \cup ConfirmedStates]
    /\ objects \in [Keys -> {"absent", "whole", "wrong"}]
    /\ transfer \in [Keys -> {"none", "open", "flying", "parts", "assembled"}]
    /\ {handed, old, page, todo} \subseteq SUBSET Keys
    /\ pc \in {"down", "idle", "sweep", "list", "known", "pending", "adopt", "fence", "ensure",
               "page", "claim", "view", "delete"}
    /\ {imported, settled} \subseteq BOOLEAN

\* No interleaving of uploads, aborts, sweeps, imports, claims and edits takes
\* away the object behind an attachment a live row shows.
AttachedIsStored == Attached \subseteq Stored

\* After init over existing objects nothing that predates it is given up before
\* a restore: the bucket is inventoried before the fence can be lifted.
OldObjectsKept == old \cap claims = {}

\* What the chat sees is a plain store: available objects minus those given up.
Store == INSTANCE AttachmentStore
            WITH Owners <- Rows, Objects <- Keys,
                 available <- Stored \ claims, shown <- attached

ImplementsStore == Store!Spec
===========================================================================
