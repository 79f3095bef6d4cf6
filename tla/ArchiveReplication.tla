------------------------- MODULE ArchiveReplication -------------------------
(***************************************************************************)
(* How a row of the chat database reaches the PostgreSQL archive.  The     *)
(* worker subscribes to the archive_* views once core-api has registered   *)
(* its identity; the SDK applies each transaction to its cache and then    *)
(* runs the row callbacks; the callbacks only put writes into a queue; one *)
(* consumer applies the queue, in order, and outlives the connection.      *)
(* ArchiveRestore abstracts all of this to "a row is copied".              *)
(*                                                                         *)
(* Keys stands for the primary keys of all archived tables.  The views     *)
(* have no primary key for the SDK: a changed row is a deletion of the old *)
(* row and an insertion of the new one, in either order.  The row of the   *)
(* module owner, which init inserts, is not among the keys; it is why the  *)
(* guard against views that are all empty never holds for a worker that    *)
(* may delete.                                                             *)
(***************************************************************************)
EXTENDS Naturals, FiniteSets, SequencesExt

CONSTANTS Keys, Values,
          NoRow,          \* no row
          MaxIdentities,  \* bound: credentials the worker is issued
          MaxInbox        \* bound: transactions on their way to the worker

ASSUME ReplicationAssumption ==
    /\ IsFiniteSet(Keys)
    /\ NoRow \notin Values
    /\ MaxIdentities \in Nat \ {0}
    /\ MaxInbox \in Nat \ {0}

VARIABLES
    live,      \* [Keys -> Values \cup {NoRow}]: the chat database
    ready,     \* storage_reference_state.ready
    service,   \* archive_service.service_identity; 0 when there is no row
    wiped,     \* whether the database was wiped and is not yet restored
    identity,  \* the identity of the worker's token; 0 before the first
    cached,    \* core-api's _registeredArchiveIdentity
    link,      \* the worker's connection: "down", "registering", "subscribed"
    inbox,     \* sequence of the view contents the worker has not applied yet
    cache,     \* what the SDK holds of the views
    applied,   \* `subscribed` of this connection: OnApplied has run
    canDelete, \* `canDelete` of this connection
    queue,     \* the writes that wait for the consumer
    archive,   \* [Keys -> Values \cup {NoRow}]: PostgreSQL
    owed       \* the archived keys no queued write removed when the database was wiped

database  == <<live, ready, service, wiped>>
worker    == <<link, cache, applied, canDelete>>
arVars    == <<database, identity, cached, worker, inbox, queue, archive, owed>>

KeysOf(rows) == {k \in Keys : rows[k] # NoRow}
NoRows    == [k \in Keys |-> NoRow]
Stranger  == MaxIdentities + 1  \* an identity an admin registers by hand

EmptyViews   == [rows |-> NoRows, status |-> "none"]

ReplicationInit ==
    /\ live = NoRows
    /\ ready = FALSE
    /\ service = 0
    /\ wiped = FALSE
    /\ identity = 0
    /\ cached = 0
    /\ link = "down"
    /\ inbox = <<>>
    /\ cache = EmptyViews
    /\ applied = FALSE
    /\ canDelete = FALSE
    /\ queue = <<>>
    /\ archive = NoRows
    /\ owed = {}

----------------------------------------------------------------------------
(* The chat database *)

\* What the archive_* views show to the worker: nothing unless it is registered.
Views(rows, isReady, registered) ==
    IF registered = identity
    THEN [rows |-> rows, status |-> IF isReady THEN "yes" ELSE "no"]
    ELSE EmptyViews

\* A commit sends the subscriber what changed in its views.
Publish ==
    LET seen == Views(live, ready, service)
        now  == Views(live', ready', service')
    IN IF link = "subscribed" /\ now # seen
       THEN Len(inbox) < MaxInbox /\ inbox' = Append(inbox, now)
       ELSE inbox' = inbox

Elsewhere == UNCHANGED <<identity, worker, queue, archive>>

WriteRow(k, v) ==
    /\ ~wiped
    /\ live[k] # v
    /\ live' = [live EXCEPT ![k] = v]
    /\ UNCHANGED <<ready, service, wiped, cached, owed>>
    /\ Publish
    /\ Elsewhere

\* RebuildStorageReferences: not before a restore is over.
MarkReady ==
    /\ ~wiped
    /\ ~ready
    /\ ready' = TRUE
    /\ UNCHANGED <<live, service, wiped, cached, owed>>
    /\ Publish
    /\ Elsewhere

\* Plausible bug: core-api remembers the identity before the reducer has answered.
RegisterOptimistically ==
    /\ identity \notin {0, cached}
    /\ cached' = identity
    /\ service' \in {service, identity}
    /\ UNCHANGED <<live, ready, wiped, owed>>
    /\ Publish
    /\ Elsewhere

\* core-api registers the identity of the worker's token file and remembers it;
\* a call that fails, or whose answer is lost, is repeated in the next round.
RegisterArchiveService ==
    /\ identity \notin {0, cached}
    /\ cached' \in {cached, identity}
    /\ service' = identity
    /\ UNCHANGED <<live, ready, wiped, owed>>
    /\ Publish
    /\ Elsewhere

CoreApiRestarts ==
    /\ cached' = 0
    /\ UNCHANGED <<database, owed, inbox>>
    /\ Elsewhere

\* set_archive_service_identity, called by an admin.
AdminRepoints ==
    /\ service \notin {0, Stranger}
    /\ service' = Stranger
    /\ UNCHANGED <<live, ready, wiped, cached, owed>>
    /\ Publish
    /\ Elsewhere

----------------------------------------------------------------------------
(* The consumer of the queue *)

Applied(w, rows) ==
    CASE w.kind = "upsert"    -> [rows EXCEPT ![w.key] = w.value]
      [] w.kind = "delete"    -> [rows EXCEPT ![w.key] = NoRow]
      [] w.kind = "reconcile" -> [k \in Keys |-> IF k \in w.keys THEN rows[k] ELSE NoRow]

Removes(w, k) == \/ w.kind = "delete" /\ w.key = k
                 \/ w.kind = "reconcile" /\ k \notin w.keys

Upserts(w, k, v) == w.kind = "upsert" /\ w.key = k /\ w.value = v

Touches(w, k) == Removes(w, k) \/ (w.kind = "upsert" /\ w.key = k)

Makes(w, k, v) == IF v = NoRow THEN Removes(w, k) ELSE Upserts(w, k, v)

\* Draining the queue leaves v in the row of k: the row becomes v at some write, or is
\* v already, and no later write makes anything else of it.
DrainsTo(k, v) ==
    \E i \in 0 .. Len(queue) :
        /\ IF i = 0 THEN archive[k] = v ELSE Makes(queue[i], k, v)
        /\ \A j \in i + 1 .. Len(queue) : Touches(queue[j], k) => Makes(queue[j], k, v)

Consume ==
    /\ queue # <<>>
    /\ archive' = Applied(Head(queue), archive)
    /\ queue' = Tail(queue)
    /\ UNCHANGED <<database, identity, cached, worker, inbox, owed>>

\* A reconciliation deletes row by row; one that fails halfway is repeated from
\* the start before anything behind it.
ReconcileFails ==
    /\ queue # <<>>
    /\ Head(queue).kind = "reconcile"
    /\ \E k \in Keys \ Head(queue).keys :
          /\ archive[k] # NoRow
          /\ archive' = [archive EXCEPT ![k] = NoRow]
    /\ UNCHANGED <<database, identity, cached, worker, inbox, queue, owed>>

----------------------------------------------------------------------------
(* The operator: --delete-data and the rebuild *)

\* core-api is stopped and the worker's connection ends.
Wipe ==
    /\ ~wiped
    /\ live # NoRows
    /\ live' = NoRows
    /\ ready' = FALSE
    /\ service' = 0
    /\ wiped' = TRUE
    /\ cached' = 0
    /\ owed' = {k \in KeysOf(archive) : \A i \in DOMAIN queue : ~Removes(queue[i], k)}
    /\ link' = "down"
    /\ inbox' = <<>>
    /\ cache' = EmptyViews
    /\ applied' = FALSE
    /\ canDelete' = FALSE
    /\ UNCHANGED <<identity, queue, archive>>

\* archive_restore_*: the registered worker inserts a row of the archive.
RestoreRow(k) ==
    /\ wiped
    /\ service = identity
    /\ live[k] = NoRow /\ archive[k] # NoRow
    /\ live' = [live EXCEPT ![k] = archive[k]]
    /\ UNCHANGED <<ready, service, wiped, cached, owed>>
    /\ Publish
    /\ Elsewhere

RebuildSucceeds ==
    /\ wiped
    /\ service = identity
    /\ \A k \in Keys : archive[k] # NoRow => live[k] # NoRow
    /\ wiped' = FALSE
    /\ owed' = {}
    /\ UNCHANGED <<live, ready, service, cached, inbox>>
    /\ Elsewhere

----------------------------------------------------------------------------
(* The worker's connection *)

\* GetTokenAsync: the stored token unless SpacetimeDB answers 401 (or there is
\* none yet); then a new identity, written before the connection is opened.
Connect(rejected) ==
    /\ link = "down"
    /\ rejected \/ identity = 0 => identity < MaxIdentities
    /\ identity' = IF rejected \/ identity = 0 THEN identity + 1 ELSE identity
    /\ link' = "registering"
    /\ UNCHANGED <<database, cached, inbox, cache, applied, canDelete, queue, archive, owed>>

\* WaitForRegistration has seen its own identity; the first message is the
\* whole content of the views.
Subscribe ==
    /\ link = "registering"
    /\ service = identity
    /\ link' = "subscribed"
    /\ inbox' = <<Views(live, ready, service)>>
    /\ UNCHANGED <<database, identity, cached, cache, applied, canDelete, queue, archive, owed>>

Disconnect ==
    /\ link # "down"
    /\ link' = "down"
    /\ inbox' = <<>>
    /\ cache' = EmptyViews
    /\ applied' = FALSE
    /\ canDelete' = FALSE
    /\ UNCHANGED <<database, identity, cached, queue, archive, owed>>

WorkerRestarts ==
    /\ queue # <<>>
    /\ queue' = <<>>
    /\ link' = "down"
    /\ inbox' = <<>>
    /\ cache' = EmptyViews
    /\ applied' = FALSE
    /\ canDelete' = FALSE
    /\ UNCHANGED <<database, identity, cached, archive, owed>>

----------------------------------------------------------------------------
(* Applying one transaction: the cache first, then every callback *)

\* OnInsert: the new rows and the new halves of the changed ones.
Inserted(old, new) ==
    {[kind |-> "upsert", key |-> k, value |-> new.rows[k]] :
        k \in {k \in KeysOf(new.rows) : new.rows[k] # old.rows[k]}}

\* Plausible bug: the old half of a changed row is deleted as well.
DeletedUnchecked(old, new) ==
    {[kind |-> "delete", key |-> k] :
        k \in {k \in KeysOf(old.rows) : new.status = "yes" /\ old.rows[k] # new.rows[k]}}

\* OnDelete: only while deletions are allowed, and not the old half of a
\* changed row, whose key is still in the cache.
Deleted(old, new) ==
    {[kind |-> "delete", key |-> k] :
        k \in {k \in KeysOf(old.rows) : new.status = "yes" /\ k \notin KeysOf(new.rows)}}

\* Plausible bug: a reconciliation whenever the subscription is applied.
ReconciledOnApplied(new) ==
    IF (new.status = "yes" /\ ~canDelete) \/ ~applied
    THEN {[kind |-> "reconcile", keys |-> KeysOf(new.rows)]}
    ELSE {}

\* ReconcileWhenReady, then ReconcileAll: when can_delete turns true.
Reconciled(new) ==
    IF new.status = "yes" /\ ~canDelete
    THEN {[kind |-> "reconcile", keys |-> KeysOf(new.rows)]}
    ELSE {}

IsReady(new) == new.status = "yes"

\* The callbacks of a transaction run in any order; OnApplied after them all.
ApplyTransaction ==
    /\ inbox # <<>>
    /\ LET new == Head(inbox)
           rowWrites == Inserted(cache, new) \cup Deleted(cache, new)
       IN /\ IF applied
             THEN \E writes \in SetToSeqs(rowWrites \cup Reconciled(new)) :
                     queue' = queue \o writes
             ELSE \E first \in SetToSeqs(rowWrites), last \in SetToSeqs(Reconciled(new)) :
                     queue' = queue \o first \o last
          /\ cache' = new
          /\ canDelete' = IsReady(new)
    /\ applied' = TRUE
    /\ inbox' = Tail(inbox)
    /\ UNCHANGED <<database, identity, cached, link, archive, owed>>

----------------------------------------------------------------------------

ReplicationNext ==
    \/ \E k \in Keys : RestoreRow(k) \/ \E v \in Values \cup {NoRow} : WriteRow(k, v)
    \/ MarkReady \/ RegisterArchiveService \/ CoreApiRestarts \/ AdminRepoints
    \/ Wipe \/ RebuildSucceeds
    \/ \E rejected \in BOOLEAN : Connect(rejected)
    \/ Subscribe \/ Disconnect \/ WorkerRestarts
    \/ ApplyTransaction \/ Consume \/ ReconcileFails

ReplicationSpec == ReplicationInit /\ [][ReplicationNext]_arVars

----------------------------------------------------------------------------
(* Properties *)

\* "All writes apply in arrival order" (ArchiveDatabase): once the subscription
\* is applied, draining the queue leaves every row the worker knows of in the
\* archive, with its value, whatever order the two halves of a change arrived
\* in, whatever a connection before this one queued, and whatever failed.
KnownRowsAreArchived ==
    applied => \A k \in KeysOf(cache.rows) : DrainsTo(k, cache.rows[k])

\* "So the surviving set is authoritative" (EnqueueReconcile): while deletions
\* are allowed the drained archive holds no other row, those deleted while the
\* worker was away, unregistered or not allowed to delete included.
DeletionsAreArchived ==
    applied /\ cache.status = "yes" => \A k \in Keys : cache.rows[k] = NoRow => DrainsTo(k, NoRow)

\* "It must not prune its backup while a restore is pending"
\* (archive_replication_status): whatever is still queued when the database is
\* wiped, and however often the worker reconnects or is registered anew, no row
\* users had not deleted leaves the archive before the rebuild is over.
ArchiveOutlivesTheDatabase ==
    wiped => owed \subseteq KeysOf(archive)

\* "Registered automatically, including when token recovery happens after
\* core-api started" (WaitForRegistration): a worker that waits to be registered
\* is one core-api still has to register, unless an admin chose another
\* identity by hand or core-api's registration was replaced since.
WaitingWorkerIsRegistered ==
    link = "registering" /\ service \notin {identity, Stranger} => cached # identity
=============================================================================
