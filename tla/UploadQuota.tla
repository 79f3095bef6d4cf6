----------------------------- MODULE UploadQuota -----------------------------
(***************************************************************************)
(* The three limits core-api puts on uploads - bytes per user and UTC day, *)
(* bytes stored per user, bytes stored on the instance - and the           *)
(* PostgreSQL transactions that keep them.  Each handler is a transaction  *)
(* under READ COMMITTED: it takes its FOR UPDATE locks one by one, each of *)
(* its queries sees what is committed at that moment, and its writes show  *)
(* at the commit.  Objects in the bucket are left to AttachmentLifecycle.  *)
(***************************************************************************)
EXTENDS Naturals, Sequences, FiniteSets, FiniteSetsExt

CONSTANTS
    Users, Uploads, NoUpload,
    Owner,       \* [Uploads -> Users]
    Size,        \* [Uploads -> Nat]: MiB
    VideoSize,   \* what the HLS renditions of an upload weigh
    LegacyRows,  \* pending rows an older deployment left without a QuotaDate
    MaxDay,      \* bound: UTC days the model lives through
    Limits,      \* the configurations an administrator may choose
    Workers      \* bound: transactions open at once

ASSUME QuotaAssumption ==
    /\ NoUpload \notin Uploads
    /\ Owner \in [Uploads -> Users]
    /\ Size \in [Uploads -> Nat \ {0}]
    /\ VideoSize \in Nat \ {0}
    /\ LegacyRows \subseteq Uploads
    /\ MaxDay \in Nat \ {0}
    /\ Limits \subseteq [daily : Nat, user : Nat, instance : Nat]

Days  == 1..MaxDay
NoDay == 0          \* QuotaDate = ""
Ops == {"reserve", "confirm", "abort", "video", "collect"}
Idle == [op |-> "none", up |-> NoUpload, day |-> NoDay, pc |-> "idle", sum |-> 0]
Started(op, u) == [op |-> op, up |-> u, day |-> NoDay, pc |-> "lock", sum |-> 0]

VARIABLES
    stage,      \* the state of the upload's row, if it has one
    quotaDate,  \* [Uploads -> Days \cup {NoDay}]
    quota,      \* [Users -> [Days -> Nat]]: UploadQuotas.BytesUploaded
    videoBytes, \* [Uploads -> Nat]: ConfirmedUploads.VideoBytes
    limits,     \* the SystemConfig row; 0 lifts a stored-bytes limit
    ready,      \* StorageInventoryState.IsReady, in memory
    today,
    job,        \* [Workers -> transaction]
    held        \* [Workers -> SUBSET of locks]

rows == <<stage, quotaDate, quota, videoBytes>>
vars == <<rows, limits, ready, today, job, held>>

Init ==
    /\ stage = [u \in Uploads |-> IF u \in LegacyRows THEN "pending" ELSE "none"]
    /\ quotaDate  = [u \in Uploads |-> NoDay]
    /\ quota      = [a \in Users |-> [d \in Days |-> 0]]
    /\ videoBytes = [u \in Uploads |-> 0]
    /\ limits \in Limits
    /\ ready = FALSE
    /\ today = 1
    /\ job  = [w \in Workers |-> Idle]
    /\ held = [w \in Workers |-> {}]

----------------------------------------------------------------------------
(* What the queries return *)

Stored(u) == stage[u] \in {"confirmed", "adopted"}

\* StorageUsage.RetainedAndPendingAsync: one UNION ALL, so one snapshot.
RetainedAndPending(who) ==
    MapThenSumSet(LAMBDA u : Size[u] + videoBytes[u], {u \in Uploads : Owner[u] \in who /\ Stored(u)})
    + MapThenSumSet(LAMBDA u : Size[u], {u \in Uploads : Owner[u] \in who /\ stage[u] = "pending"})

\* Rows without a date count against whatever day it is.
ReservedOn(a, d) ==
    MapThenSumSet(LAMBDA u : Size[u],
        {u \in Uploads : Owner[u] = a /\ stage[u] = "pending" /\ quotaDate[u] \in {d, NoDay}})

\* The day a row is charged to: a legacy row's is when it was requested.
ChargeDay(u) == IF quotaDate[u] = NoDay THEN 1 ELSE quotaDate[u]

----------------------------------------------------------------------------
(* Locks *)

ConfigLock       == <<"config">>
QuotaLock(a, d)  == <<"quota", a, d>>
PendingLock(u)   == <<"pending", u>>
ConfirmedLock(u) == <<"confirmed", u>>

\* Plausible bug: a confirmation does not lock the row it moves.
ConfirmWithoutPendingLock(u) == <<QuotaLock(Owner[u], ChargeDay(u))>>

\* Plausible bug: it also locks the configuration row, for its legacy check.
ConfirmLockingConfig(u) == <<PendingLock(u), QuotaLock(Owner[u], ChargeDay(u)), ConfigLock>>

ReserveLocks(u, d) == <<ConfigLock, QuotaLock(Owner[u], d)>>

ConfirmLocks(u) == <<PendingLock(u), QuotaLock(Owner[u], ChargeDay(u))>>

\* The rows a transaction locks, in order, before it reads sums or writes.
Locks(op, u, d) ==
    CASE op = "reserve" -> ReserveLocks(u, d)
      [] op = "confirm" -> ConfirmLocks(u)
      [] op = "abort"   -> <<PendingLock(u)>>
      [] op = "video"   -> <<ConfigLock, ConfirmedLock(u)>>
      [] op = "collect" -> <<ConfirmedLock(u)>>

LocksOf(w) == Locks(job[w].op, job[w].up, job[w].day)
Wanted(w)  == LocksOf(w)[Cardinality(held[w]) + 1]
Free(l)    == \A w \in Workers : l \notin held[w]

\* SELECT ... FOR UPDATE finds nothing once the row has moved on.
RowPresent(l, u) ==
    /\ l = PendingLock(u)   => stage[u] = "pending"
    /\ l = ConfirmedLock(u) => Stored(u)

AtPc(w, op, pc) == job[w].op \in op /\ job[w].pc = pc
Goto(w, pc)   == job' = [job EXCEPT ![w].pc = pc]
End(w)        == job' = [job EXCEPT ![w] = Idle] /\ held' = [held EXCEPT ![w] = {}]
Reading       == UNCHANGED <<rows, limits, ready, today>>

----------------------------------------------------------------------------
(* Transactions *)

\* A request, with an id of its own if it is a reservation, or a candidate of
\* the sweeper; the row may be gone by the time it is locked.
Begin(w, op, u) ==
    /\ job[w].pc = "idle"
    /\ \/ op = "reserve" /\ stage[u] = "none" /\ \A x \in Workers : job[x].up # u
       \/ op \in {"confirm", "abort"} /\ stage[u] = "pending"
       \/ op = "collect" /\ Stored(u)
    /\ job' = [job EXCEPT ![w] = Started(op, u)]
    /\ UNCHANGED <<rows, limits, ready, today, held>>

\* The playback worker is the only one of its kind, and drops the charge of an
\* earlier attempt before it asks for room again.
BeginVideo(w, u) ==
    /\ job[w].pc = "idle"
    /\ \A x \in Workers : job[x].op # "video"
    /\ Stored(u) /\ Free(ConfirmedLock(u))
    /\ videoBytes' = [videoBytes EXCEPT ![u] = 0]
    /\ job' = [job EXCEPT ![w] = Started("video", u)]
    /\ UNCHANGED <<stage, quotaDate, quota, limits, ready, today, held>>

\* Where a transaction goes with its last lock.
AfterLocks(op) == CASE op = "reserve" -> "read" [] op = "video" -> "user" [] OTHER -> "commit"

\* The day of a reservation is read with its first lock.
Locked(w) ==
    [op |-> job[w].op, up |-> job[w].up, sum |-> job[w].sum,
     day |-> IF job[w].op = "reserve" /\ job[w].day = NoDay THEN today ELSE job[w].day,
     pc  |-> IF Cardinality(held[w]) + 1 = Len(LocksOf(w)) THEN AfterLocks(job[w].op) ELSE "lock"]

Lock(w) ==
    /\ job[w].pc = "lock"
    /\ Free(Wanted(w))
    /\ IF RowPresent(Wanted(w), job[w].up)
       THEN /\ held' = [held EXCEPT ![w] = @ \cup {Wanted(w)}]
            /\ job' = [job EXCEPT ![w] = Locked(w)]
       ELSE End(w)
    /\ Reading

\* ReserveAsync: the day's charge and the day's reservations are two queries,
\* the second one with the quota row still locked.
ReserveRead(w) ==
    /\ AtPc(w, {"reserve"}, "read")
    /\ job' = [job EXCEPT ![w] = [op |-> "reserve", up |-> job[w].up, day |-> job[w].day, pc |-> "daily",
                                  sum |-> quota[Owner[job[w].up]][job[w].day]]]
    /\ Reading /\ UNCHANGED held

ReserveDaily(w) ==
    /\ AtPc(w, {"reserve"}, "daily")
    /\ LET u == job[w].up
       IN  IF job[w].sum + ReservedOn(Owner[u], job[w].day) + Size[u] <= limits.daily
           THEN Goto(w, "user") /\ UNCHANGED held
           ELSE End(w)
    /\ Reading

Bytes(w) == IF job[w].op = "video" THEN VideoSize ELSE Size[job[w].up]

\* The inventory is only needed where a stored-bytes limit is set.
UserFits(w) ==
    /\ AtPc(w, {"reserve", "video"}, "user")
    /\ LET unlimited == limits.user = 0 /\ limits.instance = 0
           used == RetainedAndPending({Owner[job[w].up]})
       IN  IF unlimited \/ (ready /\ (limits.user = 0 \/ used + Bytes(w) <= limits.user))
           THEN Goto(w, "instance") /\ UNCHANGED held
           ELSE End(w)
    /\ Reading

InstanceFits(w) ==
    /\ AtPc(w, {"reserve", "video"}, "instance")
    /\ IF limits.instance = 0 \/ RetainedAndPending(Users) + Bytes(w) <= limits.instance
       THEN Goto(w, "commit") /\ UNCHANGED held
       ELSE End(w)
    /\ Reading

CommitReserve(w) ==
    /\ AtPc(w, {"reserve"}, "commit")
    /\ stage'     = [stage EXCEPT ![job[w].up] = "pending"]
    /\ quotaDate' = [quotaDate EXCEPT ![job[w].up] = job[w].day]
    /\ End(w)
    /\ UNCHANGED <<quota, videoBytes, limits, ready, today>>

CommitVideo(w) ==
    /\ AtPc(w, {"video"}, "commit")
    /\ videoBytes' = [videoBytes EXCEPT ![job[w].up] = VideoSize]
    /\ End(w)
    /\ UNCHANGED <<stage, quotaDate, quota, limits, ready, today>>

\* ConfirmUpload moves the reservation to the charge; a legacy row that no
\* longer fits its day is dropped instead.
CommitConfirm(w) ==
    /\ AtPc(w, {"confirm"}, "commit")
    /\ LET u == job[w].up
           a == Owner[u]
           d == ChargeDay(u)
       IN  IF quotaDate[u] = NoDay /\ quota[a][d] + Size[u] > limits.daily
           THEN stage' = [stage EXCEPT ![u] = "gone"] /\ UNCHANGED quota
           ELSE /\ stage' = [stage EXCEPT ![u] = "confirmed"]
                /\ quota' = [quota EXCEPT ![a][d] = @ + Size[u]]
    /\ End(w)
    /\ UNCHANGED <<quotaDate, videoBytes, limits, ready, today>>

\* An expired or mis-sized upload is removed before the quota row is locked.
RejectConfirm(w) ==
    /\ AtPc(w, {"confirm"}, "lock") /\ held[w] = {PendingLock(job[w].up)}
    /\ stage' = [stage EXCEPT ![job[w].up] = "gone"]
    /\ End(w)
    /\ UNCHANGED <<quotaDate, quota, videoBytes, limits, ready, today>>

\* AbortUpload, and the sweep of an expired reservation.
CommitAbort(w) ==
    /\ AtPc(w, {"abort"}, "commit")
    /\ stage' = [stage EXCEPT ![job[w].up] = "gone"]
    /\ End(w)
    /\ UNCHANGED <<quotaDate, quota, videoBytes, limits, ready, today>>

CommitCollect(w) ==
    /\ AtPc(w, {"collect"}, "commit")
    /\ stage' = [stage EXCEPT ![job[w].up] = IF @ = "confirmed" THEN "collected" ELSE "gone"]
    /\ videoBytes' = [videoBytes EXCEPT ![job[w].up] = 0]
    /\ End(w)
    /\ UNCHANGED <<quotaDate, quota, limits, ready, today>>

\* A storage call or a query failed: rollback.
Rollback(w) ==
    /\ job[w].pc # "idle"
    /\ End(w)
    /\ Reading

----------------------------------------------------------------------------
(* Everything else that writes these rows *)

\* RequestUpload could not issue a URL for what it had just reserved.
ReleaseUnissued(u) ==
    /\ stage[u] = "pending" /\ quotaDate[u] # NoDay
    /\ Free(PendingLock(u))
    /\ stage' = [stage EXCEPT ![u] = "gone"]
    /\ UNCHANGED <<quotaDate, quota, videoBytes, limits, ready, today, job, held>>

\* The import after a start takes in objects without a row, however large.
Adopt(u) ==
    /\ ~ready
    /\ stage[u] = "gone"
    /\ stage' = [stage EXCEPT ![u] = "adopted"]
    /\ UNCHANGED <<quotaDate, quota, videoBytes, limits, ready, today, job, held>>

InventoryDone ==
    /\ ~ready
    /\ ready' = TRUE
    /\ UNCHANGED <<rows, limits, today, job, held>>

\* The administrator's UPDATE waits for the row as every reservation does.
ChangeLimits(l) ==
    /\ l # limits
    /\ Free(ConfigLock)
    /\ limits' = l
    /\ UNCHANGED <<rows, ready, today, job, held>>

Midnight ==
    /\ today < MaxDay
    /\ today' = today + 1
    /\ UNCHANGED <<rows, limits, ready, job, held>>

Restart ==
    /\ ready' = FALSE
    /\ job'  = [w \in Workers |-> Idle]
    /\ held' = [w \in Workers |-> {}]
    /\ UNCHANGED <<rows, limits, today>>

Transaction(w) ==
    \/ \E u \in Uploads : BeginVideo(w, u) \/ \E op \in Ops : Begin(w, op, u)
    \/ Lock(w)
    \/ ReserveRead(w) \/ ReserveDaily(w) \/ UserFits(w) \/ InstanceFits(w)
    \/ CommitReserve(w) \/ CommitVideo(w)
    \/ RejectConfirm(w) \/ CommitConfirm(w)
    \/ CommitAbort(w) \/ CommitCollect(w)
    \/ Rollback(w)

Next ==
    \/ \E w \in Workers : Transaction(w)
    \/ \E u \in Uploads : ReleaseUnissued(u) \/ Adopt(u)
    \/ \E l \in Limits : ChangeLimits(l)
    \/ InventoryDone \/ Midnight \/ Restart

Spec == Init /\ [][Next]_vars

----------------------------------------------------------------------------
(* Properties *)

\* A day's counter is the size of the uploads confirmed for it, each charged
\* once however many confirmations, sweeps and aborts of it race.
ChargedOnce ==
    \A a \in Users, d \in Days :
        quota[a][d] = MapThenSumSet(LAMBDA u : Size[u],
            {u \in Uploads : /\ Owner[u] = a /\ ChargeDay(u) = d
                             /\ stage[u] \in {"confirmed", "collected"}})

Job == [op : Ops \cup {"none"}, up : Uploads \cup {NoUpload}, day : Days \cup {NoDay}, sum : Nat,
        pc : {"idle", "lock", "read", "daily", "user", "instance", "commit"}]

QuotaTypeOK ==
    /\ stage \in [Uploads -> {"none", "pending", "confirmed", "adopted", "collected", "gone"}]
    /\ quotaDate \in [Uploads -> Days \cup {NoDay}]
    /\ quota \in [Users -> [Days -> Nat]]
    /\ videoBytes \in [Uploads -> Nat]
    /\ limits \in Limits
    /\ ready \in BOOLEAN
    /\ today \in Days
    /\ job \in [Workers -> Job]

WaitsFor(w) == {x \in Workers \ {w} : job[w].pc = "lock" /\ Wanted(w) \in held[x]}

\* The transactions never wait for each other in a circle.
NoCircularWait ==
    \A S \in (SUBSET Workers) \ {{}} : \E w \in S : WaitsFor(w) \cap S = {}
=============================================================================
