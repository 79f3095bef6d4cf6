# Let's Chat: models, checks and proofs

TLA+ models of the stateful core of Let's Chat, the TLC configurations that
check them on small instances, and TLAPS proofs of what should hold for every
number of users, spaces, messages, files and requests. The reference is the
source under `src/`; `PROJECT.json` names, for every definition of a model, the
lines it stands for, and lists components, runs, hazards and theorems.

Contents: 1 the system, 2 modules, 3 how state and actions correspond to the
code, 4 runs, 5 proofs, 6 what was seen in the code, 7 what is not modelled,
8 running it.

## 1. The system

Let's Chat keeps its state in five places that share no transaction:

| Place | Program | What it holds |
|---|---|---|
| chat database | SpacetimeDB module, `src/server` (Rust) | users, friends, spaces, members, channels, messages, voice and presence rows, the derived table of attachment references |
| core-api database | `src/core-api` (C#) over PostgreSQL | accounts, upload registry, quotas, configuration, tokens |
| object store | MinIO, written by clients and core-api | attachments, avatars, icons, posters, HLS segments |
| archive | `src/archive-worker` (C#) over PostgreSQL | a mirror of the chat database that survives a wipe |
| client | `src/src` (TypeScript), in browser tabs and a desktop shell | connection, stores, pages of history, drafts, uploads, a call's media, sessions |

Most of what can go wrong lies between two of these, or between two
asynchronous functions of one of them.

### Components, their state and what makes them correct

*Chat database.* A reducer is one serialised transaction; an `Err` rolls
everything back. The concurrency is in the *order* of reducers, which clients,
devices, moderators and background services call as they like.

| Component | State | Correct when |
|---|---|---|
| storage references (`storage_refs.rs`) | derived references, trust state, fence, tombstones | the table is exact while trusted; what is tombstoned is shown by nothing, ever again |
| spaces and membership (`servers.rs`, `member_management.rs`, `join_requests.rs`, `invites.rs`) | space, members, bans, requests, invites | one owner; bans hold on every way in; a deleted space leaves nothing |
| voice presence (`voice.rs`, `presence.rs`) | participants, sockets, typing | participants are members who may speak, and never the ghost of a dead socket |
| friends and calls (`social.rs`, `dm_voice.rs`) | friend, block, participants of a direct call | no friendship across a block, no call outside one |
| channels and pins (`channels.rs`, `pins.rs`, counters) | channels, sections, pins, read cursors, id counters | an id handed out is in use nowhere, before and after a restore |
| identity rekeying (`rekey.rs`) | all tables with an identity | each row survives under one of its account's identities |
| archive reducers (`archive.rs`) | all tables | a restore is verbatim and repeatable |

*core-api and its loops.*

| Component | State | Correct when |
|---|---|---|
| upload registry, sweeper, collector | pending and confirmed uploads, claims, import, fence | an attachment someone can see is never deleted |
| quotas | per-day counters, stored bytes, row locks | each upload is charged once; transactions never wait in a circle |
| video workers | posters and HLS segments | derived objects are charged while they exist |
| accounts and access | account, role, password, tokens; pushes to the chat database | the two databases agree on access, role and session generation |
| LiveKit tokens and reconciler | strikes per participant | who lost the row loses the room, and only then |

*Archive worker.* A subscription, a queue of writes with endless retries, a
rebuild in batches, the pruning of the archive. Correct when what it knows is
archived, and when a wiped or half-restored database is never taken for the
truth.

*Client.* JavaScript runs to completion between awaits, so everything
interleaves at awaits, timers and events: sign-in flows, connection attempts,
refreshes of the stores, uploads and sends, controls of a call, links of
attachments, the player, the screens of a space. Correct when nothing begun
under one account, call, socket or row lands in the next one.

### How they interact

* client → core-api: HTTP (accounts, uploads, links, LiveKit tokens);
  client → MinIO: PUT of parts, GET of signed links; client → chat database:
  reducers, subscriptions, procedures; client → LiveKit: media.
* collector → chat database: *two* calls, a reducer that claims and a query on
  a view that answers; then MinIO deletes; then its own rows.
* core-api → chat database: pushes of access, role and identities, which may be
  refused or whose answer may be lost.
* archive worker ↔ chat database: subscription callbacks one way, restore
  reducers the other; archive worker → core-api: registration.
* `storage_reference_state.ready` is the one signal that lets both the
  collector delete objects and the worker prune the archive.
* core-api's transactions share PostgreSQL rows by `FOR UPDATE` locks taken one
  by one under READ COMMITTED.

### What is hard

Decisions made from one store and acted on in another; loops that are
interrupted between any two calls; retries of calls whose success was lost;
answers that arrive after their account, call, view or socket is gone; PUTs that
land after their reservation was swept; rules written twice, in the client and
in a reducer; several devices of one account. The forty places where this code
is exposed, with lines and the properties that watch them, are the `hazards` of
`PROJECT.json`.

## 2. Modules

| Module | Models | Built on |
|---|---|---|
| `StorageReferences` | reference table, trust state, fence, tombstones, and every reducer that writes a row with an attachment | |
| `AttachmentStore` | abstract: content shows only what is available | |
| `AttachmentLifecycle` | clients, upload registry, bucket and collector | EXTENDS `StorageReferences`; implements `AttachmentStore` |
| `ArchiveRestore` | drain, wipe, rebuild, pruning, the collector meanwhile | EXTENDS `StorageReferences` |
| `ArchiveReplication` | subscription, callbacks, queue, reconciliation and watermark of the worker | the copying of `ArchiveRestore` in detail |
| `UploadQuota` | quota transactions lock by lock and query by query | the reservation of `AttachmentLifecycle` in detail |
| `VideoDerivatives` | poster and HLS workers against the collector | |
| `AttachmentLinks` | the client's cache of signed links | |
| `VideoPlayer` | the client's one video player | |
| `SpaceMembership` | members, roles, bans, requests, invites of a space | |
| `VoicePresence` | voice rooms, sockets, typing of that space | EXTENDS, and implements, `SpaceMembership` |
| `SpacePanel` | the screens through which one account changes that space | EXTENDS, and implements, `SpaceMembership` |
| `Friendship` | friends, blocks, calls between two accounts | |
| `Channels` | channels, sections, pins and ids, wiped and restored | |
| `IdentityRekey` | the move from client-made to derived identities | |
| `Accounts` | core-api's requests over one account, and its copy in the chat database | |
| `ClientConnection` | sockets, attempts, heartbeat, refreshes, sign-in and sign-out | |
| `SignIn` | the sign-in screen's flows; the pause between confirmation mails | |
| `InstanceSwitch` | which instance the client is for | |
| `MessageHistory` | the live window and the pages below it | |
| `MessageSending` | draft, uploads, sends and retries | |
| `CallSession` | joining, replacing, losing, leaving a call; the reconciler | |
| `CallMedia` | controls, noise filter and audio sinks of one call | |
| `ServerRail`, `IncomingRing`, `ReadMarks` | rail of spaces, ring of calls, unread counts | |

Six `MC` modules put several machines that share no state into one run: a
behaviour picks its machine with the variable `part` and leaves the others as
they start, so the run explores the sum of the state spaces and not their
product. `MCChatDatabase` joins `SpacePanel` (with `SpaceMembership`),
`Friendship`, `IdentityRekey` and `Channels`; `MCFiles` joins `UploadQuota`,
`VideoDerivatives`, `AttachmentLinks` and `VideoPlayer`; `MCCalls`,
`MCConversation`, `MCSignIn` and `MCAttention` join the modules of their rows
in section 4. The other six give constants to one module.

Eight modules hold proofs; each EXTENDS the modules it is about and `TLAPS`:

| Proof module | About |
|---|---|
| `AttachmentProofs` | `StorageReferences`, `AttachmentLifecycle`, `ArchiveRestore` |
| `SpacesProofs` | `SpaceMembership`, `VoicePresence`, `SpacePanel` |
| `ChatDatabaseProofs` | `Friendship`, `IdentityRekey`, `Channels`, `ClientConnection` |
| `ConversationProofs` | `MessageSending`, `MessageHistory` |
| `FilesProofs` | `AttachmentLinks`, `VideoPlayer`, `VideoDerivatives`, `UploadQuota` |
| `CallsProofs` | `CallSession`, `CallMedia` |
| `ServicesProofs` | `Accounts`, `ArchiveReplication` |
| `ClientProofs` | `InstanceSwitch`, `IncomingRing`, `ReadMarks`, `SignIn`, `ServerRail` |

## 3. State and actions against the code

* **Reducers.** One action each, named after the reducer, enabled exactly when
  it returns `Ok`. Helpers that several reducers call
  (`sync_message_references`, `remove_member_traces`) are operators the actions
  use, never actions of their own.
* **core-api.** A handler is a request with a program counter; every await of a
  database, MinIO, mail or the chat database ends a step, so a crash, a refused
  save or a lost answer falls between any two. In `UploadQuota` even the row
  locks are taken one by one. In `AttachmentLifecycle`, where a transaction
  locks its row before it reads it, it is one action with a second outcome for
  a failure after MinIO has acted.
* **Archive worker.** `inbox` holds transactions on their way; each callback
  only appends to `queue`; the consumer outlives the connection. `owed` is
  history: what the archive held at the wipe.
* **Client.** A function runs to its next await as one step. Where one event
  sets off a cascade of calls (`ClientConnection`) the module's variables are
  one record and each function of the source is an operator from record to
  record, so a step reads as the composition of its calls. React effects that
  lag behind are steps of their own (`EffectsRan`, `effectDue`, `followed`).
* **Time** is a flag or a small counter: a fence is `init`, `recent` or
  `quiet`; a timeout of a member lasts until `TimeoutEnds`; links and mails
  have a clock of a few ticks with the order of the code's constants.
* **History variables** are named as such: `mishaps` in `Accounts` and
  `ClientConnection` (what went wrong that the code only logs or has no guard
  against), `early` in `SignIn`, `carried` in `InstanceSwitch`, `twinned` in
  `ServerRail`, `cut` in `VideoDerivatives`. A property that excludes one of
  them says exactly which behaviour of the code it is not claimed for, and
  section 6 describes that behaviour.

## 4. Runs

| Run | Distinct states | Modules | Shows |
|---|---|---|---|
| `attachment_lifecycle` | 586,538 | `AttachmentLifecycle` | nothing shown is deleted; no older object is given up; the whole implements `AttachmentStore` |
| `archive_restore` | 513,800 | `ArchiveRestore` | under the two assumptions below, a wipe and any number of failed rebuilds lose nothing |
| `archive_replication` | 1,465,452 | `ArchiveReplication` | what the worker knows is archived; a wiped database never empties the archive; a waiting worker gets registered |
| `files` | 751,190 | `UploadQuota`, `VideoDerivatives`, `AttachmentLinks`, `VideoPlayer` | charges, locks, segments, links that work, spinners that end, a player that has a place |
| `chat_database` | 108,038 | `SpaceMembership`, `SpacePanel`, `Friendship`, `IdentityRekey`, `Channels` | one owner, bans, offers a reducer grants, blocks, moved data, unused ids |
| `voice_presence` | 236,084 | `VoicePresence` | rows of members with a right to be there and a live socket |
| `calls` | 1,011,106 | `CallSession`, `CallMedia` | only the present call is on air and keeps its row; hung up is silent; the filter follows the settings |
| `client_connection` | 539,523 | `ClientConnection` | stores hold the session's rows; a session without a socket is on its way back |
| `accounts` | 569,486 | `Accounts` | generations, passwords and roles stay in step across two databases |
| `conversation` | 1,005,068 | `MessageSending`, `MessageHistory` | what is sent is stored and the writer's; paging leaves no hole |
| `sign_in` | 663,938 | `SignIn`, `InstanceSwitch` | one account is signed in; a session stays with its instance |
| `attention` | 298,560 | `ServerRail`, `IncomingRing`, `ReadMarks` | a tone has its call, counts are the server's, a rail shows each space once |

Bounds, and why they are enough:

* `attachment_lifecycle`: two keys and pages of one, so that every interleaving
  between one claim batch and the next is met; one message can show both keys
  and one icon shares one, since a hazard concerns one key and the one or two
  rows that show it.
* `archive_restore`: a message, a direct message (which may be edited) and a
  space, one row of the tables in between, one key. Its two assumptions are constants:
  `RestoresInTime` (no ten quiet minutes between the wipe and a rebuild that
  succeeds) and `FilesPredateWipe` (some stored object is older than the new
  database, which keeps the init fence up). Without either the properties
  fail, see section 6.
* `archive_replication`: two rows, values and credentials; a transaction on its
  way and `ShortQueue`, three writes waiting, are enough for a write to be
  overtaken by a later one of the same and of another row, twice.
* `files`: quotas with two users, three uploads (one from an older
  deployment), two open transactions, two days and two configurations that are
  tight enough for each refusal and include `0`, unlimited. A deadlock needs
  two holders, an overrun two reservations that each fit. `MaxAttempts = 3` of
  the video workers is the code's constant. Links: one object shown by two
  rows; `Life`, `EarlyRefresh` and the timeouts keep the order of the code's
  constants, and the clock outlasts one life. Player: two videos.
* `chat_database`: three accounts are an owner, a moderator or inviter and a
  newcomer; two tokens are two open invites; three people form three pairs,
  so that one is called by two; three people move, one of them unknown to the
  database; three channels fit in one of two sections. `FewAtOnce` lets one
  account be silenced or ask at a time and ties two used tokens to an
  uninvolved account; `OnlyWhatMatters` keeps rows plain that the viewer's
  dialog does not rest on; calls of a screen may be lost, and direct invites be
  pending. `Blocks` is empty: a block only removes steps of a space.
* `voice_presence`: a limit of one is full with two accounts; two sockets are
  two devices; without invites (`Tokens = {}`) accounts come in by discovery
  and requests. `OneOutcast`: one account is banned, silenced or asks.
* `calls`: two calls to a channel or a friend, two sockets; two overlapping
  handlers of three clicks with one fault; six events of the filter and four
  mounts of sinks. `FewAtOnce`: two calls of reducers on their way.
* `client_connection`: two accounts, two addresses and four sockets, one more
  than the code needs for a stalled one, one in use and one in the making.
  `FewLeftOpen`: once a socket was left open, the session that goes on is
  followed with the rest.
* `accounts`: two requests at a time over one account, two addresses, two
  changes of the password or address. `OneTopic`: one kind of mishap at a time,
  and role changes apart from password changes.
* `conversation`: one file at a time, large in two parts or small; two tasks,
  two sign-ins; a window of one over pages of two and six messages, of which two may share a
  millisecond or two change. `Few`: a draft holds a text or files.
* `sign_in`: two accounts, two flows at a time; two tabs; two hosts at three
  addresses, of which two are names of the local machine.
* `attention`: four spaces and two groups, so that a group can gain and lose a
  third member while another exists (four spaces fill no third one); two callers; two threads with two
  messages, one lost connection and two marks on the wire.

Symmetry is used in runs without liveness only, which is all of them. Deadlock
is checked in `accounts`, `archive_restore`, `attachment_lifecycle`,
`client_connection` and `voice_presence`; elsewhere a machine may have used up
its bounded events or its work, so a state without a step is no error.

**Fairness.** No run checks liveness. One specification states fairness,
`VideoSpec`: the loops of the playback worker and of the collector keep running
(weak fairness), and however often the process stops, the worker now and then
lives long enough to clear up and to record an attempt, the collector to finish
a deletion, and a row's lock goes to whoever waits for it (strong fairness); its
safety theorems do not use it.
Elsewhere, what must eventually happen is stated as a safety property of the moment instead, in
terms of what is under way: a session without a socket has a timer or an
attempt (`ComesBack`), a spinner has a request (`SpinnerHasRequest`), no set
of transactions waits in a circle (`NoCircularWait`), a worker that waits to be
registered is still on core-api's list (`WaitingWorkerIsRegistered`). Such a
property can be proved for all constants, which a leads-to cannot be here.

## 5. Proofs

TLAPS checks every proof, for every value of the constants, from the named
assumptions of the modules alone. The bounds of the models (`MaxCalls`,
`MaxQueue`, `MaxSent`, ...) are constants too, so the theorems hold for any
bound; state constraints of the runs do not occur in them.

Each of the 40 properties that runs check is stated by a listed theorem.

| Module | Inductive invariant | Theorems |
|---|---|---|
| `StorageReferences` | `SafeReferences`: no row references a tombstone, trusted references are exact, nothing is trusted behind a fence | `ClaimsStaySafe`, `TrustIsExact`, `FenceHolds`, `NoLiveKeyClaimed` (an action property) |
| `AttachmentLifecycle` | `LifecycleInv`: content shows unclaimed keys of uploads past being discarded, the collector deletes claimed keys only, the import finds every older object | `AttachedIsAlwaysStored`, `OldObjectsAlwaysKept`, `LifecycleImplementsStore` |
| `ArchiveRestore` | `RestoreInv`: while wiped the fence stands, the archive is whole, the database holds archived rows only, and what is missing is still to be written | `ArchiveOutlivesTheWipe`, `RebuildIsComplete` |
| `ArchiveReplication` | `ReplicationInv`: what draining the queue leaves, what views and registrations are on their way | `ArchiveHoldsWhatIsKnown`, `ArchiveHoldsNothingElse`, `ArchiveOutlives`, `WaitingIsNoticed` |
| `SpaceMembership` | `Seats`: the owner's seat pointwise, no rows without a space, no rows of the banned | `AlwaysOneOwner`, `NothingEverOutlives`, `BansHold` |
| `VoicePresence` | both properties over the types | `VoiceStaysForMembers`, `NeverGhosts`, `LastSocketAlwaysTakesAll`, `VoiceImplementsMembership` |
| `SpacePanel` | `OffersInv`: an offer on unchanged rows is one the reducer grants | `OffersAreAlwaysGranted`, `PanelImplementsMembership` |
| `Friendship` | `Safe`: four properties that need each other | `BlockedStayStrangers`, `CallsStayBetweenFriends`, `OneCallEachAlways`, `NoGhostCallsAlways` |
| `IdentityRekey` | `RekeyInv`: also of the moment between the move and core-api's save | `AdvancedIsAlwaysMoved`, `DataIsAlwaysKept`, `FriendsAlwaysStay` |
| `Channels` | `IdsInv`: both sources of ids lie beyond the rows, also half restored | `NextIdIsAlwaysUnused`, `NothingEverDangles` |
| `ClientConnection` | `ConnectionInv`: `Held` (one socket, its attempt and its rows), `Ready` (what the next effect needs), `Back` (something is under way) | `StoresAreOfTheSession`, `SessionsComeBack`, `OneSocketAtATime` |
| `Accounts` | `CopyOK`, `GenerationOK`, `PasswordOK`, `RoleOK` | `FloorIsNeverAhead`, `OnlyTheCurrentPassword`, `RoleStaysInStep` |
| `MessageSending` | `SendInv` over composer, uploads and calls | `SentAlwaysStored`, `WriterAlwaysSends`, `WriterAlwaysAlone` |
| `MessageHistory` | `HistoryInv`: pages, cache and window lie one below the other, the cursor below all | `PagesLeaveNoHole` |
| `AttachmentLinks` | `LinkInv` (a link's date is off by its journey at most), `WaitInv` (a row that waits is waited for) | `PromisedLinksAlwaysWork`, `SpinnerAlwaysHasRequest` |
| `VideoPlayer` | `PlaceInv`, `SourceInv` | `PlayerAlwaysHasAPlace`, `SourceIsAlwaysCurrent` |
| `VideoDerivatives` | `DerivativesInv` | `SegmentsAreAlwaysCharged`, `OtherPostersGo` |
| `UploadQuota` | `LocksOK`: what a transaction holds at each step; `ChargeInv`: also, no two transactions hold one lock, a locked row stays what it was when locked, an id under way is nobody else's, and charges are finitely many | `NeverCircularWait`, `AlwaysChargedOnce` |
| `CallSession` | `PresenceInv`, and one on rooms and captures | `OnlyTheCallIsEverOnAir`, `NewerCallAlwaysKeepsPresence` (an action property) |
| `CallMedia` | `OverIsOff`, `FilterInv`, `SinkInv` | `HungUpIsAlwaysSilent`, `FilterAlwaysFollowsSettings`, `BannerIsTrue` |
| `InstanceSwitch` | `SwitchInv` | `SessionsStayHome`, `LinksMoveNoHost` |
| `SignIn` | `SignInInv`, `MailInv` | `OneAccountAtATime`, `TabsComeToAgree` |
| `IncomingRing`, `ReadMarks` | `RingInv`, `MarksInv` | `ToneIsUnderControl`, `CountsBecomeTrue` |
| `ServerRail` | `RailInv`: the layout is whole, and what is under way is in no group but its own | `RailStaysWhole` |

How the arguments run:

* The properties, and the strengthenings that are not obvious, were checked by
  TLC before they were proved. Most properties are not inductive by themselves. `TrustedReferencesExact` needs that
  references avoid tombstones and that nothing is trusted behind a fence,
  because a restore reducer writes rows before their references are derived.
  `OneOwner` needs that a deleted space has no rows and that an owner is not
  banned. `DataIsKept` needs to be true already between the move and core-api's
  save of it. `StoresOfTheSession` needs that what is queued, the socket and
  the attempt belong to one identity.
* A step lemma has one step per action. Where actions write through a few
  operators (`ClientConnection`, `CallSession`, `SpacePanel`) there is one
  lemma per operator first: what it keeps, under which condition.
* The refinements are proved step by step: `LifecycleImplementsStore` maps
  every step to a step of the store or a stutter; voice and panel EXTEND the
  space, so each of their steps is one of the space or leaves it alone, and
  the space's theorems hold in them.
* The library's induction theorems take an operator as a parameter, which the
  provers at hand cannot instantiate. Where an argument needs the least of a set
  of numbers (the newest message fetched, the least id, the smallest
  counterexample of a sum) it uses the well-foundedness of `<` on naturals
  (`WFMin`, `NatLessThanWellFounded`) instead.
* `ChargedOnce` is about a sum over a set, which the library folds over an
  order it chooses. That the fold exists and that the order does not matter
  (`SomethingAdds`, `AnyOrder`, `OneMore`) is shown by the least counterexample.
* `LayoutIsWhole` is about lists that are flattened, filtered, permuted and read
  item by item. Each list operator has one lemma: what it returns holds exactly
  these items, each once (`FlattenOnce`, `FilteredOnce`, `MoveOnce`,
  `SetToSeqOnce`). A drop beside an item then permutes what is drawn
  (`FlatIsDrawn`), and reading a permutation of it, one item after the other,
  keeps every space at one place (`PlaceReads`, `ReadOnce`, `FoldedBack`).

**Assumptions.** All are ASSUMEs, named, that TLC evaluates on the instances.
Most say that a marker for "no row" is not a row, or that bounds are naturals.
Those with content: `LinkAssumption` (a link outlives the early refresh, and
that outlives request and resolve timeouts; `downloadUrls.ts` and core-api's
configuration choose them so), `MailAssumption` (the first pause is not longer
than a later one), `QuotaAssumption` (each upload has an owner and a size),
`StructureAssumption` (a message has one channel, a channel one space),
`InstanceAssumption` (configurations name hosts and addresses), and for the two
theorems of `ArchiveRestore` the constants `RestoresInTime` and
`FilesPredateWipe`, which are hypotheses of those theorems.

**Not proved.** Every property that a run checks is proved. Liveness under
fairness and ENABLED are out of the provers' reach, and no run needs them.

## 6. Seen in the code

Every run passes. What follows is what the code does where a reader may expect
something else. Each is modelled as it is; a property that would be false
because of it excludes it by a history variable or is not stated.

*Storage and archive.*
A rebuild rerun after ten quiet minutes can lose rows: the references are
marked ready and the worker prunes what was not reached (`storage_refs.rs:250`
against `archive.rs:75-76`, `DEPLOYMENT.md:352-353`), and the collector may
delete their files. A wiped instance without older files has its fence lifted
at once (`storage_refs.rs:307` against `views.rs:510-511`). A poster stays when
its worker stops between storing it and the clean-up
(`VideoThumbnailWorker.cs:84`, `PendingUploadSweeper.cs:223`). After a wipe
without a restart of core-api a cached identity prevents a new registration of
the worker; a worker's restart loses its queue until the next reconciliation;
`archive_user` lacks the suspended flag and the generation floor;
`archive_restore_channel` and its neighbours do not renew the fence.

*Spaces, voice, friends, channels.*
A declined request can be approved (`join_requests.rs:85` ignores the state). A
timeout is a column of the member row, so leaving and rejoining ends it
(`invites.rs:215`). A removed member's typing row stays (`helpers.rs:355`), as
does that of a direct chat after an unfriend or a block (`presence.rs:94`). A
demotion or a channel made moderators-only leaves those inside
(`channels.rs:202`). Positions of channels are neither distinct nor dense;
reseeding hands out ids of deleted rows again (`archive.rs:249-252`). An
administrator's unlisting of a space is undone when the owner's open panel
saves a description (`ServerAccessSettings.tsx:110`); a banned account still
sees the space's card; recipients picked while invites are being sent are
dropped.

*Identities and accounts.*
A request to an old identity after the move stays open; of two moved friend
rows of a pair the last iterated wins, where `rekey.rs` says the old one does;
a retry is refused for ever if the service's identity is itself an old one.
`SetStatusAsync` pushes also after a refused save; two pushes that cross
disagree with nothing to repair it; a password reset before the first
registration in the chat database loses the floor; a crash between
`ConfirmEmail`'s two saves leaves half of it; two administrators can revoke
each other.

*Connection and sign-in.*
A sign-out cleans up by a path that opens a new socket; a stalled attempt leaves
its socket (`stall`); an abandoned attempt's `finally` clears another's
`connectPromise` (`orphan`); a late close stops the new heartbeat (`late`,
`connection.ts:251` against `:29`); the reconnect timer can meet a socket
without rows and not be set again (`early`). A registration's status-active
answer stores a session without clearing another account's chat token (`early`
in `SignIn`); a correction answered after "Back to sign in" stores the
registration again; a late identity check signs another account out. "Change
server" or a deep link over a live connection leaves the old connection with
the new configuration (`ConnectionTab.tsx:86` says otherwise), and the session
token can be carried over (`serverConfigStore.ts:132-137`, `carried`).

*Messages.*
A send that waits for a connection across a sign-out goes out as the next
account; a call that timed out but was executed is sent twice on retry; a lost
confirmation's upload is made again; "Discard" leaves the reservation. Pages of
history and the window can have holes within one millisecond and where rows
arrive between them, where `history.ts` says it never skips; an empty or refused
first page ends paging; rows below the window are never updated.

*Calls and attention.*
An older join executed late binds the row again; a join that timed out but was
executed leaves a row nobody knows of (`useVoiceLifecycle.ts:12`); a room that
died between connecting and being installed is installed dead. Overlapping
toggles write flags from before each other; the browser's own "Stop sharing"
leaves the row's flag; a refused re-enabling leaves the microphone closed while
the row says open; both ends of a direct call send `call_ended`. A ring goes on
for up to thirty seconds after its caller gave up if another was dismissed
(`useIncomingDmRing.ts:166`). A grouped space dropped onto itself after its
group was dissolved during the drag becomes a group of it twice (`twinned`); the
rail's layout is kept across accounts. A lost `markRead` is not repeated.

*Links and player.*
Answers on their way at a sign-out land in the next account's cache; a shown
link is not renewed on its row; the timeout covers headers only. Letting go of
a docked video that has not loaded forgets the saved position; opening another
video does not save the old one's; a refreshed source jumps back by the time
the refresh took.

## 7. What is not modelled

* Rendering, forms, wording, navigation; the desktop shell (window, tray,
  updater); the marketing site and build scripts.
* Views and procedures that only select; `read_state` on the server (rows of
  one owner, last writer wins; the client's side is `ReadMarks`).
* Names, topics, tags, reactions, colours: data no rule depends on. In
  `VoicePresence` and `Friendship` the mute, deafen and camera flags.
* core-api's download authorisation (a read-only decision), lockout, mail
  limiter, token lifetimes, issuer pinning, metrics, admin pages but for the
  limits they change.
* LiveKit itself, ffmpeg, MinIO and PostgreSQL beyond what the code relies on:
  a call to them succeeds, fails, or succeeds without an answer.
* The archive's wipe command and schema upgrades; what becomes a notification
  and its rate limits; saving a file to disk in the desktop shell; the Channels
  tab of the space panel.

Worth doing next: the notification rules, the download authorisation, and runs
that check liveness where the code's timers justify the fairness.

## 8. Running it

    tlc -workers 2 -config MCChatDatabase.cfg MCChatDatabase
    tlapm ChatDatabaseProofs.tla

`PROJECT.json` pairs each run's module with its configuration. A run takes from
ten seconds to about a minute, a proof module from half a minute to four
minutes from nothing, on two cores.
