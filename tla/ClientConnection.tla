-------------------------- MODULE ClientConnection --------------------------
(***************************************************************************)
(* The client's connection to the chat database                            *)
(* (src/lib/spacetimedb/connection.ts, auth.ts, events.ts, sync.ts): the   *)
(* sockets it opens, the connect() that tries one address after another,   *)
(* heartbeat and reconnect timer, sign-in and sign-out, the rows of the    *)
(* socket in the stores, and the React effect that follows the connection  *)
(* status (hooks/usePresenceLifecycle.ts).                                 *)
(*                                                                         *)
(* JavaScript runs to completion: an event handler and the continuations   *)
(* it resolves are one step.  The module's variables are therefore one     *)
(* record, client, and each function of connection.ts is an operator from  *)
(* a client to a client, so that a step is the composition of the calls it *)
(* makes.  A generation number is kept as the mark it leaves on the        *)
(* attempts of earlier generations: abandoned.  The attempt that waits for *)
(* a socket is kept in that socket's record.                               *)
(***************************************************************************)
EXTENDS Naturals, FiniteSets

CONSTANTS Accounts,     \* accounts that sign in on this device
          Anonymous,    \* the identity a socket without a token gets
          Nothing,      \* no account, no socket
          Sockets,      \* handles at a time (a closed one is used again)
          Candidates,   \* addresses connect() tries in one pass
          Compressed    \* the first pass asks for gzip (web client)

ASSUME ConnectionBounds ==
  /\ IsFiniteSet(Sockets) /\ Sockets # {}
  /\ Candidates \in Nat \ {0} /\ Compressed \in BOOLEAN
  /\ Anonymous \notin Accounts /\ Nothing \notin Accounts \cup Sockets \cup {Anonymous}

VARIABLES client, \* the module's variables, the stores and the sockets
          mishaps \* what has happened that the code has no guard against:
                  \* "stall": a timed-out attempt left its socket open
                  \* "orphan": connectPromise was cleared while its attempt went on
                  \* "late": an old socket closed while a newer one was in use
                  \* "early": the reconnect timer found a socket that was open
                  \* without its rows, and did not set itself again

connectionVars == <<client, mishaps>>

SocketIdentities == Accounts \cup {Anonymous}

----------------------------------------------------------------------------
(* Sockets and attempts.                                                   *)

Free == [at |-> "free", who |-> Anonymous, waits |-> FALSE, established |-> FALSE,
         abandoned |-> FALSE, candidate |-> 1, gzip |-> FALSE, verify |-> FALSE,
         login |-> Nothing, retry |-> FALSE]

FreeSockets(c) == {s \in Sockets : c.sock[s].at = "free"}

\* isActive of the SDK: from the open socket to its close event.
Active(c) == c.connection # Nothing /\ c.sock[c.connection].at \in {"open", "applied", "closing"}

\* pickCompression.
PickCompression(c) == Compressed /\ ~c.downgraded

\* connectWithUri: a socket for the token that is stored now, for an attempt
\* that connectPromise stands for or (mine = FALSE) no longer does.  The
\* handle of an older socket is overwritten.
Open(c, attempt, mine) ==
  LET s == CHOOSE x \in FreeSockets(c) : TRUE
  IN  [c EXCEPT !.connection = s,
                !.promise = IF mine THEN s ELSE @,
                !.sock[s] = [attempt EXCEPT !.at = "opening", !.waits = TRUE,
                               !.who = IF c.token = Nothing THEN Anonymous ELSE c.token]]

\* teardownConnection: the socket, and the queued rebuilds that would read it.
CloseHandle(c) ==
  IF c.connection = Nothing \/ c.sock[c.connection].at = "free" THEN c
  ELSE [c EXCEPT !.sock[c.connection].at = "closing"]

TeardownQuietly(c) == [c EXCEPT !.live = FALSE, !.connection = Nothing]

Teardown(c) == [c EXCEPT !.live = FALSE, !.queue = {}, !.connection = Nothing]

----------------------------------------------------------------------------
(* connect, disconnect, and the ends of an attempt.                        *)

ScheduleReconnect(c) == IF c.intentional THEN c ELSE [c EXCEPT !.timer = TRUE]

\* connectPromise is returned to whoever calls while an attempt is in flight.
Join(c, retry) == [c EXCEPT !.sock[c.promise].retry = @ \/ retry]

NewAttempt(c, login, retry) ==
  [Free EXCEPT !.gzip = PickCompression(c), !.login = login, !.retry = retry]

ConnectAsLeft(c, login, retry) ==
  IF Active(c) THEN c
  ELSE IF c.promise # Nothing THEN Join(c, retry)
  ELSE Open([c EXCEPT !.status = "connecting"], NewAttempt(c, login, retry), TRUE)

\* connect(): returns at once for an active socket, joins an attempt in
\* flight, or starts one.  retry: the caller is the reconnect timer, which
\* sets itself again when the attempt it waits for fails.
Connect(c, login, retry) ==
  LET d == [c EXCEPT !.intentional = FALSE]
  IN  IF Active(d) THEN d
      ELSE IF d.promise # Nothing THEN Join(d, retry)
      ELSE Open([d EXCEPT !.status = "connecting"], NewAttempt(d, login, retry), TRUE)

\* resetClientState: no store keeps a row of the account.
ResetClientState(c) ==
  [c EXCEPT !.identity = Nothing, !.synced = FALSE, !.user = Nothing, !.stores = {}]

\* The new generation: whatever waits now is an older one's.
Abandoned(c) == [s \in Sockets |-> [c.sock[s] EXCEPT !.abandoned = c.sock[s].waits]]

\* disconnect(), up to what it does with the reconnect timer.
Leave(c) ==
  LET d == Teardown(CloseHandle(c))
  IN  ResetClientState([d EXCEPT
        !.intentional = TRUE, !.heartbeat = FALSE, !.promise = Nothing,
        !.status = "disconnected", !.sock = Abandoned(d)])

Disconnect(c) == [Leave(c) EXCEPT !.timer = FALSE]

\* loginWithPassword once connect() has returned: the identity must be the
\* one core-api authenticated.
CheckLogin(c, account) ==
  IF account = Nothing \/ c.identity = account THEN c
  ELSE [Disconnect(c) EXCEPT !.token = Nothing]

\* Nobody waits for this socket any more.
Unwatched(socket) == [Free EXCEPT !.at = socket.at, !.who = socket.who,
                                  !.established = socket.established]

\* connect() returns: the attempt that waited for s has its rows.
Succeed(c, s) ==
  LET a == c.sock[s]
  IN  CheckLogin([c EXCEPT !.sock[s] = Unwatched(a), !.promise = Nothing,
                           !.heartbeat = @ \/ ~a.abandoned], a.login)

\* connect() throws: no address is left.  A refused token ends the session;
\* an attempt that a sign-out abandoned returns without a word.
GiveUp(c, a, refused) ==
  LET ends == refused /\ c.token # Nothing
      d    == IF ends THEN [Disconnect(c) EXCEPT !.token = Nothing] ELSE c
      f    == [d EXCEPT !.promise = Nothing, !.status = "error",
                        !.token = IF a.login # Nothing THEN Nothing ELSE @]
  IN  IF a.abandoned /\ ~ends THEN CheckLogin([c EXCEPT !.promise = Nothing], a.login)
      ELSE IF a.retry THEN ScheduleReconnect(f) ELSE f

NextAddress(c, failed, mine, refused) ==
  LET a == [failed EXCEPT !.verify = @ \/ refused, !.established = FALSE]
  IN  IF ~a.waits THEN c
      ELSE IF a.candidate < Candidates
           THEN IF a.abandoned THEN GiveUp(c, a, FALSE)
                ELSE Open(c, [a EXCEPT !.candidate = @ + 1], mine)
           ELSE IF a.gzip /\ ~a.abandoned
                THEN Open([c EXCEPT !.downgraded = TRUE],
                          [a EXCEPT !.candidate = 1, !.gzip = FALSE, !.verify = FALSE], mine)
                ELSE GiveUp(c, a, a.verify)

----------------------------------------------------------------------------
(* What React does with the status.  The effect of usePresenceLifecycle    *)
(* runs while an identity is connected and tells the server, on its way    *)
(* out too: call() connects when there is no active socket.  Effects are   *)
(* flushed before the next event, so every other step waits for them.      *)

Shown(c) == IF c.status = "connected" THEN c.identity ELSE Nothing

EffectsRan == client.shown = Shown(client)

\* A handle for the step, and one for the effects after it.
HandlesLeft == Cardinality(FreeSockets(client)) >= 2

\* The finally of an attempt that a sign-out abandoned clears connectPromise
\* even when it stands for a newer attempt.
Orphans(c) ==
  client.promise # Nothing /\ c.promise = Nothing
    /\ c.sock[client.promise].waits /\ ~c.sock[client.promise].abandoned

StepWith(c, new) ==
  /\ EffectsRan
  /\ client' = c
  /\ mishaps' = mishaps \cup new \cup IF Orphans(c) THEN {"orphan"} ELSE {}

Step(c) == StepWith(c, {})

RunEffects ==
  /\ ~EffectsRan
  /\ client' = [Connect(client, Nothing, FALSE) EXCEPT !.shown = Shown(client)]
  /\ UNCHANGED mishaps

----------------------------------------------------------------------------
(* Events of a socket.                                                     *)

\* onConnect: the identity the server saw is stored with its token.  A token
\* the server does not accept may come back as an anonymous identity.
SocketOpens(s, who) ==
  /\ client.sock[s].at = "opening"
  /\ who \in {client.sock[s].who, Anonymous}
  /\ Step([client EXCEPT !.sock[s].at = "open", !.sock[s].who = who, !.status = "connected",
                         !.identity = who, !.token = who])

\* syncUsers: the signed-in user is the row of the connected identity.
SyncUsers(c, who) ==
  [c EXCEPT !.user = IF c.identity = who /\ who # Anonymous THEN who ELSE Nothing]

\* syncAll: every store takes the rows of this socket.
SyncAll(c, who) == [SyncUsers(c, who) EXCEPT !.stores = {who}]

\* onApplied: syncAll, then the attempt goes on.
RowsApplied(s) ==
  LET a == client.sock[s]
      d == [SyncAll(client, a.who) EXCEPT !.sock[s].at = "applied",
                                          !.sock[s].established = TRUE,
                                          !.synced = TRUE, !.live = TRUE]
  IN  /\ a.at = "open"
      /\ HandlesLeft
      /\ Step(IF a.waits THEN Succeed(d, s) ELSE d)

\* onConnectError: the address is not there, or the token does not verify.
\* The last address of the last pass is reported (onError).
ConnectFails(s, refused) ==
  LET a == client.sock[s]
      d == [client EXCEPT !.sock[s] = Free,
                          !.status = IF a.candidate = Candidates /\ ~a.gzip
                                     THEN "disconnected" ELSE @]
  IN  /\ a.at = "opening"
      /\ refused => a.who # Anonymous
      /\ Step(NextAddress(d, a, client.promise = s, refused))

\* onDisconnect.
OnDisconnect(c, s) ==
  LET d == [c EXCEPT !.status = "disconnected", !.heartbeat = FALSE, !.sock[s] = Free]
      f == IF c.connection = s THEN Teardown(d) ELSE d
  IN  IF c.sock[s].established THEN ScheduleReconnect(f) ELSE f

SocketCloses(s) ==
  /\ client.sock[s].at \in {"open", "applied", "closing"}
  /\ StepWith(NextAddress(OnDisconnect(client, s), client.sock[s], client.promise = s, FALSE),
              IF client.connection \in {Nothing, s} THEN {} ELSE {"late"})

\* SPACETIMEDB_CONNECT_TIMEOUT_MS, or the subscription's onError: the attempt
\* goes on, its socket stays (rejectIfPending has set appliedOnce, so the
\* teardown in connectWithUri's finally does not run).
AttemptStalls(s) ==
  /\ "stall" \notin mishaps \* bounds the model
  /\ client.sock[s].at \in {"opening", "open"} /\ client.sock[s].waits
  /\ HandlesLeft
  /\ StepWith(NextAddress([client EXCEPT !.sock[s] = Unwatched(@)], client.sock[s],
                          client.promise = s, FALSE), {"stall"})

\* A live table handler queues the rebuild of its store; every socket reads
\* the one liveEventsEnabled.
RowArrives(s) ==
  /\ client.sock[s].at = "applied" /\ client.live
  /\ Step([client EXCEPT !.queue = @ \cup {client.sock[s].who}])

\* The rebuild of one store (syncMembers, syncMessages, ...) from each socket
\* that queued one; the other stores stay.
Rebuild(c) == [c EXCEPT !.stores = @ \cup c.queue]

\* flushRefreshes, 30 ms after the first row of a burst.
FlushRefreshes ==
  /\ client.queue # {}
  /\ Step([Rebuild(client) EXCEPT !.queue = {}])

----------------------------------------------------------------------------
(* Timers and the user.                                                    *)

\* runHeartbeat: touch_presence did not come back in time.
HeartbeatFails ==
  /\ client.heartbeat /\ Active(client)
  /\ Step(CloseHandle(client))

ReconnectTimer ==
  /\ client.timer
  /\ HandlesLeft
  /\ StepWith(Connect([client EXCEPT !.timer = FALSE], Nothing, TRUE),
              IF Active(client) /\ client.promise # Nothing THEN {"early"} ELSE {})

\* A reducer call of the signed-in pages (call(), callProcedure()).
Call ==
  /\ client.user # Nothing
  /\ HandlesLeft
  /\ Step(Connect(client, Nothing, FALSE))

\* loginWithPassword once core-api has answered: from the sign-in page, or
\* again for the account in use after a change of password.  The form sends
\* one request at a time.
Login(account) ==
  /\ client.user \in {Nothing, account}
  /\ \A s \in Sockets : ~(client.sock[s].waits /\ client.sock[s].login # Nothing)
  /\ HandlesLeft
  /\ Step(Connect([Disconnect(client) EXCEPT !.token = account], account, FALSE))

SignOut ==
  /\ client.user # Nothing
  /\ HandlesLeft
  /\ Step([Disconnect(client) EXCEPT !.token = Nothing])

\* The page is loaded again: main.tsx connects with what localStorage holds.
Started(token) ==
  Connect([token |-> token, intentional |-> FALSE, status |-> "disconnected", synced |-> FALSE,
           identity |-> Nothing, user |-> Nothing, stores |-> {}, live |-> FALSE, queue |-> {},
           connection |-> Nothing, promise |-> Nothing, timer |-> FALSE, heartbeat |-> FALSE,
           downgraded |-> FALSE, shown |-> Nothing, sock |-> [s \in Sockets |-> Free]],
          Nothing, FALSE)

Reload == Step(Started(client.token))

ConnectionInit ==
  /\ client \in {Started(token) : token \in Accounts \cup {Nothing}}
  /\ mishaps = {}

SocketEvent(s) ==
  \/ \E who \in SocketIdentities : SocketOpens(s, who)
  \/ RowsApplied(s)
  \/ \E refused \in BOOLEAN : ConnectFails(s, refused)
  \/ SocketCloses(s)
  \/ AttemptStalls(s)
  \/ RowArrives(s)

ConnectionNext ==
  \/ RunEffects
  \/ \E s \in Sockets : SocketEvent(s)
  \/ FlushRefreshes
  \/ HeartbeatFails
  \/ ReconnectTimer
  \/ Call
  \/ \E a \in Accounts : Login(a)
  \/ SignOut
  \/ Reload

ConnectionSpec == ConnectionInit /\ [][ConnectionNext]_connectionVars

----------------------------------------------------------------------------
(* Properties.                                                             *)

\* A stalled attempt and an orphaned one leave sockets nobody holds.
NoneLeftOpen == mishaps \subseteq {"late", "early"}

InUse(s) == client.sock[s].at \in {"opening", "open", "applied"}

\* The client holds one socket at a time: neither a sign-out in the middle of
\* a handshake nor a drop, a retry or a call of a page opens another beside
\* it (connection.ts, connectionGeneration and connectPromise).
OneSocket == NoneLeftOpen => \A s, t \in Sockets : InUse(s) /\ InUse(t) => s = t

\* While rows arrive, every store holds the rows of the identity on the
\* socket: no queued rebuild of an earlier session lands in them
\* (events.ts, cancelPendingRefreshes).
StoresOfTheSession == NoneLeftOpen /\ client.live => client.stores = {client.identity}

\* A signed-in session without an active socket is on its way back: a
\* reconnect is due or an attempt is in flight (connection.ts,
\* scheduleReconnect), unless the timer found a socket in its handshake.
ComesBack ==
  mishaps = {} /\ EffectsRan /\ client.user # Nothing /\ ~Active(client)
    => client.timer \/ client.promise # Nothing

=============================================================================
