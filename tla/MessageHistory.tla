--------------------------- MODULE MessageHistory ---------------------------
(***************************************************************************)
(* What one reader sees of one channel or one conversation.  The           *)
(* subscription's views carry the newest Window messages; the client       *)
(* rebuilds its store from them 30 ms after a change, and asks for older   *)
(* pages by procedure when the reader scrolls up (history.ts).  A page is  *)
(* kept apart from the window, which every rebuild replaces.               *)
(*                                                                         *)
(* Messages are numbered in the order they are sent, which is the server's *)
(* (microseconds).  Clients see milliseconds, and several messages may     *)
(* share one.  Of a message's content only whether it was changed since it *)
(* was sent is kept: edited, or deleted (by one side, in a conversation).  *)
(***************************************************************************)
EXTENDS Integers, FiniteSets, Sequences

CONSTANTS Window,      \* RECENT_MESSAGE_WINDOW
          PageSize,    \* PAGE_SIZE
          MaxSent,     \* bound: messages ever sent
          MaxChanged,  \* bound: messages changed or removed
          MaxShared    \* bound: messages sent in the millisecond of the previous one

ASSUME HistoryAssumption ==
    /\ Window \in Nat \ {0}
    /\ PageSize \in Nat \ {0}
    /\ MaxSent \in Nat /\ MaxChanged \in Nat /\ MaxShared \in Nat

VARIABLES
    direct,     \* whether this is a conversation of two; else a channel
    time,       \* the millisecond of each message sent
    row,        \* the rows: a partial function from messages to contents
    member,     \* whether the reader may read the channel
    connected,  \* whether the subscription is applied
    cache,      \* the SDK's cache of the view, which lags behind it
    stale,      \* whether a rebuild of the store is scheduled
    older,      \* olderByChannel: the pages fetched
    shown,      \* messagesByChannel: what the reader sees
    exhausted,  \* historyExhausted
    request     \* the page asked for: the cursor's millisecond, NoRequest or Lost

server == <<direct, time, row, member>>
client == <<connected, cache, stale, older, shown, exhausted, request>>
hVars  == <<server, client>>

Numbers == 1 .. MaxSent
Contents == {"sent", "changed"}
NoRequest == 0   \* no request
Lost      == -1  \* asked over a connection that is gone

Empty == [m \in {} |-> "sent"]
Sent  == 1 .. Len(time)
Rows  == DOMAIN row
Oldest(rows) == CHOOSE m \in rows : \A n \in rows : m <= n

HistoryInit ==
    /\ direct \in BOOLEAN
    /\ time = <<>>
    /\ row = Empty
    /\ member = TRUE
    /\ connected = TRUE
    /\ cache = Empty
    /\ stale = FALSE
    /\ older = Empty
    /\ shown = Empty
    /\ exhausted = FALSE
    /\ request = NoRequest

----------------------------------------------------------------------------
(* The server *)

\* The newest of these, at most that many.
Newest(rows, take) == {m \in rows : Cardinality({n \in rows : n > m}) < take}

OnlyOf(rows) == [m \in rows |-> row[m]]

\* my_channel_messages carries nothing of a channel the reader may not read.
MyChannelMessages == IF member THEN OnlyOf(Newest(Rows, Window)) ELSE Empty

\* my_direct_messages; the window is per conversation
MyDirectMessages == OnlyOf(Newest(Rows, Window))

View == IF direct THEN MyDirectMessages ELSE MyChannelMessages

\* older_than
OlderThan(before) == Newest({m \in Rows : time[m] < before}, PageSize)

\* load_older_channel_messages; a refusal is an empty page
OlderChannelMessages(before) == IF member THEN OnlyOf(OlderThan(before)) ELSE Empty

\* load_older_direct_messages
OlderDirectMessages(before) == OnlyOf(OlderThan(before))

Page(before) == IF direct THEN OlderDirectMessages(before) ELSE OlderChannelMessages(before)

Now == IF time = <<>> THEN 1 ELSE time[Len(time)]

Shared == {m \in Sent \ {1} : time[m] = time[m - 1]}

NewMessage ==
    /\ Len(time) < MaxSent
    /\ \E t \in {Now, Now + 1} :
        /\ t = Now /\ time # <<>> => Cardinality(Shared) < MaxShared
        /\ time' = Append(time, t)
    /\ row' = [m \in Rows \cup {Len(time) + 1} |-> IF m \in Rows THEN row[m] ELSE "sent"]
    /\ UNCHANGED <<direct, member, client>>

Changed == {m \in Sent : m \in Rows => row[m] = "changed"}

\* edit_message, delete_message, edit_direct_message; delete_direct_message by one side
Change(m) ==
    /\ m \in Rows /\ row[m] = "sent"
    /\ Cardinality(Changed) < MaxChanged
    /\ row' = [row EXCEPT ![m] = "changed"]
    /\ UNCHANGED <<direct, time, member, client>>

\* delete_direct_message by the other side, too
Remove(m) ==
    /\ direct
    /\ m \in Rows /\ row[m] = "changed"
    /\ row' = OnlyOf(Rows \ {m})
    /\ UNCHANGED <<direct, time, member, client>>

\* The reader leaves the space or is removed, the channel becomes one for
\* moderators; or the other way round.
AccessChanges ==
    /\ ~direct
    /\ member' = ~member
    /\ UNCHANGED <<direct, time, row, client>>

----------------------------------------------------------------------------
(* The client *)

\* mergeHistory
Merge(pages, live) ==
    [m \in DOMAIN pages \cup DOMAIN live |-> IF m \in DOMAIN live THEN live[m] ELSE pages[m]]

\* Transaction updates reach the cache, and their callbacks schedule a rebuild.
Deliver ==
    /\ connected
    /\ cache # View
    /\ cache' = View
    /\ stale' = TRUE
    /\ UNCHANGED <<server, connected, older, shown, exhausted, request>>

\* flushRefreshes: syncMessages or syncDirectMessages
Flush ==
    /\ stale
    /\ stale' = FALSE
    /\ shown' = Merge(older, cache)
    /\ UNCHANGED <<server, connected, cache, older, exhausted, request>>

\* Plausible bug: the cursor is the edge of the live window.
LoadBelowTheWindow ==
    /\ request = NoRequest
    /\ ~exhausted
    /\ cache # Empty
    /\ request' = time[Oldest(DOMAIN cache)]
    /\ UNCHANGED <<server, connected, cache, stale, older, shown, exhausted>>

\* The reader scrolls past the oldest message, or jumps to one not yet loaded.
\* (Over a closed connection the call waits for the next one.)
LoadOlder ==
    /\ request = NoRequest
    /\ ~exhausted
    /\ shown # Empty
    /\ request' = time[Oldest(DOMAIN shown)]
    /\ UNCHANGED <<server, connected, cache, stale, older, shown, exhausted>>

\* A short page, and a refused one, says that there is nothing more.
NothingMore(page) == Cardinality(DOMAIN page) < PageSize

\* The answer, behind the updates of everything committed before it.
PageArrives ==
    /\ request > 0
    /\ connected
    /\ LET page == Page(request)
       IN /\ older' = Merge(older, page)
          /\ shown' = Merge(older', shown)
          /\ exhausted' = NothingMore(page)
    /\ request' = NoRequest
    /\ cache' = View
    /\ stale' = (stale \/ cache # View)
    /\ UNCHANGED <<server, connected>>

\* The call fails or times out; when its connection is gone it can do nothing else.
RequestFails ==
    /\ request # NoRequest
    /\ request' = NoRequest
    /\ UNCHANGED <<server, connected, cache, stale, older, shown, exhausted>>

\* The connection is lost; what is shown stays.
Drop ==
    /\ connected
    /\ connected' = FALSE
    /\ cache' = Empty
    /\ stale' = FALSE
    /\ request' = IF request = NoRequest THEN NoRequest ELSE Lost
    /\ UNCHANGED <<server, older, shown, exhausted>>

\* Sign-out: resetClientState.
SignsOut ==
    /\ connected' = FALSE
    /\ cache' = Empty
    /\ stale' = FALSE
    /\ request' = IF connected /\ request # NoRequest THEN Lost ELSE request
    /\ older' = Empty
    /\ shown' = Empty
    /\ exhausted' = FALSE
    /\ UNCHANGED server

\* onApplied: syncAll
Connect ==
    /\ ~connected
    /\ connected' = TRUE
    /\ cache' = View
    /\ shown' = Merge(older, View)
    /\ UNCHANGED <<server, stale, older, exhausted, request>>

----------------------------------------------------------------------------

HistoryNext ==
    \/ NewMessage
    \/ \E m \in Numbers : Change(m) \/ Remove(m)
    \/ AccessChanges
    \/ Deliver
    \/ Flush
    \/ LoadOlder
    \/ PageArrives
    \/ RequestFails
    \/ Drop
    \/ SignsOut
    \/ Connect

HistorySpec == HistoryInit /\ [][HistoryNext]_hVars

----------------------------------------------------------------------------
(* Properties *)

\* A message between two fetched ones that shares its millisecond with none of them
\* was fetched, too: scrolling up skips nothing among the pages, whatever arrived,
\* failed or reconnected meanwhile.  (Of a millisecond that a page's edge cuts the
\* rest is skipped; and a conversation that loses rows for good may leave a gap.)
FetchedIsContiguous ==
    Rows = Sent =>
        \A m \in Rows \ DOMAIN older :
            \/ \A n \in DOMAIN older : n < m
            \/ \A n \in DOMAIN older : n > m
            \/ \E n \in DOMAIN older : time[n] = time[m]

=============================================================================
