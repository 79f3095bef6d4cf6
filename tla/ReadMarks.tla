----------------------------- MODULE ReadMarks ------------------------------
(***************************************************************************)
(* Unread counts. The server keeps per thread the moment up to which the   *)
(* account has read it; the window counts the messages of others after it, *)
(* and marks the thread on screen as read while it has the focus           *)
(* (recomputeUnreadStateFromReadCursors in lib/spacetimedb/sync.ts, the    *)
(* coalesced refreshes of events.ts, the chat views, the layout).          *)
(* Messages are numbered in the order the server stored them, which also   *)
(* stands for their time. Own messages are left out.                       *)
(***************************************************************************)
EXTENDS Naturals, FiniteSets, Sequences, Integers, SequencesExt

CONSTANTS Threads,       \* channels and direct conversations
          MaxMessages, MaxUpsets, MaxWire, MaxMarks  \* bounds

VARIABLES
  log,        \* the server: the thread of each message, in order
  readAt,     \* the server: my_read_states, the last message read per thread
  wire,       \* row changes on their way to the window, in order
  marks,      \* mark-read calls on their way to the server, in order
  cacheRead,  \* the connection's rows: read states
  cached,     \* the connection's rows: how many messages have arrived
  shown,      \* the stores: how many messages they were built from
  shownRead,  \* the stores: read states
  unread,     \* uiStore.unreadByChannel and unreadByDmPartner
  stale,      \* pendingRefreshes: which stores the next flush rebuilds
  view,       \* {} or {the thread on screen}
  focused,    \* whether the window has the focus
  effectFor,  \* the thread and last message the view's effect last ran for
  upsets,     \* marks refused, connections lost and marks of other devices
  cleared     \* history: threads whose count was cleared by hand since it was last computed

markVars == <<log, readAt, wire, marks, cached, cacheRead, shown, shownRead, unread, stale, view,
              focused, effectFor, upsets, cleared>>
windowVars == <<cached, cacheRead, shown, shownRead, unread, stale, view, focused, effectFor,
                cleared>>

LastShown(t) == IF \E m \in 1..shown : log[m] = t
           THEN CHOOSE m \in 1..shown : log[m] = t /\ \A n \in m+1..shown : log[n] # t
           ELSE 0

CountUnread(t, upTo, reads) == Cardinality({m \in reads[t]+1..upTo : log[m] = t})

\* The counts of the stores; and as if they were taken before the stores are rebuilt.
CountsBefore(upTo, reads) == [t \in Threads |-> CountUnread(t, shown, shownRead)]
Counts(upTo, reads) == [t \in Threads |-> CountUnread(t, upTo, reads)]

EffectKey(t) == <<{t}, LastShown(t)>>

MarksInit ==
  /\ log = <<>> /\ readAt = [t \in Threads |-> 0]
  /\ wire = <<>> /\ marks = <<>>
  /\ cached = 0 /\ cacheRead = readAt /\ shown = 0 /\ shownRead = readAt
  /\ unread = readAt /\ stale = {}
  /\ view = {} /\ focused = TRUE /\ effectFor = <<{}, 0>>
  /\ upsets = 0 /\ cleared = {}

-----------------------------------------------------------------------------
\* The server.
Send(t) ==
  /\ Len(log) < MaxMessages /\ Len(wire) < MaxWire
  /\ log' = Append(log, t) /\ wire' = Append(wire, <<>>)
  /\ UNCHANGED <<readAt, marks, windowVars, upsets>>

\* markChannelRead and markDmRead stamp the thread with the moment they run at.
Stamp(t) ==
  /\ Len(wire) < MaxWire
  /\ readAt' = [readAt EXCEPT ![t] = Len(log)]
  /\ wire' = Append(wire, <<t, Len(log)>>)

MarkReadExecutes ==
  /\ marks # <<>> /\ marks' = Tail(marks)
  /\ Stamp(Head(marks))
  /\ UNCHANGED <<log, windowVars, upsets>>

\* The call is refused; its rejection is swallowed.
MarkReadRefused ==
  /\ marks # <<>> /\ marks' = Tail(marks) /\ upsets < MaxUpsets /\ upsets' = upsets + 1
  /\ UNCHANGED <<log, readAt, wire, windowVars>>

\* Another device of the account reads the thread.
ReadElsewhere(t) ==
  /\ upsets < MaxUpsets /\ upsets' = upsets + 1
  /\ Stamp(t)
  /\ UNCHANGED <<log, marks, windowVars>>

-----------------------------------------------------------------------------
\* watchLiveTables: a row changes the cache, and what is drawn from it is stale.
Deliver ==
  /\ wire # <<>> /\ wire' = Tail(wire)
  /\ LET row == Head(wire)
     IN IF row = <<>>
        THEN /\ cached' = cached + 1 /\ stale' = stale \cup {"messages"}
             /\ UNCHANGED cacheRead
        ELSE /\ cacheRead' = [cacheRead EXCEPT ![row[1]] = row[2]]
             /\ stale' = stale \cup {"reads"} /\ UNCHANGED cached
  /\ UNCHANGED <<log, readAt, marks, shown, shownRead, unread, view, focused, effectFor, upsets,
                 cleared>>

\* flushRefreshes: first the stores, then the counts.
FlushStores ==
  /\ stale # {} /\ stale' = {}
  /\ shown' = IF "messages" \in stale THEN cached ELSE shown
  /\ shownRead' = IF "reads" \in stale THEN cacheRead ELSE shownRead
  /\ unread' = Counts(shown', shownRead')
  /\ cleared' = {}
  /\ UNCHANGED <<log, readAt, wire, marks, cached, cacheRead, view, focused, effectFor, upsets>>

\* markRead of the two views: clear the count, and tell the server.
MarkRead(t) ==
  /\ Len(marks) < MaxMarks
  /\ unread' = [unread EXCEPT ![t] = 0]
  /\ cleared' = cleared \cup {t}
  /\ marks' = Append(marks, t)

\* The view's effect runs for the thread, and again for each new last message; it
\* marks the thread only while the window has the focus.
ViewEffect ==
  \E t \in view :
    /\ EffectKey(t) # effectFor /\ effectFor' = EffectKey(t)
    /\ IF focused THEN MarkRead(t) ELSE UNCHANGED <<unread, cleared, marks>>
    /\ UNCHANGED <<log, readAt, wire, cached, cacheRead, shown, shownRead, stale, view, focused,
                   upsets>>

\* The layout's effects clear the count of a thread that is opened, whether or not the
\* window has the focus.
Navigate(target) ==
  /\ target # view
  /\ view' = target /\ effectFor' = <<{}, 0>>
  /\ unread' = [t \in Threads |-> IF t \in target THEN 0 ELSE unread[t]]
  /\ cleared' = cleared \cup target
  /\ UNCHANGED <<log, readAt, wire, marks, cached, cacheRead, shown, shownRead, stale, focused,
                 upsets>>

\* The view's focus listener, which its first effect installed.
Focus ==
  /\ ~focused /\ focused' = TRUE
  /\ IF effectFor[1] = {} THEN UNCHANGED <<unread, cleared, marks>>
     ELSE \E t \in view : MarkRead(t)
  /\ UNCHANGED <<log, readAt, wire, cached, cacheRead, shown, shownRead, stale, view, effectFor,
                 upsets>>

Blur ==
  /\ focused /\ focused' = FALSE
  /\ UNCHANGED <<log, readAt, wire, marks, cached, cacheRead, shown, shownRead, unread, stale,
                 view, effectFor, upsets, cleared>>

\* The connection is lost with everything on it, and the next one starts from a
\* snapshot, from which syncAll rebuilds every store. The view stays as it is.
Reconnect ==
  /\ upsets < MaxUpsets /\ upsets' = upsets + 1
  /\ wire' = <<>> /\ marks' = <<>> /\ stale' = {}
  /\ cached' = Len(log) /\ cacheRead' = readAt /\ shown' = Len(log) /\ shownRead' = readAt
  /\ unread' = Counts(Len(log), readAt)
  /\ cleared' = {}
  /\ UNCHANGED <<log, readAt, view, focused, effectFor>>

MarksNext ==
  \/ \E t \in Threads : Send(t) \/ ReadElsewhere(t)
  \/ MarkReadExecutes \/ MarkReadRefused
  \/ Deliver \/ FlushStores \/ ViewEffect
  \/ \E target \in {{}} \cup {{t} : t \in Threads} : Navigate(target)
  \/ Focus \/ Blur \/ Reconnect

MarksSpec == MarksInit /\ [][MarksNext]_markVars

-----------------------------------------------------------------------------
\* Nothing is on its way, and the window has drawn all it has.
Settled == wire = <<>> /\ marks = <<>> /\ stale = {}

\* Once everything has arrived, a thread's count is the number of messages the server
\* holds after the account's mark, or it was cleared by opening the thread: a count
\* taken from stores that lag behind the rows would stay wrong until the next change.
CountsAreTrue ==
  Settled => \A t \in Threads :
    \/ unread[t] = CountUnread(t, Len(log), readAt)
    \/ unread[t] = 0 /\ t \in cleared
=============================================================================
