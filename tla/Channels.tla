------------------------------ MODULE Channels ------------------------------
(***************************************************************************)
(* The channels of the spaces: their order within a section, their ids and *)
(* the rows that hang on them (messages, pins, read cursors), from the     *)
(* creation of a space to a wipe of the database and its rebuild.          *)
(*                                                                         *)
(* Clients show a section's channels by position, then by id               *)
(* (channelsStore.ts); positions need be neither distinct nor without      *)
(* gaps: a new space has two channels at position 0, a deletion leaves a   *)
(* gap, and update_channel writes any position.                            *)
(*                                                                         *)
(* An id comes from the table's auto-inc sequence, or, once an id counter  *)
(* row exists, from that counter.  Only the channel table's ids are        *)
(* modelled; messages, pins and spaces get theirs in the same way.  Every  *)
(* reducer here is for moderators and owners; who they are is the subject  *)
(* of SpaceMembership.                                                     *)
(***************************************************************************)
EXTENDS Integers, FiniteSets

CONSTANTS Spaces, Sections, Messages,
          DefaultSection,  \* `section: None`
          None,         \* no row
          MaxId,        \* bound: the largest channel id
          MaxPosition,  \* bound: the largest position a client asks for
          MaxPins,      \* MAX_PINS_PER_CHANNEL
          Mixed         \* bound: FALSE keeps reordering apart from rows and wipes

ASSUME ChannelsAssumption ==
    /\ DefaultSection \in Sections
    /\ MaxId \in Nat \ {0}
    /\ MaxPosition \in Nat
    /\ MaxPins \in Nat
    /\ Mixed \in BOOLEAN

VARIABLES
    spaces,    \* SUBSET Spaces: the rows of the server table
    channel,   \* [Ids -> [space, section, position, kind] or None]
    message,   \* [Messages -> [channel, deleted] or None]
    pinned,    \* SUBSET Messages: pinned_message, by message_id
    cursors,   \* SUBSET Ids: channels with read_state rows
    sequence,  \* the next id of the auto-inc sequence
    counter,   \* id_counter.next_id; 0 when there is no row
    wiped,     \* whether the database was wiped and is not yet restored
    archive    \* what the archive held then

tables  == <<spaces, channel, message, pinned, cursors>>
chVars  == <<tables, sequence, counter, wiped, archive>>

Ids       == 1 .. MaxId
Positions == 0 .. MaxPosition

ChannelRow == [space : Spaces, section : Sections, position : Int, kind : {"message", "voice"}]
MessageRow == [channel : Ids, deleted : BOOLEAN]

ASSUME NoneAssumption == None \notin ChannelRow /\ None \notin MessageRow

TablesType == [spaces : SUBSET Spaces, channel : [Ids -> ChannelRow \cup {None}],
               message : [Messages -> MessageRow \cup {None}],
               pinned : SUBSET Messages, cursors : SUBSET Ids]

Live(rows) == {i \in DOMAIN rows : rows[i] # None}

Tables == [spaces |-> spaces, channel |-> channel, message |-> message,
           pinned |-> pinned, cursors |-> cursors]
NoTables == [spaces |-> {}, channel |-> [i \in Ids |-> None],
             message |-> [m \in Messages |-> None], pinned |-> {}, cursors |-> {}]

ChannelsTypeOK ==
    /\ Tables \in TablesType
    /\ sequence \in Nat \ {0}
    /\ counter \in Nat
    /\ wiped \in BOOLEAN
    /\ archive \in TablesType

ChannelsInit ==
    /\ spaces = {}
    /\ channel = NoTables.channel
    /\ message = NoTables.message
    /\ pinned = {}
    /\ cursors = {}
    /\ sequence = 1
    /\ counter = 0
    /\ wiped = FALSE
    /\ archive = NoTables

\* The bound Mixed: channels are reordered while nothing hangs on them, and get
\* rows or are wiped while they stand in the order of their ids; one has a cursor.
Bare    == Mixed \/ (Live(message) = {} /\ cursors = {} /\ counter = 0)
Settled == Mixed \/ \A i, j \in Live(channel) :
                      /\ channel[i].section = DefaultSection
                      /\ i < j => channel[i].position <= channel[j].position

----------------------------------------------------------------------------
(* Order within a section *)

InSection(rows, space, section) ==
    {i \in Live(rows) : rows[i].space = space /\ rows[i].section = section}

Siblings(i) == InSection(channel, channel[i].space, channel[i].section)

Before(rows, i, j) ==
    \/ rows[i].position < rows[j].position
    \/ rows[i].position = rows[j].position /\ i < j

\* The index, from 0, that sorting gives to i among these channels.
IndexAmong(rows, group, i) == Cardinality({j \in group \ {i} : Before(rows, j, i)})

Smaller(m, n) == IF m < n THEN m ELSE n

\* move_channel_to_position: the others make room at the index, or i goes to the
\* end; both sections are numbered afresh.
MovedTo(i, section, position) ==
    LET entered == InSection(channel, channel[i].space, section) \ {i}
        left    == Siblings(i) \ {i}
        index   == Smaller(position, Cardinality(entered))
    IN [j \in Ids |->
          IF j = i
          THEN [channel[i] EXCEPT !.section = section, !.position = index]
          ELSE IF j \in entered
          THEN LET n == IndexAmong(channel, entered, j)
               IN [channel[j] EXCEPT !.position = IF n < index THEN n ELSE n + 1]
          ELSE IF j \in left
          THEN [channel[j] EXCEPT !.position = IndexAmong(channel, left, j)]
          ELSE channel[j]]

----------------------------------------------------------------------------
(* Ids *)

\* alloc_id, or the sequence when there is no counter.
NextId ==
    IF counter = 0
    THEN sequence
    ELSE CHOOSE n \in counter .. counter + MaxId :
            /\ n \notin Live(channel)
            /\ \A m \in counter .. n - 1 : m \in Live(channel)

\* raise_id_counter
Raised(maxId) == IF maxId # 0 /\ counter <= maxId THEN maxId + 1 ELSE counter

LargestId(rows) == IF Live(rows) = {} THEN 0 ELSE CHOOSE i \in Live(rows) : \A j \in Live(rows) : j <= i

TakesId ==
    /\ sequence' = IF counter = 0 THEN sequence + 1 ELSE sequence
    /\ counter' = IF counter = 0 THEN 0 ELSE NextId + 1

----------------------------------------------------------------------------
(* Spaces and channels *)

\* A text and a voice channel, both at position 0 of the default section.  The
\* ids are adjacent: the bound leaves out a counter that skips between the two.
CreateSpace(space) ==
    /\ ~wiped
    /\ space \notin spaces
    /\ NextId + 1 \in Ids /\ NextId + 1 \notin Live(channel)
    /\ spaces' = spaces \cup {space}
    /\ channel' = [channel EXCEPT
            ![NextId]     = [space |-> space, section |-> DefaultSection, position |-> 0, kind |-> "message"],
            ![NextId + 1] = [space |-> space, section |-> DefaultSection, position |-> 0, kind |-> "voice"]]
    /\ sequence' = IF counter = 0 THEN sequence + 2 ELSE sequence
    /\ counter' = IF counter = 0 THEN 0 ELSE NextId + 2
    /\ UNCHANGED <<message, pinned, cursors, wiped, archive>>

CreateChannel(space, section, kind) ==
    /\ ~wiped
    /\ space \in spaces
    /\ NextId \in Ids
    /\ Bare \/ section = DefaultSection
    /\ channel' = [channel EXCEPT ![NextId] =
            [space |-> space, section |-> section,
             position |-> Cardinality(InSection(channel, space, section)), kind |-> kind]]
    /\ TakesId
    /\ UNCHANGED <<spaces, message, pinned, cursors, wiped, archive>>

Reorders ==
    /\ ~wiped
    /\ Bare
    /\ UNCHANGED <<spaces, message, pinned, cursors, sequence, counter, wiped, archive>>

\* update_channel writes the position as it is given.
UpdateChannel(i, position) ==
    /\ i \in Live(channel)
    /\ channel' = [channel EXCEPT ![i].position = position]
    /\ Reorders

SetChannelSection(i, section) ==
    /\ i \in Live(channel)
    /\ channel[i].section # section
    /\ channel' = MovedTo(i, section, Cardinality(InSection(channel, channel[i].space, section)))
    /\ Reorders

\* Up or down by one; at the ends nothing happens.
MoveChannel(i, up) ==
    /\ i \in Live(channel)
    /\ LET index == IndexAmong(channel, Siblings(i), i)
       IN /\ IF up THEN index > 0 ELSE index + 1 < Cardinality(Siblings(i))
          /\ channel' = MovedTo(i, channel[i].section, IF up THEN index - 1 ELSE index + 1)
    /\ Reorders

MoveChannelTo(i, section, position) ==
    /\ i \in Live(channel)
    /\ channel' = MovedTo(i, section, position)
    /\ Reorders

\* Where move_channel_relative puts i.
Beside(i, target, after) ==
    LET index == IndexAmong(channel, Siblings(target) \ {i}, target)
    IN MovedTo(i, channel[target].section, IF after THEN index + 1 ELSE index)

MoveChannelRelative(i, target, after) ==
    /\ {i, target} \subseteq Live(channel) /\ i # target
    /\ channel[i].space = channel[target].space
    /\ channel' = Beside(i, target, after)
    /\ Reorders

\* delete_channel_with_dependencies, for each of the channels
DropChannels(gone) ==
    /\ channel' = [i \in Ids |-> IF i \in gone THEN None ELSE channel[i]]
    /\ LET lost == {m \in Live(message) : message[m].channel \in gone} IN
          /\ message' = [m \in Messages |-> IF m \in lost THEN None ELSE message[m]]
          /\ pinned' = pinned \ lost
    /\ cursors' = cursors \ gone

MessageChannels(space) == {i \in Live(channel) : channel[i].space = space /\ channel[i].kind = "message"}

DeleteChannel(i) ==
    /\ ~wiped
    /\ i \in Live(channel)
    /\ channel[i].kind = "message" => Cardinality(MessageChannels(channel[i].space)) > 1
    /\ DropChannels({i})
    /\ UNCHANGED <<spaces, sequence, counter, wiped, archive>>

DeleteChannelSection(space, section) ==
    LET gone == InSection(channel, space, section) IN
    /\ ~wiped
    /\ gone # {}
    /\ ~(MessageChannels(space) \subseteq gone)
    /\ DropChannels(gone)
    /\ UNCHANGED <<spaces, sequence, counter, wiped, archive>>

DeleteSpace(space) ==
    /\ ~wiped
    /\ space \in spaces
    /\ spaces' = spaces \ {space}
    /\ DropChannels({i \in Live(channel) : channel[i].space = space})
    /\ UNCHANGED <<sequence, counter, wiped, archive>>

----------------------------------------------------------------------------
(* What hangs on a channel *)

Elsewhere == UNCHANGED <<spaces, channel, sequence, counter, wiped, archive>>

SendMessage(m, i) ==
    /\ ~wiped
    /\ Settled
    /\ message[m] = None
    /\ i \in Live(channel) /\ channel[i].kind = "message"
    /\ message' = [message EXCEPT ![m] = [channel |-> i, deleted |-> FALSE]]
    /\ UNCHANGED <<pinned, cursors>>
    /\ Elsewhere

DeleteMessage(m) ==
    /\ ~wiped
    /\ m \in Live(message)
    /\ message' = [message EXCEPT ![m].deleted = TRUE]
    /\ pinned' = pinned \ {m}
    /\ UNCHANGED cursors
    /\ Elsewhere

PinMessage(m) ==
    /\ ~wiped
    /\ m \in Live(message) \ pinned
    /\ ~message[m].deleted
    /\ Cardinality({n \in pinned : message[n].channel = message[m].channel}) < MaxPins
    /\ pinned' = pinned \cup {m}
    /\ UNCHANGED <<message, cursors>>
    /\ Elsewhere

UnpinMessage(m) ==
    /\ ~wiped
    /\ m \in pinned
    /\ pinned' = pinned \ {m}
    /\ UNCHANGED <<message, cursors>>
    /\ Elsewhere

MarkChannelRead(i) ==
    /\ ~wiped
    /\ Settled
    /\ Mixed \/ cursors = {}
    /\ i \in Live(channel)
    /\ cursors' = cursors \cup {i}
    /\ UNCHANGED <<message, pinned>>
    /\ Elsewhere

----------------------------------------------------------------------------
(* Wipe and rebuild; the chat is closed meanwhile *)

Wipe ==
    /\ ~wiped
    /\ Settled
    /\ Live(channel) # {}
    /\ archive' = Tables
    /\ spaces' = {}
    /\ channel' = NoTables.channel
    /\ message' = NoTables.message
    /\ pinned' = {}
    /\ cursors' = {}
    /\ sequence' = 1
    /\ counter' = 0
    /\ wiped' = TRUE

\* Plausible bug: the restored rows' ids are not noted.
RestoreWithoutCounter(batch) ==
    /\ wiped
    /\ channel' = [i \in Ids |-> IF i \in batch THEN archive.channel[i] ELSE channel[i]]
    /\ UNCHANGED <<spaces, message, pinned, cursors, sequence, counter, wiped, archive>>

\* archive_restore_channel
RestoreChannels(batch) ==
    /\ wiped
    /\ channel' = [i \in Ids |-> IF i \in batch THEN archive.channel[i] ELSE channel[i]]
    /\ counter' = Raised(LargestId([i \in batch |-> archive.channel[i]]))
    /\ UNCHANGED <<spaces, message, pinned, cursors, sequence, wiped, archive>>

\* Spaces before the channels, the other tables after them; one step stands for
\* the batches of these tables.
RestoreTheRest ==
    /\ wiped
    /\ Live(archive.channel) \subseteq Live(channel)
    /\ spaces' = archive.spaces
    /\ message' = archive.message
    /\ pinned' = archive.pinned
    /\ cursors' = archive.cursors
    /\ wiped' = FALSE
    /\ archive' = NoTables
    /\ UNCHANGED <<channel, sequence, counter>>

\* archive_reseed_id_counters, at any time
ReseedIdCounters ==
    /\ Settled
    /\ counter' = Raised(LargestId(channel))
    /\ UNCHANGED <<tables, sequence, wiped, archive>>

----------------------------------------------------------------------------

ChannelsNext ==
    \/ \E space \in Spaces :
        \/ CreateSpace(space) \/ DeleteSpace(space)
        \/ \E section \in Sections :
            \/ DeleteChannelSection(space, section)
            \/ \E kind \in {"message", "voice"} : CreateChannel(space, section, kind)
    \/ \E i \in Ids :
        \/ DeleteChannel(i) \/ MarkChannelRead(i)
        \/ \E up \in BOOLEAN : MoveChannel(i, up)
        \/ \E p \in Positions : UpdateChannel(i, p)
        \/ \E section \in Sections :
            \/ SetChannelSection(i, section)
            \/ \E p \in Positions : MoveChannelTo(i, section, p)
        \/ \E target \in Ids, after \in BOOLEAN : MoveChannelRelative(i, target, after)
        \/ \E m \in Messages : SendMessage(m, i)
    \/ \E m \in Messages : DeleteMessage(m) \/ PinMessage(m) \/ UnpinMessage(m)
    \/ Wipe
    \/ \E batch \in SUBSET Live(archive.channel) : batch # {} /\ RestoreChannels(batch)
    \/ RestoreTheRest
    \/ ReseedIdCounters

ChannelsSpec == ChannelsInit /\ [][ChannelsNext]_chVars

----------------------------------------------------------------------------
(* Properties *)

\* The id the next insertion gets belongs to no row and to no row's dependents,
\* after a rebuild too: otherwise the reducer panics (IdCounter), or the new
\* channel inherits what was said and read in an old one (BUG_ANALYSIS D3).
NextIdIsUnused ==
    ~wiped => /\ NextId \notin Live(channel) \cup cursors
              /\ \A m \in Live(message) : message[m].channel # NextId

\* A message or a read cursor of no channel, or a pin of a message that is gone,
\* would be shown nowhere and deleted never.
NothingDangles ==
    ~wiped => /\ {message[m].channel : m \in Live(message)} \cup cursors \subseteq Live(channel)
              /\ pinned \subseteq {m \in Live(message) : ~message[m].deleted}

=============================================================================
