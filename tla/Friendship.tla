----------------------------- MODULE Friendship -----------------------------
(***************************************************************************)
(* Friends, blocks and calls between two accounts: the friend, block and   *)
(* dm_voice_participant rows and the reducers of                           *)
(* src/server/src/reducers/{social,dm_voice}.rs, with the part of          *)
(* voice.rs's connection reducers that removes call rows.  An accepted     *)
(* friend row is the licence for direct messages and calls; both sides and *)
(* all their devices write these rows in any order.                        *)
(*                                                                         *)
(* Abstracted: a pair is the set of its two accounts (ordered_pair and the *)
(* textual keys only make it canonical); mute, deafen, camera and screen   *)
(* flags are left out.                                                     *)
(***************************************************************************)
EXTENDS Naturals, FiniteSets

CONSTANTS Users, Connections,
          CallLimit,                    \* DM_VOICE_PARTICIPANT_LIMIT
          NoFriend, Accepted,           \* a pair without a row, and a row that is accepted
          NoUser, NoConnection, NoCall

\* What the theorems assume of the constants: the markers are no accounts and no
\* connections.
FriendAssumption ==
  /\ NoFriend \notin Users /\ Accepted \notin Users /\ NoFriend /= Accepted
  /\ NoUser \notin Users
  /\ NoConnection \notin Connections
  /\ NoCall \notin Connections \cup {NoConnection}
  /\ CallLimit \in Nat

VARIABLES friend,   \* NoFriend, Accepted, or who asked: requested_by of a pending row
          blocks,   \* <<blocker, blocked>>
          live,     \* client_connection: the account behind a live socket
          call      \* dm_voice_participant: the connection_id of pair and account

friendVars == <<friend, blocks, live, call>>

Pairs == {p \in SUBSET Users : \E x, y \in Users : x /= y /\ p = {x, y}}
Claims == Connections \cup {NoConnection}

FriendTypeOK ==
  /\ friend \in [Pairs -> Users \cup {NoFriend, Accepted}]
  /\ blocks \subseteq Users \X Users
  /\ live \in [Connections -> Users \cup {NoUser}]
  /\ call \in [Pairs -> [Users -> Claims \cup {NoCall}]]

FriendInit ==
  /\ friend = [p \in Pairs |-> NoFriend]
  /\ blocks = {}
  /\ live = [k \in Connections |-> NoUser]
  /\ call = [p \in Pairs |-> [a \in Users |-> NoCall]]

\* has_block_either_direction
Blocked(x, y) == <<x, y>> \in blocks \/ <<y, x>> \in blocks
InCall(p) == {a \in Users : call[p][a] /= NoCall}

\* remove_dm_voice_rows_for_pair
HungUp(p) == [call EXCEPT ![p] = [a \in Users |-> NoCall]]

CallsOver(a, k) == k = NoConnection \/ (k \in Connections /\ live[k] = a)

----------------------------------------------------------------------------
(* social.rs *)

\* Plausible bug: only one direction of a block is looked at.
RequestDespiteBlock(x, y) ==
  /\ x /= y /\ friend[{x, y}] = NoFriend /\ <<x, y>> \notin blocks
  /\ friend' = [friend EXCEPT ![{x, y}] = x]
  /\ UNCHANGED <<blocks, live, call>>

SendFriendRequest(x, y) ==
  /\ x /= y /\ friend[{x, y}] = NoFriend /\ ~Blocked(x, y)
  /\ friend' = [friend EXCEPT ![{x, y}] = x]
  /\ UNCHANGED <<blocks, live, call>>

AcceptFriendRequest(x, y) ==
  /\ x /= y /\ friend[{x, y}] = y
  /\ friend' = [friend EXCEPT ![{x, y}] = Accepted]
  /\ UNCHANGED <<blocks, live, call>>

\* decline_friend_request and remove_friend are the same code: either side may
\* call either, whatever the row says.
Unfriend(x, y) ==
  /\ x /= y
  /\ friend' = [friend EXCEPT ![{x, y}] = NoFriend]
  /\ call' = HungUp({x, y})
  /\ UNCHANGED <<blocks, live>>

BlockUser(x, y) ==
  /\ x /= y
  /\ blocks' = blocks \cup {<<x, y>>}
  /\ friend' = [friend EXCEPT ![{x, y}] = NoFriend]
  /\ call' = HungUp({x, y})
  /\ UNCHANGED live

UnblockUser(x, y) ==
  /\ blocks' = blocks \ {<<x, y>>}
  /\ UNCHANGED <<friend, live, call>>

----------------------------------------------------------------------------
(* dm_voice.rs *)

\* The caller's row in every room, before the new one is counted and written.
Moved(p, x, k) ==
  [q \in Pairs |-> [call[q] EXCEPT ![x] = IF q = p THEN k ELSE NoCall]]

JoinDmVoice(x, y, k) ==
  /\ CallsOver(x, k)
  /\ x /= y /\ ~Blocked(x, y) /\ friend[{x, y}] = Accepted
  /\ Cardinality(InCall({x, y}) \ {x}) < CallLimit
  /\ call' = Moved({x, y}, x, k)
  /\ UNCHANGED <<friend, blocks, live>>

\* A row that another device holds stays.
LeaveDmVoice(x, y, k) ==
  /\ CallsOver(x, k)
  /\ x /= y /\ call[{x, y}][x] \in {k, NoConnection}
  /\ call' = [call EXCEPT ![{x, y}][x] = NoCall]
  /\ UNCHANGED <<friend, blocks, live>>

----------------------------------------------------------------------------
(* voice.rs: lifecycle reducers *)

ClientConnected(k, a) ==
  /\ live[k] = NoUser
  /\ live' = [live EXCEPT ![k] = a]
  /\ UNCHANGED <<friend, blocks, call>>

ClientDisconnected(k) ==
  /\ live[k] /= NoUser
  /\ live' = [live EXCEPT ![k] = NoUser]
  /\ call' = [p \in Pairs |-> [a \in Users |->
                IF a = live[k] /\ call[p][a] \in {k, NoConnection}
                THEN NoCall ELSE call[p][a]]]
  /\ UNCHANGED <<friend, blocks>>

FriendNext ==
  \/ \E x, y \in Users :
       \/ SendFriendRequest(x, y) \/ AcceptFriendRequest(x, y)
       \/ Unfriend(x, y) \/ BlockUser(x, y) \/ UnblockUser(x, y)
       \/ \E k \in Claims : JoinDmVoice(x, y, k) \/ LeaveDmVoice(x, y, k)
  \/ \E k \in Connections : ClientDisconnected(k) \/ \E a \in Users : ClientConnected(k, a)

FriendSpec == FriendInit /\ [][FriendNext]_friendVars

----------------------------------------------------------------------------
(* Properties *)

\* While either has blocked the other there is neither a friendship nor an open
\* request between them, so nothing that was pending before the block can be
\* accepted after it.
BlockedAreStrangers ==
  \A x, y \in Users : x /= y /\ Blocked(x, y) => friend[{x, y}] = NoFriend

\* Whoever is in a call is one of two accepted friends without a block between
\* them: unfriending, declining and blocking all end the call of both sides.
CallsBetweenFriends ==
  \A x, y \in Users :
    x /= y /\ InCall({x, y}) /= {} =>
      /\ friend[{x, y}] = Accepted /\ ~Blocked(x, y)
      /\ InCall({x, y}) \subseteq {x, y}

\* With any number of friends and devices, an account is in one call at most.
OneCallEach ==
  \A p, q \in Pairs : p /= q => InCall(p) \cap InCall(q) = {}

\* A call row that names a socket names a live one of that account.
NoGhostCalls ==
  \A p \in Pairs, a \in Users :
    call[p][a] \in Connections => live[call[p][a]] = a
=============================================================================
