----------------------------- MODULE MCChatDatabase -----------------------------
(***************************************************************************)
(* Four groups of the chat database's reducers that share no rows here - a *)
(* space and its members, friends with their calls, the move of            *)
(* identities, and the channels of a space - and the screens through which *)
(* one member changes who is in the space.  A behaviour exercises one of   *)
(* the five and leaves the others as they start.                           *)
(*                                                                         *)
(* Of the space: three accounts, so that an owner, a moderator or inviter  *)
(* and a newcomer can meet, and two tokens, so that two invites can be     *)
(* open at once.  Of friends: three form three pairs, so that one can be   *)
(* called by two others, and three sockets let one of them change device   *)
(* during a call while the other stays connected.  Of channels: one space, *)
(* two sections, three channels that can be in one section, one message.   *)
(***************************************************************************)
EXTENDS SpacePanel, Friendship, IdentityRekey, Channels, TLC

CONSTANTS ann, ben, cid, t1, t2

MCSymmetry == Permutations(Accounts) \cup Permutations(Tokens)

Uninvolved(a) ==
  /\ role[a] = "none" /\ request[a] = "none" /\ a \notin banned
  /\ \A t \in Tokens : /\ dm[t] /= NoInvite => dm[t].to /= a
                       /\ invite[t] /= NoInvite => a \notin invite[t].names

\* Bound: one account is silenced or asks to join at a time, no token is in use
\* while one is silenced, and two are only when none asks and another account
\* has no part in the space.
FewAtOnce ==
  LET busy == silenced \cup {a \in Accounts : request[a] /= "none"}
      used == {t \in Tokens : invite[t] /= NoInvite \/ dm[t] /= NoInvite}
  IN /\ Cardinality(busy) <= 1
     /\ silenced /= {} => used = {}
     /\ Cardinality(used) > 1 =>
          busy = {} /\ \E a \in Accounts : Uninvolved(a)

\* Bound: while the viewer is at one thing, the rows it does not rest on are
\* plain; one token at a time, and of invite links the ones that still work.
OnlyWhatMatters ==
  LET atThese(ops) == {d.op : d \in {dialog, wire} \ {NoDialog, NoWire}} \subseteq ops
      asked == {a \in Accounts : request[a] /= "none"}
      used == {t \in Tokens : invite[t] /= NoInvite \/ dm[t] /= NoInvite}
      picking == {"invites", "invite", "link", "revoke"}
  IN /\ Cardinality(silenced) + Cardinality(banned) + Cardinality(asked) + Cardinality(used) <= 1
     /\ silenced /= {} => atThese({"timeout", "untimeout"})
     /\ asked /= {} => atThese({"approve", "decline", "request", "cancel"})
     /\ banned /= {} => atThese({"ban", "bans", "unban", "join", "approve", "invites", "invite"})
     /\ used /= {} => atThese(picking \cup {"use"})
     /\ policy = "Everyone" => atThese(picking \cup {"Everyone", "ModeratorsOnly", "join"})
     /\ discoverable => atThese({"join", "request", "cancel", "takeDown", "list", "unlist"})
     /\ \A t \in used : /\ invite[t] /= NoInvite /\ ~invite[t].expired
                        /\ dm[t] = NoInvite => list = {} /\ invite[t].names = {}

VARIABLE part  \* the one that is exercised

Bounded == FewAtOnce /\ (part = "panel" => OnlyWhatMatters)

DatabaseInit ==
  /\ part \in {"space", "panel", "friends", "move", "channels"}
  /\ Init /\ NothingOpen /\ FriendInit /\ RekeyInit /\ ChannelsInit
  /\ IF part = "panel" THEN viewer \in Accounts ELSE viewer = NoAccount
  /\ part # "move" => caller = DatabaseOwner /\ stored = [p \in People |-> "old"]

spaceVars == <<membershipVars, panelVars>>

DatabaseNext ==
  /\ UNCHANGED part
  /\ \/ part = "space" /\ Next /\ UNCHANGED <<panelVars, friendVars, rkVars, chVars>>
     \/ part = "panel" /\ PanelNext /\ UNCHANGED <<friendVars, rkVars, chVars>>
     \/ part = "friends" /\ FriendNext /\ UNCHANGED <<spaceVars, rkVars, chVars>>
     \/ part = "move" /\ RekeyNext /\ UNCHANGED <<spaceVars, friendVars, chVars>>
     \/ part = "channels" /\ ChannelsNext /\ UNCHANGED <<spaceVars, friendVars, rkVars>>

DatabaseSpec ==
  DatabaseInit /\ [][DatabaseNext]_<<part, spaceVars, friendVars, rkVars, chVars>>
=============================================================================
