--------------------------- MODULE VoicePresence ---------------------------
(***************************************************************************)
(* Who is present in one space: the voice_participant, typing_state,       *)
(* presence_state and client_connection rows of                            *)
(* src/server/src/reducers/{voice,presence}.rs over the members of         *)
(* SpaceMembership.  A voice row is bound to the connection that claimed   *)
(* it, and five authors write it: the member's own connections, a          *)
(* connection that dies, the moderators who remove or silence the member,  *)
(* whoever deletes the channel, and whoever deletes the space.             *)
(*                                                                         *)
(* Abstracted: a voice channel's moderator_only flag is its only content;  *)
(* mute, deafen, camera and screen flags are left out.  Text channels are  *)
(* one, open to every member: delete_channel keeps the last one.  Calls    *)
(* between two accounts are in Friendship.                                 *)
(***************************************************************************)
EXTENDS SpaceMembership

CONSTANTS Channels,     \* voice channels of the space
          Connections,  \* client sockets
          VoiceLimit,   \* participants per channel
          NoRow, NoConnection

ASSUME VoiceAssumption ==
  /\ NoConnection \notin Connections
  /\ NoRow \notin Connections \cup {NoConnection}

VARIABLES chan,   \* the channel row: "none", "open", or "staff" if moderator_only
          live,   \* client_connection: the account behind a live socket
          voice,  \* voice_participant: the connection_id of channel and account
          typing, \* accounts with a typing_state row in the space
          online  \* accounts whose presence_state says online

textVars == <<typing, online>>
voiceVars == <<chan, live, voice, textVars>>
vars == <<membershipVars, voiceVars>>

\* A one-off call, and a row from before the field existed, has no connection.
Claims == Connections \cup {NoConnection}

VoiceTypeOK ==
  /\ TypeOK
  /\ chan \in [Channels -> {"none", "open", "staff"}]
  /\ live \in [Connections -> Accounts \cup {NoAccount}]
  /\ voice \in [Channels -> [Accounts -> Claims \cup {NoRow}]]
  /\ typing \subseteq Accounts /\ online \subseteq Accounts

Quiet == [c \in Channels |-> [a \in Accounts |-> NoRow]]

VInit ==
  /\ Init
  /\ chan = [c \in Channels |-> "none"]
  /\ live = [k \in Connections |-> NoAccount]
  /\ voice = Quiet
  /\ typing = {} /\ online = {}

InVoice(c) == {a \in Accounts : voice[c][a] /= NoRow}

\* remove_voice_presence: out of every channel of the space.
Silence(a) == voice' = [c \in Channels |-> [voice[c] EXCEPT ![a] = NoRow]]

\* A call reaches the module over one of the caller's sockets or over none.
CallsOver(a, k) == k = NoConnection \/ (k \in Connections /\ live[k] = a)

----------------------------------------------------------------------------
(* Connections (lifecycle reducers) *)

ClientConnected(k, a) ==
  /\ live[k] = NoAccount
  /\ live' = [live EXCEPT ![k] = a]
  /\ UNCHANGED <<membershipVars, chan, voice, textVars>>

LastSocket(k) == \A other \in Connections \ {k} : live[other] /= live[k]

\* Mutant: the voice rows stay until the account's last socket closes.
DisconnectKeepsVoice(k) ==
  /\ live[k] /= NoAccount
  /\ live' = [live EXCEPT ![k] = NoAccount]
  /\ voice' = [c \in Channels |-> [a \in Accounts |->
                 IF a = live[k] /\ LastSocket(k) THEN NoRow ELSE voice[c][a]]]
  /\ typing' = typing \ {live[k]}
  /\ online' = IF LastSocket(k) THEN online \ {live[k]} ELSE online
  /\ UNCHANGED <<membershipVars, chan>>

\* Rows of other live connections of the same identity are left alone; typing
\* is per keystroke and goes with any of them.
ClientDisconnected(k) ==
  /\ live[k] /= NoAccount
  /\ live' = [live EXCEPT ![k] = NoAccount]
  /\ voice' = [c \in Channels |-> [a \in Accounts |->
                 IF a = live[k] /\ voice[c][a] \in {k, NoConnection}
                 THEN NoRow ELSE voice[c][a]]]
  /\ typing' = typing \ {live[k]}
  /\ online' = IF LastSocket(k) THEN online \ {live[k]} ELSE online
  /\ UNCHANGED <<membershipVars, chan>>

----------------------------------------------------------------------------
(* Voice (voice.rs) *)

Admits(c, a) ==
  /\ chan[c] /= "none" /\ IsMember(a)
  /\ chan[c] = "staff" => IsStaff(a)

\* Taking one's own place again does not need a second slot.
HasSlot(c, a) == Cardinality(InVoice(c) \ {a}) < VoiceLimit

JoinVoiceChannel(c, a, k) ==
  /\ CallsOver(a, k)
  /\ Admits(c, a) /\ a \notin silenced /\ HasSlot(c, a)
  /\ voice' = [d \in Channels |-> [voice[d] EXCEPT ![a] = IF d = c THEN k ELSE NoRow]]
  /\ UNCHANGED <<membershipVars, chan, live, textVars>>

\* Another device's row stays, and with it its right to a token.
LeaveVoiceChannel(c, a, k) ==
  /\ CallsOver(a, k)
  /\ voice[c][a] \in {k, NoConnection}
  /\ voice' = [voice EXCEPT ![c][a] = NoRow]
  /\ UNCHANGED <<membershipVars, chan, live, textVars>>

----------------------------------------------------------------------------
(* Typing and presence (presence.rs) *)

TouchPresence(a, k) ==
  /\ CallsOver(a, k)
  /\ online' = online \cup {a}
  /\ UNCHANGED <<membershipVars, chan, live, voice, typing>>

SetPresenceOffline(a, k) ==
  /\ CallsOver(a, k)
  /\ online' = online \ {a}
  /\ UNCHANGED <<membershipVars, chan, live, voice, typing>>

\* Starting and stopping ask for the same access: who has lost it can no longer
\* take the row back.
SetTypingState(a, k, isTyping) ==
  /\ CallsOver(a, k) /\ IsMember(a)
  /\ typing' = IF isTyping THEN typing \cup {a} ELSE typing \ {a}
  /\ online' = IF isTyping THEN online \cup {a} ELSE online
  /\ UNCHANGED <<membershipVars, chan, live, voice>>

----------------------------------------------------------------------------
(* Channels (channels.rs) *)

CreateChannel(a, c, kind) ==
  /\ IsStaff(a) /\ chan[c] = "none"
  /\ chan' = [chan EXCEPT ![c] = kind]
  /\ UNCHANGED <<membershipVars, live, voice, textVars>>

\* Whoever is in the channel stays, staff or not.
UpdateChannel(a, c, kind) ==
  /\ IsStaff(a) /\ chan[c] /= "none"
  /\ chan' = [chan EXCEPT ![c] = kind]
  /\ UNCHANGED <<membershipVars, live, voice, textVars>>

\* One channel, or all of a section.
DeleteChannels(a, gone) ==
  /\ IsStaff(a) /\ gone /= {} /\ \A c \in gone : chan[c] /= "none"
  /\ chan' = [c \in Channels |-> IF c \in gone THEN "none" ELSE chan[c]]
  /\ voice' = [c \in Channels |-> IF c \in gone THEN Quiet[c] ELSE voice[c]]
  /\ UNCHANGED <<membershipVars, live, textVars>>

----------------------------------------------------------------------------
(* The membership reducers, with what they do to channels and voice *)

\* A new space has one voice channel, open to every member.
CreateSpace(a, c) ==
  /\ CreateServer(a)
  /\ chan' = [chan EXCEPT ![c] = "open"]
  /\ UNCHANGED <<live, voice, textVars>>

DeleteSpace(a) ==
  /\ DeleteServer(a)
  /\ chan' = [c \in Channels |-> "none"] /\ voice' = Quiet
  /\ UNCHANGED <<live, textVars>>

Removal(a) ==
  \/ LeaveServer(a)
  \/ \E by \in Accounts : KickMember(by, a) \/ BanMember(by, a) \/ TimeoutMember(by, a)

\* Mutant: one who is removed stays a participant until the socket closes.
RemovedStaysInVoice(a) == Removal(a) /\ UNCHANGED voiceVars

RemovedOrSilenced(a) == Removal(a) /\ Silence(a) /\ UNCHANGED <<chan, live, textVars>>

\* Reducers that touch neither channels nor voice.
MembershipOnly ==
  /\ \/ \E a \in Accounts :
          \/ \E p \in {"ModeratorsOnly", "Everyone"} : SetServerInvitePolicy(a, p)
          \/ \E listed \in BOOLEAN : SetServerDiscovery(a, listed)
          \/ JoinDiscoverableServer(a) \/ RequestToJoin(a) \/ CancelJoinRequest(a)
          \/ TimeoutEnds(a)
     \/ \E a, target \in Accounts :
          \/ UnbanMember(a, target) \/ RemoveTimeout(a, target)
          \/ TransferOwnership(a, target)
          \/ \E new \in {"Member", "Moderator"} : SetMemberRole(a, target, new)
          \/ ApproveJoinRequest(a, target) \/ DeclineJoinRequest(a, target)
     \/ \E a \in Accounts, t \in Tokens : WithInvite(a, t)
     \/ \E t \in Tokens : InviteExpires(t)
     \/ AdminUnlistServer \/ CleanupExpiredInvites
  /\ UNCHANGED voiceVars

VNext ==
  \/ \E k \in Connections : ClientDisconnected(k) \/ \E a \in Accounts : ClientConnected(k, a)
  \/ \E c \in Channels, a \in Accounts, k \in Claims :
       JoinVoiceChannel(c, a, k) \/ LeaveVoiceChannel(c, a, k)
  \/ \E a \in Accounts, k \in Claims :
       \/ TouchPresence(a, k) \/ SetPresenceOffline(a, k)
       \/ \E isTyping \in BOOLEAN : SetTypingState(a, k, isTyping)
  \/ \E a \in Accounts, c \in Channels, kind \in {"open", "staff"} :
       CreateChannel(a, c, kind) \/ UpdateChannel(a, c, kind)
  \/ \E a \in Accounts, gone \in SUBSET Channels : DeleteChannels(a, gone)
  \/ \E a \in Accounts, c \in Channels : CreateSpace(a, c)
  \/ \E a \in Accounts : DeleteSpace(a) \/ RemovedOrSilenced(a)
  \/ MembershipOnly

VSpec == VInit /\ [][VNext]_vars

----------------------------------------------------------------------------
(* Properties *)

\* A participant is a member whose timeout is over, in a channel that exists,
\* whoever removed or silenced the member or deleted the channel meanwhile
\* (helpers.rs:383 "anything that removes or silences them there").
VoiceIsForMembers ==
  \A c \in Channels : \A a \in InVoice(c) :
    IsMember(a) /\ a \notin silenced /\ chan[c] /= "none"

\* schema.rs:376-378: "a killed app / dropped socket can never leave a ghost
\* participant behind", though moves, leaves and other devices intervene.
NoGhosts ==
  \A c \in Channels, a \in Accounts :
    voice[c][a] \in Connections => live[voice[c][a]] = a

\* Whatever calls an account's devices made before, when its last socket closes
\* it is offline, types nothing and is in no voice channel: a killed app leaves
\* the same rows as an orderly sign-out (BUG_ANALYSIS D1, D2).
LastSocketTakesAll ==
  [][\A k \in Connections :
       live[k] /= NoAccount /\ live'[k] = NoAccount /\ LastSocket(k)
       => /\ live[k] \notin online' \cup typing'
          /\ \A c \in Channels : voice'[c][live[k]] = NoRow]_vars
=============================================================================
