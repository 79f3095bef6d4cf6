-------------------------- MODULE SpaceMembership --------------------------
(***************************************************************************)
(* Who is in a space: the server, server_member, ban, join_request, invite *)
(* and dm_server_invite rows of ONE space, and the reducers of             *)
(* src/server/src/reducers/{servers,member_management,join_requests,       *)
(* invites}.rs that change them.  A reducer is one transaction, so it is   *)
(* one action; a reducer that returns Err changes nothing and is left out. *)
(*                                                                         *)
(* Abstracted: a member row is its role and whether its timeout still runs *)
(* (time passing ends a timeout or an invite); an invite counts the uses   *)
(* it has left instead of use_count and max_uses; a username on a          *)
(* whitelist is the account it belongs to.  Names, icons, tags and blurbs  *)
(* of a space are left out, and so is the voice half of remove_member_     *)
(* traces, which VoicePresence adds to the actions below.  Block rows are  *)
(* a constant here: they belong to Friendship.                             *)
(***************************************************************************)
EXTENDS Naturals, FiniteSets

CONSTANTS Accounts,     \* registered accounts
          Tokens,       \* invite tokens
          Blocks,       \* {x, y} when one of x and y has blocked the other
          UseLimits,    \* the values of max_uses a caller may pass
          MaxInvites,   \* MAX_INVITES_PER_SERVER
          MaxNames,     \* MAX_ALLOWED_USERNAMES
          NoAccount, NoInvite, NoLimit

ASSUME MembershipAssumption ==
  /\ NoAccount \notin Accounts
  /\ UseLimits \subseteq Nat /\ NoLimit \notin Nat

VARIABLES owner,          \* server.owner_identity, NoAccount without a server row
          policy,         \* server.invite_policy
          discoverable,   \* server.is_discoverable
          role,           \* the member row's role, "none" without a row
          silenced,       \* members whose timeout_until lies ahead
          banned,         \* accounts with a ban row
          request,        \* the account's join request: none, pending, declined
          invite,         \* the invite row of a token
          dm              \* the dm_server_invite row made with a token

serverVars == <<owner, policy, discoverable>>
memberVars == <<role, silenced, banned, request>>
inviteVars == <<invite, dm>>
membershipVars == <<serverVars, memberVars, inviteVars>>

Roles == {"none", "Member", "Moderator", "Owner"}
Staff == {"Moderator", "Owner"}
NoRequest == [a \in Accounts |-> "none"]
NoInvites == [t \in Tokens |-> NoInvite]

InviteRow == [by : Accounts, left : {NoLimit} \cup Nat,
              names : SUBSET Accounts, expired : BOOLEAN]
DmRow == [to : Accounts, status : {"Pending", "Accepted", "Declined"}]

ASSUME NoRowAssumption == NoInvite \notin DmRow

TypeOK ==
  /\ owner \in Accounts \cup {NoAccount}
  /\ policy \in {"ModeratorsOnly", "Everyone"}
  /\ discoverable \in BOOLEAN
  /\ role \in [Accounts -> Roles]
  /\ silenced \subseteq Accounts
  /\ banned \subseteq Accounts
  /\ request \in [Accounts -> {"none", "pending", "declined"}]
  /\ invite \in [Tokens -> InviteRow \cup {NoInvite}]
  /\ dm \in [Tokens -> DmRow \cup {NoInvite}]

Init ==
  /\ owner = NoAccount /\ policy = "ModeratorsOnly" /\ discoverable = FALSE
  /\ role = NoRequest /\ silenced = {} /\ banned = {} /\ request = NoRequest
  /\ invite = NoInvites /\ dm = NoInvites

----------------------------------------------------------------------------
(* The gates of helpers.rs *)

IsMember(a) == role[a] /= "none"
IsStaff(a) == role[a] \in Staff

MayInvite(a) ==
  /\ IsMember(a)
  /\ owner /= NoAccount
  /\ policy = "Everyone" \/ IsStaff(a)

Active(t) == invite[t] /= NoInvite /\ ~invite[t].expired /\ invite[t].left /= 0

\* The invites that prune_server_invites keeps.
Pruned == [t \in Tokens |-> IF Active(t) THEN invite[t] ELSE NoInvite]
RoomForInvite == Cardinality({t \in Tokens : Active(t)}) < MaxInvites

Enter(a) == role' = [role EXCEPT ![a] = "Member"]

\* The member row goes, its timeout with it, and the join request.
Depart(a) ==
  /\ role' = [role EXCEPT ![a] = "none"]
  /\ silenced' = silenced \ {a}
  /\ request' = [request EXCEPT ![a] = "none"]

----------------------------------------------------------------------------
(* servers.rs *)

\* The id of a space is never used again, so a space created after
\* DeleteServer stands for another id: it starts without rows only if
\* DeleteServer left none behind.
CreateServer(a) ==
  /\ owner = NoAccount
  /\ owner' = a /\ policy' = "ModeratorsOnly" /\ discoverable' = FALSE
  /\ role' = [role EXCEPT ![a] = "Owner"]
  /\ UNCHANGED <<silenced, banned, request, inviteVars>>

SetServerInvitePolicy(a, p) ==
  /\ role[a] = "Owner"
  /\ policy' = p
  /\ UNCHANGED <<owner, discoverable, memberVars, inviteVars>>

\* The cap on listed spaces per owner counts other spaces and is left out.
SetServerDiscovery(a, listed) ==
  /\ role[a] = "Owner"
  /\ discoverable' = listed
  /\ UNCHANGED <<owner, policy, memberVars, inviteVars>>

\* An instance administrator need not be a member.
AdminUnlistServer ==
  /\ owner /= NoAccount /\ discoverable
  /\ discoverable' = FALSE
  /\ UNCHANGED <<owner, policy, memberVars, inviteVars>>

JoinDiscoverableServer(a) ==
  /\ owner /= NoAccount /\ discoverable /\ policy = "Everyone"
  /\ ~IsMember(a) /\ a \notin banned
  /\ Enter(a)
  /\ UNCHANGED <<serverVars, silenced, banned, request, inviteVars>>

DeleteServer(a) ==
  /\ role[a] = "Owner"
  /\ role' = NoRequest /\ silenced' = {} /\ banned' = {} /\ request' = NoRequest
  /\ invite' = NoInvites /\ dm' = NoInvites
  /\ owner' = NoAccount /\ policy' = "ModeratorsOnly" /\ discoverable' = FALSE

LeaveServer(a) ==
  /\ IsMember(a) /\ role[a] /= "Owner"
  /\ Depart(a)
  /\ UNCHANGED <<serverVars, banned, inviteVars>>

----------------------------------------------------------------------------
(* member_management.rs *)

Outranks(a, target) ==
  /\ IsStaff(a) /\ IsMember(target)
  /\ IsStaff(target) => role[a] = "Owner"

CanRemove(a, target) == Outranks(a, target) /\ a /= target

KickMember(a, target) ==
  /\ CanRemove(a, target)
  /\ Depart(target)
  /\ UNCHANGED <<serverVars, banned, inviteVars>>

\* Mutant: the ban deletes the member row and nothing else (BUG_ANALYSIS B11).
BanLeavesTraces(a, target) ==
  /\ CanRemove(a, target)
  /\ banned' = banned \cup {target}
  /\ role' = [role EXCEPT ![target] = "none"]
  /\ silenced' = silenced \ {target}
  /\ UNCHANGED <<serverVars, request, inviteVars>>

BanMember(a, target) ==
  /\ CanRemove(a, target)
  /\ banned' = banned \cup {target}
  /\ Depart(target)
  /\ UNCHANGED <<serverVars, inviteVars>>

UnbanMember(a, target) ==
  /\ IsStaff(a)
  /\ banned' = banned \ {target}
  /\ UNCHANGED <<serverVars, role, silenced, request, inviteVars>>

TimeoutMember(a, target) ==
  /\ Outranks(a, target)
  /\ silenced' = silenced \cup {target}
  /\ UNCHANGED <<serverVars, role, banned, request, inviteVars>>

RemoveTimeout(a, target) ==
  /\ IsStaff(a) /\ IsMember(target)
  /\ silenced' = silenced \ {target}
  /\ UNCHANGED <<serverVars, role, banned, request, inviteVars>>

\* ctx.timestamp passes timeout_until.
TimeoutEnds(a) ==
  /\ a \in silenced
  /\ silenced' = silenced \ {a}
  /\ UNCHANGED <<serverVars, role, banned, request, inviteVars>>

SetMemberRole(a, target, new) ==
  /\ role[a] = "Owner" /\ new \in {"Member", "Moderator"}
  /\ IsMember(target) /\ role[target] /= "Owner"
  /\ role' = [role EXCEPT ![target] = new]
  /\ UNCHANGED <<serverVars, silenced, banned, request, inviteVars>>

\* Mutant: ownership may go to oneself (BUG_ANALYSIS B1).
TransferToAnyone(a, target) ==
  /\ role[a] = "Owner" /\ IsMember(target)
  /\ role' = [b \in Accounts |-> IF b = a THEN "Moderator"
                                   ELSE IF b = target THEN "Owner" ELSE role[b]]
  /\ owner' = target
  /\ UNCHANGED <<policy, discoverable, silenced, banned, request, inviteVars>>

\* Two writes, the target's row first: on one row the second would win.
TransferOwnership(a, target) ==
  /\ role[a] = "Owner" /\ target /= a /\ IsMember(target)
  /\ role' = [b \in Accounts |-> IF b = a THEN "Moderator"
                                   ELSE IF b = target THEN "Owner" ELSE role[b]]
  /\ owner' = target
  /\ UNCHANGED <<policy, discoverable, silenced, banned, request, inviteVars>>

----------------------------------------------------------------------------
(* join_requests.rs *)

RequestToJoin(a) ==
  /\ owner /= NoAccount /\ discoverable /\ policy = "ModeratorsOnly"
  /\ ~IsMember(a) /\ a \notin banned
  /\ request[a] /= "pending"
  /\ request' = [request EXCEPT ![a] = "pending"]
  /\ UNCHANGED <<serverVars, role, silenced, banned, inviteVars>>

CancelJoinRequest(a) ==
  /\ request' = [request EXCEPT ![a] = "none"]
  /\ UNCHANGED <<serverVars, role, silenced, banned, inviteVars>>

\* The row must exist; whether it was declined is not looked at.
ApproveJoinRequest(a, target) ==
  /\ IsStaff(a)
  /\ request[target] /= "none" /\ target \notin banned
  /\ IF IsMember(target) THEN UNCHANGED role ELSE Enter(target)
  /\ request' = [request EXCEPT ![target] = "none"]
  /\ UNCHANGED <<serverVars, silenced, banned, inviteVars>>

DeclineJoinRequest(a, target) ==
  /\ IsStaff(a)
  /\ request[target] = "pending"
  /\ request' = [request EXCEPT ![target] = "declined"]
  /\ UNCHANGED <<serverVars, role, silenced, banned, inviteVars>>

----------------------------------------------------------------------------
(* invites.rs *)

\* A token is drawn at random: it is in no row, of whichever table.
Unused(t) == Pruned[t] = NoInvite /\ dm[t] = NoInvite

CreateInvite(a, t, limit, names) ==
  /\ MayInvite(a) /\ RoomForInvite /\ Unused(t)
  /\ Cardinality(names) <= MaxNames
  /\ names /= {} => limit = NoLimit
  /\ invite' = [Pruned EXCEPT ![t] =
                  [by |-> a, left |-> limit, names |-> names, expired |-> FALSE]]
  /\ UNCHANGED <<serverVars, memberVars, dm>>

InviteExpires(t) ==
  /\ invite[t] /= NoInvite /\ ~invite[t].expired
  /\ invite' = [invite EXCEPT ![t].expired = TRUE]
  /\ UNCHANGED <<serverVars, memberVars, dm>>

\* What use_invite asks of the caller and the row it found.
MayUse(a, t) ==
  /\ Active(t)
  /\ a \notin banned
  /\ MayInvite(invite[t].by)
  /\ ~IsMember(a)
  /\ invite[t].names = {} \/ a \in invite[t].names

OneUseLess(t) ==
  CASE invite[t].left = NoLimit -> invite
    [] invite[t].left = 1 -> [invite EXCEPT ![t] = NoInvite]
    [] OTHER -> [invite EXCEPT ![t].left = @ - 1]

UseInvite(a, t) ==
  /\ MayUse(a, t)
  /\ Enter(a)
  /\ invite' = OneUseLess(t)
  /\ dm' = IF invite'[t] = NoInvite /\ dm[t] = [to |-> a, status |-> "Pending"]
           THEN [dm EXCEPT ![t] = NoInvite] ELSE dm
  /\ UNCHANGED <<serverVars, silenced, banned, request>>

DeleteInvite(a, t) ==
  /\ invite[t] /= NoInvite
  /\ IsStaff(a) \/ (role[a] = "Member" /\ policy = "Everyone" /\ invite[t].by = a)
  /\ invite' = [invite EXCEPT ![t] = NoInvite]
  /\ UNCHANGED <<serverVars, memberVars, dm>>

\* Pending direct invites go when their token has gone or will not work.
CleanupExpiredInvites ==
  /\ invite' = Pruned
  /\ dm' = [t \in Tokens |->
              IF dm[t] /= NoInvite /\ dm[t].status = "Pending" /\ ~Active(t)
              THEN NoInvite ELSE dm[t]]
  /\ UNCHANGED <<serverVars, memberVars>>

OpenDm(a) ==
  {t \in Tokens : dm[t] = [to |-> a, status |-> "Pending"] /\ Pruned[t] /= NoInvite}

SendDmServerInvite(a, target, t) ==
  /\ MayInvite(a) /\ RoomForInvite /\ Unused(t)
  /\ a /= target /\ {a, target} \notin Blocks
  /\ ~IsMember(target) /\ target \notin banned
  /\ OpenDm(target) = {}
  /\ invite' = [Pruned EXCEPT ![t] =
                  [by |-> a, left |-> 1, names |-> {target}, expired |-> FALSE]]
  /\ dm' = [dm EXCEPT ![t] = [to |-> target, status |-> "Pending"]]
  /\ UNCHANGED <<serverVars, memberVars>>

\* The row is marked first, so the clean-up in use_invite spares it; an error
\* of use_invite takes the mark back with it.
AcceptDmServerInvite(a, t) ==
  /\ dm[t] = [to |-> a, status |-> "Pending"]
  /\ MayUse(a, t)
  /\ Enter(a)
  /\ invite' = OneUseLess(t)
  /\ dm' = [dm EXCEPT ![t].status = "Accepted"]
  /\ UNCHANGED <<serverVars, silenced, banned, request>>

DeclineDmServerInvite(a, t) ==
  /\ dm[t] = [to |-> a, status |-> "Pending"]
  /\ invite' = [invite EXCEPT ![t] = NoInvite]
  /\ dm' = [dm EXCEPT ![t].status = "Declined"]
  /\ UNCHANGED <<serverVars, memberVars>>

----------------------------------------------------------------------------
ByOne(a) ==
  \/ CreateServer(a) \/ DeleteServer(a) \/ LeaveServer(a)
  \/ \E p \in {"ModeratorsOnly", "Everyone"} : SetServerInvitePolicy(a, p)
  \/ \E listed \in BOOLEAN : SetServerDiscovery(a, listed)
  \/ JoinDiscoverableServer(a) \/ RequestToJoin(a) \/ CancelJoinRequest(a)

ByOneOnAnother(a, target) ==
  \/ KickMember(a, target) \/ BanMember(a, target) \/ UnbanMember(a, target)
  \/ TimeoutMember(a, target) \/ RemoveTimeout(a, target)
  \/ TransferOwnership(a, target)
  \/ \E new \in {"Member", "Moderator"} : SetMemberRole(a, target, new)
  \/ ApproveJoinRequest(a, target) \/ DeclineJoinRequest(a, target)

WithInvite(a, t) ==
  \/ \E limit \in UseLimits \cup {NoLimit}, names \in SUBSET Accounts :
        CreateInvite(a, t, limit, names)
  \/ UseInvite(a, t) \/ DeleteInvite(a, t)
  \/ \E target \in Accounts : SendDmServerInvite(a, target, t)
  \/ AcceptDmServerInvite(a, t) \/ DeclineDmServerInvite(a, t)

Next ==
  \/ \E a \in Accounts : ByOne(a) \/ TimeoutEnds(a)
  \/ \E a, target \in Accounts : ByOneOnAnother(a, target)
  \/ \E a \in Accounts, t \in Tokens : WithInvite(a, t)
  \/ \E t \in Tokens : InviteExpires(t)
  \/ AdminUnlistServer \/ CleanupExpiredInvites

Spec == Init /\ [][Next]_membershipVars

----------------------------------------------------------------------------
(* Properties *)

\* The member rows and the server row agree on one owner, through every
\* transfer, promotion, kick and ban: BUG_ANALYSIS B1, B2 and B10 are the three
\* ways member_management.rs once left a space that nobody could administer.
OneOwner ==
  {a \in Accounts : role[a] = "Owner"} = {owner} \ {NoAccount}

\* delete_server leaves no row of the space behind in the tables that have no
\* foreign key to it, so nothing can admit anyone to a space that is gone.
NothingOutlivesTheSpace ==
  owner = NoAccount =>
    /\ role = NoRequest /\ banned = {} /\ request = NoRequest
    /\ invite = NoInvites /\ dm = NoInvites

\* A ban holds against every way in: direct join, join request, invite and
\* direct invite.  A request made before the ban does not wait for an unban.
BannedStayOut ==
  \A a \in banned : role[a] = "none" /\ request[a] = "none"

=============================================================================
