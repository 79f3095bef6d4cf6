----------------------------- MODULE SpacesProofs -----------------------------
(***************************************************************************)
(* A space's members, its voice channels and the screens that change its   *)
(* members, for any number of accounts, devices and channels.  Seats, the  *)
(* inductive invariant of membership, says of each account whether it is   *)
(* the owner (so that a step is checked on the rows it writes), that a     *)
(* deleted space has no rows, and that a banned account has none.  The     *)
(* parts need each other: only because a missing server row means no       *)
(* member rows does creating a space leave it with one owner, and only     *)
(* because it means no ban does the creator's row not meet one.  The steps *)
(* of the space with voice are steps of the space, so its theorems hold    *)
(* here too; and both voice invariants are inductive over the types: every *)
(* reducer that takes a membership away silences the member in the same    *)
(* transaction, and a row names a connection only while that connection is *)
(* its account's.  The steps of the screens are steps of the space or      *)
(* leave it alone, and OffersInv relates what was offered to the rows.     *)
(***************************************************************************)
EXTENDS VoicePresence, SpacePanel, TLAPS

\* OneOwner account by account.
OwnerSeat == \A a \in Accounts : role[a] = "Owner" <=> a = owner

Seats == OwnerSeat /\ NothingOutlivesTheSpace /\ BannedStayOut

LEMMA SeatIsOneOwner == TypeOK => (OwnerSeat <=> OneOwner)
BY MembershipAssumption DEF TypeOK, OwnerSeat, OneOwner

----------------------------------------------------------------------------
(* Type correctness *)

LEMMA InitTypeOK == Init => TypeOK
BY DEF Init, TypeOK, NoRequest, NoInvites, Roles

LEMMA TypeByOne ==
    ASSUME TypeOK, NEW a \in Accounts, ByOne(a)
    PROVE  TypeOK'
<1> USE DEF TypeOK, Roles
<1>1. CASE CreateServer(a)
  BY <1>1 DEF CreateServer, inviteVars
<1>2. CASE DeleteServer(a)
  BY <1>2 DEF DeleteServer, NoRequest, NoInvites
<1>3. CASE LeaveServer(a)
  BY <1>3 DEF LeaveServer, Depart, serverVars, inviteVars
<1>4. ASSUME NEW p \in {"ModeratorsOnly", "Everyone"}, SetServerInvitePolicy(a, p) PROVE TypeOK'
  BY <1>4 DEF SetServerInvitePolicy, memberVars, inviteVars
<1>5. ASSUME NEW listed \in BOOLEAN, SetServerDiscovery(a, listed) PROVE TypeOK'
  BY <1>5 DEF SetServerDiscovery, memberVars, inviteVars
<1>6. CASE JoinDiscoverableServer(a)
  BY <1>6 DEF JoinDiscoverableServer, Enter, serverVars, inviteVars
<1>7. CASE RequestToJoin(a)
  BY <1>7 DEF RequestToJoin, serverVars, inviteVars
<1>8. CASE CancelJoinRequest(a)
  BY <1>8 DEF CancelJoinRequest, serverVars, inviteVars
<1> QED BY <1>1, <1>2, <1>3, <1>4, <1>5, <1>6, <1>7, <1>8 DEF ByOne

LEMMA TypeByOneOnAnother ==
    ASSUME TypeOK, NEW a \in Accounts, NEW target \in Accounts, ByOneOnAnother(a, target)
    PROVE  TypeOK'
<1> USE DEF TypeOK, Roles
<1>1. CASE KickMember(a, target)
  BY <1>1 DEF KickMember, Depart, serverVars, inviteVars
<1>2. CASE BanMember(a, target)
  BY <1>2 DEF BanMember, Depart, serverVars, inviteVars
<1>3. CASE UnbanMember(a, target)
  BY <1>3 DEF UnbanMember, serverVars, inviteVars
<1>4. CASE TimeoutMember(a, target)
  BY <1>4 DEF TimeoutMember, serverVars, inviteVars
<1>5. CASE RemoveTimeout(a, target)
  BY <1>5 DEF RemoveTimeout, serverVars, inviteVars
<1>6. CASE TransferOwnership(a, target)
  BY <1>6 DEF TransferOwnership, inviteVars
<1>7. ASSUME NEW new \in {"Member", "Moderator"}, SetMemberRole(a, target, new) PROVE TypeOK'
  BY <1>7 DEF SetMemberRole, serverVars, inviteVars
<1>8. CASE ApproveJoinRequest(a, target)
  BY <1>8 DEF ApproveJoinRequest, Enter, serverVars, inviteVars
<1>9. CASE DeclineJoinRequest(a, target)
  BY <1>9 DEF DeclineJoinRequest, serverVars, inviteVars
<1> QED BY <1>1, <1>2, <1>3, <1>4, <1>5, <1>6, <1>7, <1>8, <1>9 DEF ByOneOnAnother

\* Pruning and using keep invite rows, or take them away.
LEMMA InviteRowsKept ==
    ASSUME TypeOK
    PROVE  /\ Pruned \in [Tokens -> InviteRow \cup {NoInvite}]
           /\ \A t \in Tokens : Active(t) => OneUseLess(t) \in [Tokens -> InviteRow \cup {NoInvite}]
<1>1. Pruned \in [Tokens -> InviteRow \cup {NoInvite}]
  BY DEF TypeOK, Pruned
<1>2. ASSUME NEW t \in Tokens, Active(t)
      PROVE  OneUseLess(t) \in [Tokens -> InviteRow \cup {NoInvite}]
  <2>1. invite[t] \in InviteRow /\ invite[t].left /= 0
    BY <1>2 DEF TypeOK, Active
  <2>2. CASE invite[t].left = NoLimit
    BY <2>2 DEF OneUseLess, TypeOK
  <2>3. CASE invite[t].left /= NoLimit /\ invite[t].left = 1
    BY <2>3 DEF OneUseLess, TypeOK
  <2>4. CASE invite[t].left /= NoLimit /\ invite[t].left /= 1
    <3>1. invite[t].left - 1 \in Nat
      BY <2>1, <2>4 DEF InviteRow
    <3>2. [invite[t] EXCEPT !.left = invite[t].left - 1] \in InviteRow
      BY <2>1, <3>1 DEF InviteRow
    <3>3. OneUseLess(t) = [invite EXCEPT ![t].left = @ - 1]
      BY <2>4 DEF OneUseLess
    <3> QED BY <3>2, <3>3 DEF TypeOK
  <2> QED BY <2>2, <2>3, <2>4
<1> QED BY <1>1, <1>2

LEMMA TypeWithInvite ==
    ASSUME TypeOK, NEW a \in Accounts, NEW t \in Tokens, WithInvite(a, t)
    PROVE  TypeOK'
<1> USE DEF TypeOK, Roles
<1>1. ASSUME NEW limit \in UseLimits \cup {NoLimit}, NEW names \in SUBSET Accounts,
             CreateInvite(a, t, limit, names)
      PROVE  TypeOK'
  <2>1. [by |-> a, left |-> limit, names |-> names, expired |-> FALSE] \in InviteRow
    BY MembershipAssumption DEF InviteRow
  <2> QED BY <1>1, <2>1, InviteRowsKept DEF CreateInvite, serverVars, memberVars
<1>2. CASE UseInvite(a, t)
  BY <1>2, InviteRowsKept DEF UseInvite, MayUse, Enter, serverVars
<1>3. CASE DeleteInvite(a, t)
  BY <1>3 DEF DeleteInvite, serverVars, memberVars
<1>4. ASSUME NEW target \in Accounts, SendDmServerInvite(a, target, t) PROVE TypeOK'
  <2>1. [by |-> a, left |-> 1, names |-> {target}, expired |-> FALSE] \in InviteRow
    BY DEF InviteRow
  <2>2. [to |-> target, status |-> "Pending"] \in DmRow
    BY DEF DmRow
  <2> QED BY <1>4, <2>1, <2>2, InviteRowsKept DEF SendDmServerInvite, serverVars, memberVars
<1>5. CASE AcceptDmServerInvite(a, t)
  <2>1. dm' \in [Tokens -> DmRow \cup {NoInvite}]
    BY <1>5 DEF AcceptDmServerInvite, DmRow
  <2> QED BY <1>5, <2>1, InviteRowsKept DEF AcceptDmServerInvite, MayUse, Enter, serverVars
<1>6. CASE DeclineDmServerInvite(a, t)
  <2>1. dm' \in [Tokens -> DmRow \cup {NoInvite}]
    BY <1>6 DEF DeclineDmServerInvite, DmRow
  <2> QED BY <1>6, <2>1 DEF DeclineDmServerInvite, serverVars, memberVars
<1> QED BY <1>1, <1>2, <1>3, <1>4, <1>5, <1>6 DEF WithInvite

\* Every reducer keeps the shape of the rows.
LEMMA StepTypeOK == TypeOK /\ [Next]_membershipVars => TypeOK'
<1> SUFFICES ASSUME TypeOK, [Next]_membershipVars PROVE TypeOK'
  OBVIOUS
<1>1. ASSUME NEW a \in Accounts, TimeoutEnds(a) PROVE TypeOK'
  BY <1>1 DEF TimeoutEnds, TypeOK, serverVars, inviteVars
<1>2. ASSUME NEW t \in Tokens, InviteExpires(t) PROVE TypeOK'
  <2>1. invite[t] \in InviteRow
    BY <1>2 DEF InviteExpires, TypeOK
  <2>2. [invite[t] EXCEPT !.expired = TRUE] \in InviteRow
    BY <2>1 DEF InviteRow
  <2> QED BY <1>2, <2>2 DEF InviteExpires, TypeOK, serverVars, memberVars
<1>3. CASE AdminUnlistServer
  BY <1>3 DEF AdminUnlistServer, TypeOK, memberVars, inviteVars
<1>4. CASE CleanupExpiredInvites
  BY <1>4, InviteRowsKept DEF CleanupExpiredInvites, TypeOK, serverVars, memberVars
<1>5. CASE UNCHANGED membershipVars
  BY <1>5 DEF membershipVars, serverVars, memberVars, inviteVars, TypeOK
<1> QED BY <1>1, <1>2, <1>3, <1>4, <1>5, TypeByOne, TypeByOneOnAnother, TypeWithInvite DEF Next

\* The rows keep their shape for any accounts and tokens.
THEOREM TypeCorrect == Spec => []TypeOK
BY InitTypeOK, StepTypeOK, PTL DEF Spec

----------------------------------------------------------------------------
(* The seat of the owner, the empty space and the ban *)

LEMMA InitSeats == Init => Seats
BY MembershipAssumption
DEF Init, Seats, OwnerSeat, NothingOutlivesTheSpace, BannedStayOut, NoRequest

\* A step that leaves the server row's owner, the bans and the invites alone
\* keeps the invariant if no one is promoted to owner or demoted from it, and
\* nobody who is banned, and nobody at all without a space, gets a row.
LEMMA QuietStepKeepsSeats ==
    ASSUME TypeOK, Seats, TypeOK',
           owner' = owner, banned' = banned, UNCHANGED inviteVars,
           \A a \in Accounts : (role'[a] = "Owner") <=> (role[a] = "Owner"),
           \A a \in Accounts :
             role'[a] /= "none" => role[a] /= "none" \/ (owner /= NoAccount /\ a \notin banned),
           \A a \in Accounts :
             request'[a] /= "none" => request[a] /= "none" \/ (owner /= NoAccount /\ a \notin banned)
    PROVE  Seats'
<1>1. OwnerSeat'
  BY DEF Seats, OwnerSeat
<1>2. BannedStayOut'
  BY DEF Seats, BannedStayOut, TypeOK
<1>3. NothingOutlivesTheSpace'
  <2>1. SUFFICES ASSUME owner = NoAccount
                 PROVE  /\ role' = NoRequest /\ banned' = {} /\ request' = NoRequest
                        /\ invite' = NoInvites /\ dm' = NoInvites
    BY DEF NothingOutlivesTheSpace, NoRequest, NoInvites
  <2>2. /\ role = NoRequest /\ banned = {} /\ request = NoRequest
        /\ invite = NoInvites /\ dm = NoInvites
    BY <2>1 DEF Seats, NothingOutlivesTheSpace
  <2>3. \A a \in Accounts : role'[a] = "none" /\ request'[a] = "none"
    BY <2>1, <2>2 DEF NoRequest
  <2>4. role' = NoRequest /\ request' = NoRequest
    BY <2>3 DEF TypeOK, NoRequest
  <2> QED BY <2>2, <2>4 DEF inviteVars
<1> QED BY <1>1, <1>2, <1>3 DEF Seats

\* A step that only writes invites, of a space that exists.
LEMMA InviteStepKeepsSeats ==
    ASSUME TypeOK, Seats, owner /= NoAccount, owner' = owner,
           banned' = banned, request' = request,
           \/ role' = role
           \/ \E a \in Accounts : ~IsMember(a) /\ a \notin banned /\ Enter(a)
    PROVE  Seats'
BY DEF TypeOK, Seats, OwnerSeat, NothingOutlivesTheSpace, BannedStayOut, IsMember, Enter

LEMMA SeatsByOne ==
    ASSUME TypeOK, Seats, TypeOK', NEW a \in Accounts, ByOne(a)
    PROVE  Seats'
<1>1. CASE CreateServer(a)
  <2>1. role = NoRequest /\ banned = {} /\ request = NoRequest
    BY <1>1 DEF CreateServer, Seats, NothingOutlivesTheSpace
  <2>2. role' = [NoRequest EXCEPT ![a] = "Owner"] /\ owner' = a /\ banned' = {}
    BY <1>1, <2>1 DEF CreateServer
  <2>3. \A b \in Accounts : role'[b] = IF b = a THEN "Owner" ELSE "none"
    BY <2>2 DEF NoRequest
  <2> QED BY <2>2, <2>3, MembershipAssumption
          DEF Seats, OwnerSeat, NothingOutlivesTheSpace, BannedStayOut
<1>2. CASE DeleteServer(a)
  <2>1. /\ owner' = NoAccount /\ role' = NoRequest /\ banned' = {} /\ request' = NoRequest
        /\ invite' = NoInvites /\ dm' = NoInvites
    BY <1>2 DEF DeleteServer
  <2>2. \A b \in Accounts : role'[b] = "none"
    BY <2>1 DEF NoRequest
  <2> QED BY <2>1, <2>2, MembershipAssumption
          DEF Seats, OwnerSeat, NothingOutlivesTheSpace, BannedStayOut, NoRequest, NoInvites
<1>3. CASE LeaveServer(a)
  BY <1>3, QuietStepKeepsSeats DEF LeaveServer, Depart, serverVars, inviteVars, TypeOK, IsMember
<1>4. ASSUME NEW p \in {"ModeratorsOnly", "Everyone"}, SetServerInvitePolicy(a, p) PROVE Seats'
  BY <1>4, QuietStepKeepsSeats DEF SetServerInvitePolicy, memberVars, inviteVars
<1>5. ASSUME NEW listed \in BOOLEAN, SetServerDiscovery(a, listed) PROVE Seats'
  BY <1>5, QuietStepKeepsSeats DEF SetServerDiscovery, memberVars, inviteVars
<1>6. CASE JoinDiscoverableServer(a)
  BY <1>6, QuietStepKeepsSeats
  DEF JoinDiscoverableServer, Enter, IsMember, serverVars, inviteVars, TypeOK
<1>7. CASE RequestToJoin(a)
  BY <1>7, QuietStepKeepsSeats DEF RequestToJoin, serverVars, inviteVars, TypeOK
<1>8. CASE CancelJoinRequest(a)
  BY <1>8, QuietStepKeepsSeats DEF CancelJoinRequest, serverVars, inviteVars, TypeOK
<1> QED BY <1>1, <1>2, <1>3, <1>4, <1>5, <1>6, <1>7, <1>8 DEF ByOne

LEMMA SeatsByOneOnAnother ==
    ASSUME TypeOK, Seats, TypeOK', NEW a \in Accounts, NEW target \in Accounts,
           ByOneOnAnother(a, target)
    PROVE  Seats'
<1> USE DEF TypeOK
\* The target of a removal is not the owner: only the owner outranks staff,
\* and nobody may be their own target.
<1>0. CanRemove(a, target) => role[target] /= "Owner" /\ owner /= NoAccount
  BY MembershipAssumption
  DEF CanRemove, Outranks, IsStaff, IsMember, Staff, Seats, OwnerSeat,
      NothingOutlivesTheSpace, NoRequest
<1>1. CASE KickMember(a, target)
  BY <1>0, <1>1, QuietStepKeepsSeats DEF KickMember, Depart, serverVars, inviteVars
<1>2. CASE BanMember(a, target)
  <2>1. /\ owner' = owner /\ owner /= NoAccount /\ banned' = banned \cup {target}
        /\ \A b \in Accounts : role'[b] = IF b = target THEN "none" ELSE role[b]
        /\ \A b \in Accounts : request'[b] = IF b = target THEN "none" ELSE request[b]
    BY <1>0, <1>2 DEF BanMember, Depart, serverVars
  <2>2. OwnerSeat'
    BY <1>0, <1>2, <2>1 DEF BanMember, Seats, OwnerSeat
  <2> QED BY <2>1, <2>2 DEF Seats, NothingOutlivesTheSpace, BannedStayOut
<1>3. CASE UnbanMember(a, target)
  <2>1. owner /= NoAccount
    BY <1>3 DEF UnbanMember, IsStaff, Staff, Seats, NothingOutlivesTheSpace, NoRequest
  <2> QED BY <1>3, <2>1 DEF UnbanMember, serverVars, Seats, OwnerSeat,
                            NothingOutlivesTheSpace, BannedStayOut
<1>4. CASE TimeoutMember(a, target)
  BY <1>4, QuietStepKeepsSeats DEF TimeoutMember, serverVars, inviteVars
<1>5. CASE RemoveTimeout(a, target)
  BY <1>5, QuietStepKeepsSeats DEF RemoveTimeout, serverVars, inviteVars
<1>6. CASE TransferOwnership(a, target)
  <2>1. /\ owner = a /\ owner' = target /\ banned' = banned /\ request' = request
        /\ role[target] /= "none" /\ role[a] /= "none" /\ target /= a
    BY <1>6 DEF TransferOwnership, IsMember, Seats, OwnerSeat
  <2>2. \A b \in Accounts : role'[b] = IF b = a THEN "Moderator"
                                      ELSE IF b = target THEN "Owner" ELSE role[b]
    BY <1>6 DEF TransferOwnership
  <2>3. OwnerSeat'
    BY <2>1, <2>2 DEF Seats, OwnerSeat
  <2> QED BY <2>1, <2>2, <2>3, MembershipAssumption
          DEF Seats, NothingOutlivesTheSpace, BannedStayOut
<1>7. ASSUME NEW new \in {"Member", "Moderator"}, SetMemberRole(a, target, new) PROVE Seats'
  BY <1>7, QuietStepKeepsSeats DEF SetMemberRole, IsMember, serverVars, inviteVars
<1>8. CASE ApproveJoinRequest(a, target)
  <2>1. owner /= NoAccount /\ target \notin banned
    BY <1>8 DEF ApproveJoinRequest, IsStaff, Staff, Seats, NothingOutlivesTheSpace, NoRequest
  <2> QED BY <1>8, <2>1, QuietStepKeepsSeats
          DEF ApproveJoinRequest, Enter, IsMember, serverVars, inviteVars
<1>9. CASE DeclineJoinRequest(a, target)
  BY <1>9, QuietStepKeepsSeats DEF DeclineJoinRequest, serverVars, inviteVars
<1> QED BY <1>1, <1>2, <1>3, <1>4, <1>5, <1>6, <1>7, <1>8, <1>9 DEF ByOneOnAnother

LEMMA SeatsWithInvite ==
    ASSUME TypeOK, Seats, NEW a \in Accounts, NEW t \in Tokens, WithInvite(a, t)
    PROVE  Seats'
<1>0. invite[t] /= NoInvite \/ dm[t] /= NoInvite \/ IsMember(a) => owner /= NoAccount
  BY DEF Seats, NothingOutlivesTheSpace, NoInvites, NoRequest, IsMember
<1>1. ASSUME NEW limit \in UseLimits \cup {NoLimit}, NEW names \in SUBSET Accounts,
             CreateInvite(a, t, limit, names)
      PROVE  Seats'
  BY <1>1, InviteStepKeepsSeats DEF CreateInvite, MayInvite, serverVars, memberVars
<1>2. CASE UseInvite(a, t)
  BY <1>0, <1>2, InviteStepKeepsSeats DEF UseInvite, MayUse, MayInvite, serverVars
<1>3. CASE DeleteInvite(a, t)
  BY <1>0, <1>3, InviteStepKeepsSeats DEF DeleteInvite, serverVars, memberVars
<1>4. ASSUME NEW target \in Accounts, SendDmServerInvite(a, target, t) PROVE Seats'
  BY <1>4, InviteStepKeepsSeats DEF SendDmServerInvite, MayInvite, serverVars, memberVars
<1>5. CASE AcceptDmServerInvite(a, t)
  BY <1>0, <1>5, InviteStepKeepsSeats DEF AcceptDmServerInvite, MayUse, MayInvite, serverVars
<1>6. CASE DeclineDmServerInvite(a, t)
  <2>1. owner /= NoAccount
    BY <1>6, NoRowAssumption
    DEF DeclineDmServerInvite, DmRow, Seats, NothingOutlivesTheSpace, NoInvites
  <2> QED BY <1>6, <2>1, InviteStepKeepsSeats DEF DeclineDmServerInvite, serverVars, memberVars
<1> QED BY <1>1, <1>2, <1>3, <1>4, <1>5, <1>6 DEF WithInvite

\* Every step keeps the invariant.
LEMMA StepSeats == TypeOK /\ Seats /\ [Next]_membershipVars => Seats'
<1> SUFFICES ASSUME TypeOK, Seats, [Next]_membershipVars PROVE Seats'
  OBVIOUS
<1>0. TypeOK'
  BY StepTypeOK
<1>1. ASSUME NEW a \in Accounts, TimeoutEnds(a) PROVE Seats'
  BY <1>0, <1>1, QuietStepKeepsSeats DEF TimeoutEnds, serverVars, inviteVars
<1>2. ASSUME NEW t \in Tokens, InviteExpires(t) PROVE Seats'
  <2>1. owner /= NoAccount
    BY <1>2 DEF InviteExpires, Seats, NothingOutlivesTheSpace, NoInvites
  <2> QED BY <1>2, <2>1, InviteStepKeepsSeats DEF InviteExpires, serverVars, memberVars
<1>3. CASE AdminUnlistServer
  BY <1>0, <1>3, QuietStepKeepsSeats DEF AdminUnlistServer, memberVars, inviteVars
<1>4. CASE CleanupExpiredInvites
  <2>1. CASE owner /= NoAccount
    BY <1>4, <2>1, InviteStepKeepsSeats DEF CleanupExpiredInvites, serverVars, memberVars
  <2>2. CASE owner = NoAccount
    <3>1. invite = NoInvites /\ dm = NoInvites
      BY <2>2 DEF Seats, NothingOutlivesTheSpace
    <3>2. invite' = NoInvites /\ dm' = NoInvites
      BY <1>4, <3>1 DEF CleanupExpiredInvites, Pruned, Active, NoInvites
    <3> QED BY <1>0, <1>4, <3>1, <3>2, QuietStepKeepsSeats
            DEF CleanupExpiredInvites, serverVars, memberVars, inviteVars
  <2> QED BY <2>1, <2>2
<1>5. CASE UNCHANGED membershipVars
  BY <1>0, <1>5, QuietStepKeepsSeats DEF membershipVars, serverVars, memberVars, inviteVars
<1> QED BY <1>0, <1>1, <1>2, <1>3, <1>4, <1>5, SeatsByOne, SeatsByOneOnAnother, SeatsWithInvite
        DEF Next

LEMMA SeatsAlways == Spec => [](TypeOK /\ Seats)
<1>1. Init => TypeOK /\ Seats
  BY InitTypeOK, InitSeats
<1>2. TypeOK /\ Seats /\ [Next]_membershipVars => TypeOK' /\ Seats'
  BY StepTypeOK, StepSeats
<1> QED BY <1>1, <1>2, PTL DEF Spec

\* member_management.rs: whatever is transferred, promoted, kicked or banned,
\* a space has exactly the owner that its server row names.
THEOREM AlwaysOneOwner == Spec => []OneOwner
<1>1. TypeOK /\ Seats => OneOwner  BY SeatIsOneOwner DEF Seats
<1> QED BY <1>1, SeatsAlways, PTL

\* delete_server: none of the tables keeps a row of a deleted space.
THEOREM NothingEverOutlives == Spec => []NothingOutlivesTheSpace
<1>1. TypeOK /\ Seats => NothingOutlivesTheSpace  BY DEF Seats
<1> QED BY <1>1, SeatsAlways, PTL

\* ban_member: no path leads a banned account back in.
THEOREM BansHold == Spec => []BannedStayOut
<1>1. TypeOK /\ Seats => BannedStayOut  BY DEF Seats
<1> QED BY <1>1, SeatsAlways, PTL

-----------------------------------------------------------------------------
(* Voice *)

\* The membership reducers, and the reducers that do not touch the rows of
\* SpaceMembership, are its steps.
LEMMA MembershipStep == [VNext]_vars => [Next]_membershipVars
<1>. SUFFICES ASSUME [VNext]_vars PROVE [Next]_membershipVars
  OBVIOUS
<1>1. CASE \E k \in Connections : ClientDisconnected(k) \/ \E a \in Accounts : ClientConnected(k, a)
  BY <1>1 DEF ClientDisconnected, ClientConnected
<1>2. CASE \E c \in Channels, a \in Accounts, k \in Claims :
             JoinVoiceChannel(c, a, k) \/ LeaveVoiceChannel(c, a, k)
  BY <1>2 DEF JoinVoiceChannel, LeaveVoiceChannel
<1>3. CASE \E a \in Accounts, k \in Claims :
             \/ TouchPresence(a, k) \/ SetPresenceOffline(a, k)
             \/ \E isTyping \in BOOLEAN : SetTypingState(a, k, isTyping)
  BY <1>3 DEF TouchPresence, SetPresenceOffline, SetTypingState
<1>4. CASE \E a \in Accounts, c \in Channels, kind \in {"open", "staff"} :
             CreateChannel(a, c, kind) \/ UpdateChannel(a, c, kind)
  BY <1>4 DEF CreateChannel, UpdateChannel
<1>5. CASE \E a \in Accounts, gone \in SUBSET Channels : DeleteChannels(a, gone)
  BY <1>5 DEF DeleteChannels
<1>6. CASE \E a \in Accounts, c \in Channels : CreateSpace(a, c)
  BY <1>6 DEF CreateSpace, Next, ByOne
<1>7. ASSUME NEW a \in Accounts, DeleteSpace(a) PROVE Next
  BY <1>7 DEF DeleteSpace, Next, ByOne
<1>8. ASSUME NEW a \in Accounts, RemovedOrSilenced(a) PROVE Next
  BY <1>8 DEF RemovedOrSilenced, Removal, Next, ByOne, ByOneOnAnother
<1>9. CASE MembershipOnly
  BY <1>9 DEF MembershipOnly, Next, ByOne, ByOneOnAnother
<1>10. CASE UNCHANGED vars
  BY <1>10 DEF vars
<1>. QED
  BY <1>1, <1>2, <1>3, <1>4, <1>5, <1>6, <1>7, <1>8, <1>9, <1>10 DEF VNext

\* The space with voice is a space: what SpaceMembership promises, it keeps.
THEOREM VoiceImplementsMembership == VSpec => Spec
<1>1. VInit => Init
  BY DEF VInit
<1>. QED
  BY <1>1, MembershipStep, PTL DEF VSpec, Spec

\* What the reducers that leave voice alone do to the members: nobody loses a
\* row, nobody is silenced.
LEMMA MembershipOnlyKeepsMembers ==
  ASSUME TypeOK, MembershipOnly
  PROVE  /\ silenced' \subseteq silenced
         /\ \A a \in Accounts : IsMember(a) => IsMember(a)'
<1>. USE DEF TypeOK, IsMember
<1>1. ASSUME NEW a \in Accounts, NEW target \in Accounts,
             SetMemberRole(a, target, "Member") \/ SetMemberRole(a, target, "Moderator")
      PROVE  silenced' = silenced /\ \A b \in Accounts : IsMember(b) => IsMember(b)'
  BY <1>1 DEF SetMemberRole
<1>2. ASSUME NEW a \in Accounts, NEW target \in Accounts, TransferOwnership(a, target)
      PROVE  silenced' = silenced /\ \A b \in Accounts : IsMember(b) => IsMember(b)'
  BY <1>2 DEF TransferOwnership
<1>3. ASSUME NEW a \in Accounts, NEW target \in Accounts,
             UnbanMember(a, target) \/ RemoveTimeout(a, target)
             \/ ApproveJoinRequest(a, target) \/ DeclineJoinRequest(a, target)
      PROVE  silenced' \subseteq silenced /\ \A b \in Accounts : IsMember(b) => IsMember(b)'
  BY <1>3 DEF UnbanMember, RemoveTimeout, ApproveJoinRequest, DeclineJoinRequest, Enter
<1>4. ASSUME NEW a \in Accounts,
             \/ \E p \in {"ModeratorsOnly", "Everyone"} : SetServerInvitePolicy(a, p)
             \/ \E listed \in BOOLEAN : SetServerDiscovery(a, listed)
             \/ JoinDiscoverableServer(a) \/ RequestToJoin(a) \/ CancelJoinRequest(a)
             \/ TimeoutEnds(a)
      PROVE  silenced' \subseteq silenced /\ \A b \in Accounts : IsMember(b) => IsMember(b)'
  BY <1>4 DEF SetServerInvitePolicy, SetServerDiscovery, JoinDiscoverableServer, RequestToJoin,
              CancelJoinRequest, TimeoutEnds, Enter, memberVars
<1>5. ASSUME NEW a \in Accounts, NEW t \in Tokens, WithInvite(a, t)
      PROVE  silenced' = silenced /\ \A b \in Accounts : IsMember(b) => IsMember(b)'
  BY <1>5 DEF WithInvite, CreateInvite, UseInvite, DeleteInvite, SendDmServerInvite,
              AcceptDmServerInvite, DeclineDmServerInvite, Enter, memberVars
<1>6. ASSUME (\E t \in Tokens : InviteExpires(t)) \/ AdminUnlistServer \/ CleanupExpiredInvites
      PROVE  silenced' = silenced /\ \A b \in Accounts : IsMember(b) => IsMember(b)'
  BY <1>6 DEF InviteExpires, AdminUnlistServer, CleanupExpiredInvites, memberVars
<1>. QED
  BY <1>1, <1>2, <1>3, <1>4, <1>5, <1>6 DEF MembershipOnly

\* Who leaves, is kicked or banned, or is timed out: only that account's row goes
\* or is silenced.
LEMMA RemovalTakesOne ==
  ASSUME TypeOK, NEW a \in Accounts, Removal(a)
  PROVE  /\ silenced' \subseteq silenced \cup {a}
         /\ \A b \in Accounts \ {a} : IsMember(b) => IsMember(b)'
<1>. USE DEF TypeOK, IsMember, Depart
<1>1. CASE LeaveServer(a)
  BY <1>1 DEF LeaveServer
<1>2. ASSUME NEW by \in Accounts, KickMember(by, a) \/ BanMember(by, a) \/ TimeoutMember(by, a)
      PROVE  /\ silenced' \subseteq silenced \cup {a}
             /\ \A b \in Accounts \ {a} : IsMember(b) => IsMember(b)'
  BY <1>2 DEF KickMember, BanMember, TimeoutMember
<1>. QED
  BY <1>1, <1>2 DEF Removal

----------------------------------------------------------------------------
(* Type correctness *)

LEMMA InitVoice == VInit => VoiceTypeOK /\ VoiceIsForMembers /\ NoGhosts
<1>. SUFFICES ASSUME VInit PROVE VoiceTypeOK /\ VoiceIsForMembers /\ NoGhosts
  OBVIOUS
<1>1. TypeOK
  BY InitTypeOK DEF VInit
<1>2. \A c \in Channels, a \in Accounts : voice[c][a] = NoRow
  BY DEF VInit, Quiet
<1>3. voice \in [Channels -> [Accounts -> Claims \cup {NoRow}]]
  BY DEF VInit, Quiet
<1>. QED
  BY <1>1, <1>2, <1>3, VoiceAssumption DEF VInit, VoiceTypeOK, VoiceIsForMembers, InVoice, NoGhosts

LEMMA StepVoiceTypeOK == VoiceTypeOK /\ [VNext]_vars => VoiceTypeOK'
<1>. SUFFICES ASSUME VoiceTypeOK, [VNext]_vars PROVE VoiceTypeOK'
  OBVIOUS
<1>0. TypeOK'
  BY MembershipStep, StepTypeOK DEF VoiceTypeOK
<1>. USE <1>0 DEF VoiceTypeOK
<1>1. ASSUME NEW k \in Connections, ClientDisconnected(k) PROVE VoiceTypeOK'
  <2>1. voice' \in [Channels -> [Accounts -> Claims \cup {NoRow}]]
    BY <1>1 DEF ClientDisconnected
  <2>. QED
    BY <1>1, <2>1 DEF ClientDisconnected
<1>2. ASSUME NEW k \in Connections, NEW a \in Accounts, ClientConnected(k, a) PROVE VoiceTypeOK'
  BY <1>2 DEF ClientConnected, textVars
<1>3. ASSUME NEW c \in Channels, NEW a \in Accounts, NEW k \in Claims, JoinVoiceChannel(c, a, k)
      PROVE  VoiceTypeOK'
  BY <1>3 DEF JoinVoiceChannel, textVars
<1>4. ASSUME NEW c \in Channels, NEW a \in Accounts, NEW k \in Claims, LeaveVoiceChannel(c, a, k)
      PROVE  VoiceTypeOK'
  BY <1>4 DEF LeaveVoiceChannel, textVars
<1>5. ASSUME NEW a \in Accounts, NEW k \in Claims,
             \/ TouchPresence(a, k) \/ SetPresenceOffline(a, k)
             \/ \E isTyping \in BOOLEAN : SetTypingState(a, k, isTyping)
      PROVE  VoiceTypeOK'
  BY <1>5 DEF TouchPresence, SetPresenceOffline, SetTypingState
<1>6. ASSUME NEW a \in Accounts, NEW c \in Channels, NEW kind \in {"open", "staff"},
             CreateChannel(a, c, kind) \/ UpdateChannel(a, c, kind)
      PROVE  VoiceTypeOK'
  BY <1>6 DEF CreateChannel, UpdateChannel, textVars
<1>7. ASSUME NEW a \in Accounts, NEW gone \in SUBSET Channels, DeleteChannels(a, gone)
      PROVE  VoiceTypeOK'
  BY <1>7 DEF DeleteChannels, textVars, Quiet
<1>8. ASSUME NEW a \in Accounts, NEW c \in Channels, CreateSpace(a, c) PROVE VoiceTypeOK'
  BY <1>8 DEF CreateSpace, textVars
<1>9. ASSUME NEW a \in Accounts, DeleteSpace(a) PROVE VoiceTypeOK'
  BY <1>9 DEF DeleteSpace, textVars, Quiet
<1>10. ASSUME NEW a \in Accounts, RemovedOrSilenced(a) PROVE VoiceTypeOK'
  BY <1>10 DEF RemovedOrSilenced, Silence, textVars
<1>11. CASE MembershipOnly
  BY <1>11 DEF MembershipOnly, voiceVars, textVars
<1>12. CASE UNCHANGED vars
  BY <1>12 DEF vars, voiceVars, textVars
<1>. QED
  BY <1>1, <1>2, <1>3, <1>4, <1>5, <1>6, <1>7, <1>8, <1>9, <1>10, <1>11, <1>12 DEF VNext

\* The rows of the space with voice keep their shape.
THEOREM VoiceTypeCorrect == VSpec => []VoiceTypeOK
<1>1. VInit => VoiceTypeOK
  BY InitVoice
<1>. QED
  BY <1>1, StepVoiceTypeOK, PTL DEF VSpec

----------------------------------------------------------------------------
(* Voice is for members *)

\* A step that takes rows away at most, and no channel, membership or voice that
\* a row is left in.
LEMMA FewerParticipants ==
  ASSUME VoiceTypeOK, VoiceIsForMembers,
         \A c \in Channels, a \in Accounts : voice'[c][a] # NoRow =>
           /\ voice[c][a] # NoRow
           /\ IsMember(a) => IsMember(a)'
           /\ a \in silenced' => a \in silenced
           /\ chan'[c] = "none" => chan[c] = "none"
  PROVE  VoiceIsForMembers'
BY DEF VoiceIsForMembers, InVoice

LEMMA StepVoiceIsForMembers == VoiceTypeOK /\ VoiceIsForMembers /\ [VNext]_vars => VoiceIsForMembers'
<1>. SUFFICES ASSUME VoiceTypeOK, VoiceIsForMembers, [VNext]_vars PROVE VoiceIsForMembers'
  OBVIOUS
<1>1. ASSUME NEW k \in Connections, ClientDisconnected(k) PROVE VoiceIsForMembers'
  BY <1>1, FewerParticipants DEF ClientDisconnected, membershipVars, memberVars, IsMember
<1>2. ASSUME NEW k \in Connections, NEW a \in Accounts, ClientConnected(k, a) PROVE VoiceIsForMembers'
  BY <1>2, FewerParticipants DEF ClientConnected, membershipVars, memberVars, IsMember
<1>3. ASSUME NEW c \in Channels, NEW a \in Accounts, NEW k \in Claims, JoinVoiceChannel(c, a, k)
      PROVE  VoiceIsForMembers'
  <2>1. \A d \in Channels, b \in Accounts : voice'[d][b] # NoRow =>
          voice[d][b] # NoRow \/ (d = c /\ b = a)
    BY <1>3 DEF JoinVoiceChannel, VoiceTypeOK
  <2>2. IsMember(a) /\ a \notin silenced /\ chan[c] # "none"
    BY <1>3 DEF JoinVoiceChannel, Admits
  <2>. QED
    BY <1>3, <2>1, <2>2
    DEF JoinVoiceChannel, VoiceIsForMembers, InVoice, membershipVars, memberVars, IsMember
<1>4. ASSUME NEW c \in Channels, NEW a \in Accounts, NEW k \in Claims, LeaveVoiceChannel(c, a, k)
      PROVE  VoiceIsForMembers'
  <2>1. \A d \in Channels, b \in Accounts : voice'[d][b] # NoRow => voice[d][b] # NoRow
    BY <1>4 DEF LeaveVoiceChannel, VoiceTypeOK
  <2>. QED
    BY <1>4, <2>1, FewerParticipants DEF LeaveVoiceChannel, membershipVars, memberVars, IsMember
<1>5. ASSUME NEW a \in Accounts, NEW k \in Claims,
             \/ TouchPresence(a, k) \/ SetPresenceOffline(a, k)
             \/ \E isTyping \in BOOLEAN : SetTypingState(a, k, isTyping)
      PROVE  VoiceIsForMembers'
  BY <1>5, FewerParticipants
  DEF TouchPresence, SetPresenceOffline, SetTypingState, membershipVars, memberVars, IsMember
<1>6. ASSUME NEW a \in Accounts, NEW c \in Channels, NEW kind \in {"open", "staff"},
             CreateChannel(a, c, kind) \/ UpdateChannel(a, c, kind)
      PROVE  VoiceIsForMembers'
  <2>1. \A d \in Channels : chan'[d] = "none" => chan[d] = "none"
    BY <1>6 DEF CreateChannel, UpdateChannel, VoiceTypeOK
  <2>. QED
    BY <1>6, <2>1, FewerParticipants
    DEF CreateChannel, UpdateChannel, membershipVars, memberVars, IsMember
<1>7. ASSUME NEW a \in Accounts, NEW gone \in SUBSET Channels, DeleteChannels(a, gone)
      PROVE  VoiceIsForMembers'
  BY <1>7, FewerParticipants
  DEF DeleteChannels, Quiet, membershipVars, memberVars, IsMember
<1>8. ASSUME NEW a \in Accounts, NEW c \in Channels, CreateSpace(a, c) PROVE VoiceIsForMembers'
  <2>1. \A d \in Channels : chan'[d] = "none" => chan[d] = "none"
    BY <1>8 DEF CreateSpace, VoiceTypeOK
  <2>2. silenced' = silenced /\ \A b \in Accounts : IsMember(b) => IsMember(b)'
    BY <1>8 DEF CreateSpace, CreateServer, IsMember, VoiceTypeOK, TypeOK
  <2>. QED
    BY <1>8, <2>1, <2>2, FewerParticipants DEF CreateSpace
<1>9. ASSUME NEW a \in Accounts, DeleteSpace(a) PROVE VoiceIsForMembers'
  BY <1>9 DEF DeleteSpace, Quiet, VoiceIsForMembers, InVoice
<1>10. ASSUME NEW a \in Accounts, RemovedOrSilenced(a) PROVE VoiceIsForMembers'
  <2>1. \A d \in Channels, b \in Accounts : voice'[d][b] = IF b = a THEN NoRow ELSE voice[d][b]
    BY <1>10 DEF RemovedOrSilenced, Silence, VoiceTypeOK
  <2>2. /\ silenced' \subseteq silenced \cup {a}
        /\ \A b \in Accounts \ {a} : IsMember(b) => IsMember(b)'
    BY <1>10, RemovalTakesOne DEF RemovedOrSilenced, VoiceTypeOK
  <2>. QED
    BY <1>10, <2>1, <2>2, FewerParticipants DEF RemovedOrSilenced
<1>11. CASE MembershipOnly
  <2>1. chan' = chan /\ voice' = voice
    BY <1>11 DEF MembershipOnly, voiceVars
  <2>. QED
    BY <1>11, <2>1, MembershipOnlyKeepsMembers, FewerParticipants DEF VoiceTypeOK
<1>12. CASE UNCHANGED vars
  BY <1>12, FewerParticipants DEF vars, voiceVars, membershipVars, memberVars, IsMember
<1>. QED
  BY <1>1, <1>2, <1>3, <1>4, <1>5, <1>6, <1>7, <1>8, <1>9, <1>10, <1>11, <1>12 DEF VNext

\* helpers.rs:383: whoever leaves, is kicked, banned or timed out, and whichever
\* channel goes, no voice row is left that has no right to be there.
THEOREM VoiceStaysForMembers == VSpec => []VoiceIsForMembers
<1>1. VInit => VoiceTypeOK /\ VoiceIsForMembers
  BY InitVoice
<1>. QED
  BY <1>1, StepVoiceTypeOK, StepVoiceIsForMembers, PTL DEF VSpec

----------------------------------------------------------------------------
(* No ghosts *)

\* A step that changes no socket and adds no row.
LEMMA FewerRows ==
  ASSUME NoGhosts, live' = live,
         \A c \in Channels, a \in Accounts : voice'[c][a] \in {voice[c][a], NoRow}
  PROVE  NoGhosts'
BY VoiceAssumption DEF NoGhosts

LEMMA StepNoGhosts == VoiceTypeOK /\ NoGhosts /\ [VNext]_vars => NoGhosts'
<1>. SUFFICES ASSUME VoiceTypeOK, NoGhosts, [VNext]_vars PROVE NoGhosts'
  OBVIOUS
<1>1. ASSUME NEW k \in Connections, ClientDisconnected(k) PROVE NoGhosts'
  <2>. SUFFICES ASSUME NEW c \in Channels, NEW a \in Accounts, voice'[c][a] \in Connections
                PROVE  live'[voice'[c][a]] = a
    BY DEF NoGhosts
  <2>1. voice'[c][a] = voice[c][a] /\ ~(a = live[k] /\ voice[c][a] \in {k, NoConnection})
    BY <1>1, VoiceAssumption DEF ClientDisconnected
  <2>2. live[voice[c][a]] = a /\ voice[c][a] # k
    BY <2>1 DEF NoGhosts
  <2>. QED
    BY <1>1, <2>1, <2>2 DEF ClientDisconnected, VoiceTypeOK
<1>2. ASSUME NEW k \in Connections, NEW a \in Accounts, ClientConnected(k, a) PROVE NoGhosts'
  <2>. SUFFICES ASSUME NEW c \in Channels, NEW b \in Accounts, voice'[c][b] \in Connections
                PROVE  live'[voice'[c][b]] = b
    BY DEF NoGhosts
  <2>1. voice'[c][b] = voice[c][b] /\ live[voice[c][b]] = b /\ voice[c][b] # k
    BY <1>2, MembershipAssumption DEF ClientConnected, NoGhosts
  <2>. QED
    BY <1>2, <2>1 DEF ClientConnected, VoiceTypeOK
<1>3. ASSUME NEW c \in Channels, NEW a \in Accounts, NEW k \in Claims, JoinVoiceChannel(c, a, k)
      PROVE  NoGhosts'
  <2>1. \A d \in Channels, b \in Accounts :
          voice'[d][b] = IF b # a THEN voice[d][b] ELSE IF d = c THEN k ELSE NoRow
    BY <1>3 DEF JoinVoiceChannel, VoiceTypeOK
  <2>2. live' = live /\ (k \in Connections => live[k] = a)
    BY <1>3, VoiceAssumption DEF JoinVoiceChannel, CallsOver
  <2>. QED
    BY <2>1, <2>2, VoiceAssumption DEF NoGhosts
<1>4. ASSUME NEW c \in Channels, NEW a \in Accounts, NEW k \in Claims, LeaveVoiceChannel(c, a, k)
      PROVE  NoGhosts'
  <2>1. \A d \in Channels, b \in Accounts : voice'[d][b] \in {voice[d][b], NoRow}
    BY <1>4 DEF LeaveVoiceChannel, VoiceTypeOK
  <2>. QED
    BY <1>4, <2>1, FewerRows DEF LeaveVoiceChannel
<1>5. ASSUME NEW a \in Accounts, NEW k \in Claims,
             \/ TouchPresence(a, k) \/ SetPresenceOffline(a, k)
             \/ \E isTyping \in BOOLEAN : SetTypingState(a, k, isTyping)
      PROVE  NoGhosts'
  BY <1>5, FewerRows DEF TouchPresence, SetPresenceOffline, SetTypingState
<1>6. ASSUME NEW a \in Accounts, NEW c \in Channels, NEW kind \in {"open", "staff"},
             CreateChannel(a, c, kind) \/ UpdateChannel(a, c, kind)
      PROVE  NoGhosts'
  BY <1>6, FewerRows DEF CreateChannel, UpdateChannel
<1>7. ASSUME NEW a \in Accounts, NEW gone \in SUBSET Channels, DeleteChannels(a, gone)
      PROVE  NoGhosts'
  BY <1>7, FewerRows DEF DeleteChannels, Quiet
<1>8. ASSUME NEW a \in Accounts, NEW c \in Channels, CreateSpace(a, c) PROVE NoGhosts'
  BY <1>8, FewerRows DEF CreateSpace
<1>9. ASSUME NEW a \in Accounts, DeleteSpace(a) PROVE NoGhosts'
  BY <1>9, FewerRows DEF DeleteSpace, Quiet
<1>10. ASSUME NEW a \in Accounts, RemovedOrSilenced(a) PROVE NoGhosts'
  <2>1. \A d \in Channels, b \in Accounts : voice'[d][b] \in {voice[d][b], NoRow}
    BY <1>10 DEF RemovedOrSilenced, Silence, VoiceTypeOK
  <2>. QED
    BY <1>10, <2>1, FewerRows DEF RemovedOrSilenced
<1>11. CASE MembershipOnly
  BY <1>11, FewerRows DEF MembershipOnly, voiceVars
<1>12. CASE UNCHANGED vars
  BY <1>12, FewerRows DEF vars, voiceVars
<1>. QED
  BY <1>1, <1>2, <1>3, <1>4, <1>5, <1>6, <1>7, <1>8, <1>9, <1>10, <1>11, <1>12 DEF VNext

\* schema.rs:376-378: a voice row never outlives the connection it is bound to.
THEOREM NeverGhosts == VSpec => []NoGhosts
<1>1. VInit => VoiceTypeOK /\ NoGhosts
  BY InitVoice
<1>. QED
  BY <1>1, StepVoiceTypeOK, StepNoGhosts, PTL DEF VSpec

----------------------------------------------------------------------------
(* The last socket *)

\* client_disconnected: when the last socket of an account closes, nothing of it
\* stays behind, whichever devices claimed its rows.  The rows of other sockets
\* that the handler spares cannot be there: NoGhosts.
THEOREM LastSocketAlwaysTakesAll == VSpec => LastSocketTakesAll
<1>1. VInit => VoiceTypeOK /\ NoGhosts
  BY InitVoice
<1>2. VoiceTypeOK /\ NoGhosts /\ [VNext]_vars =>
        [\A k \in Connections :
           live[k] /= NoAccount /\ live'[k] = NoAccount /\ LastSocket(k)
           => /\ live[k] \notin online' \cup typing'
              /\ \A c \in Channels : voice'[c][live[k]] = NoRow]_vars
  <2>. SUFFICES ASSUME VoiceTypeOK, NoGhosts, VNext, NEW k \in Connections,
                       live[k] /= NoAccount, live'[k] = NoAccount, LastSocket(k)
                PROVE  /\ live[k] \notin online' \cup typing'
                       /\ \A c \in Channels : voice'[c][live[k]] = NoRow
    OBVIOUS
  <2>1. ClientDisconnected(k)
    <3>1. live' # live
      OBVIOUS
    <3>2. \E j \in Connections : ClientDisconnected(j) \/ \E a \in Accounts : ClientConnected(j, a)
      BY <3>1 DEF VNext, JoinVoiceChannel, LeaveVoiceChannel, TouchPresence, SetPresenceOffline,
                  SetTypingState, CreateChannel, UpdateChannel, DeleteChannels, CreateSpace,
                  DeleteSpace, RemovedOrSilenced, MembershipOnly, voiceVars
    <3>3. PICK j \in Connections : ClientDisconnected(j) \/ \E a \in Accounts : ClientConnected(j, a)
      BY <3>2
    <3>4. j = k /\ ~ \E a \in Accounts : ClientConnected(j, a)
      BY <3>3, MembershipAssumption DEF ClientDisconnected, ClientConnected, VoiceTypeOK
    <3>. QED
      BY <3>3, <3>4
  <2>2. ASSUME NEW c \in Channels PROVE voice'[c][live[k]] = NoRow
    <3>1. live[k] \in Accounts
      BY DEF VoiceTypeOK
    <3>2. voice[c][live[k]] \in {k, NoConnection, NoRow}
      BY <3>1 DEF VoiceTypeOK, Claims, NoGhosts, LastSocket
    <3>. QED
      BY <2>1, <3>1, <3>2 DEF ClientDisconnected
  <2>. QED
    BY <2>1, <2>2 DEF ClientDisconnected
<1>. QED
  BY <1>1, <1>2, StepVoiceTypeOK, StepNoGhosts, PTL DEF VSpec, LastSocketTakesAll

-----------------------------------------------------------------------------
(* The screens of one member *)

\* What a call that is granted does is a step of the space.
LEMMA ExecutedIsAStep ==
  ASSUME NEW c \in Calls, viewer \in Accounts, Executes(c)
  PROVE  Next
<1>. USE DEF Executes, Next
<1>1. CASE c.op \in TokenOps
  <2>1. c.on \in Tokens
    BY <1>1 DEF Calls, AccountOps, TokenOps, MemberOps
  <2>. QED
    BY <1>1, <2>1 DEF TokenOps, MemberOps, WithInvite
<1>2. CASE c.op \in AccountOps
  <2>1. c.on \in Accounts
    BY <1>2 DEF Calls, AccountOps, TokenOps, MemberOps
  <2>2. CASE c.op \in MemberOps \cup {"untimeout", "unban", "approve", "decline"}
    BY <2>1, <2>2 DEF MemberOps, ByOneOnAnother
  <2>3. CASE c.op \in {"Everyone", "ModeratorsOnly", "list", "unlist", "delete", "leave",
                       "join", "request", "cancel", "takeDown"}
    BY <2>3 DEF ByOne
  <2>4. CASE c.op = "link"
    <3>1. PICK t \in Tokens, limit \in UseLimits \cup {NoLimit} : CreateInvite(viewer, t, limit, {})
      BY <2>4
    <3>. QED
      BY <3>1 DEF WithInvite
  <2>5. CASE c.op = "invite"
    BY <2>1, <2>5 DEF WithInvite
  <2>. QED
    BY <1>2, <2>2, <2>3, <2>4, <2>5 DEF AccountOps
<1>. QED
  BY <1>1, <1>2 DEF Calls

LEMMA PanelStepIsAStep ==
  ASSUME PanelTypeOK, [PanelNext]_spacePanelVars
  PROVE  [Next]_membershipVars
<1>1. CASE UNCHANGED spacePanelVars
  BY <1>1 DEF spacePanelVars
<1>2. CASE RowsChange
  BY <1>2 DEF RowsChange
<1>3. CASE Answered
  <2>1. wire \in Calls /\ viewer \in Accounts
    BY <1>3 DEF Answered, PanelTypeOK
  <2>2. Executes(wire) \/ UNCHANGED membershipVars
    BY <1>3 DEF Answered, Done, Refused, InviteAnswered
  <2>. QED
    BY <2>1, <2>2, ExecutedIsAStep
<1>4. CASE UNCHANGED membershipVars
  BY <1>4
<1>. QED
  BY <1>1, <1>2, <1>3, <1>4
  DEF PanelNext, Goes, Asks, OpensInLayout, OpensOnPanel, Dismisses, Confirms, Unbans, Chooses,
      Clicks, ChangesAccess, UsesCard, FollowsLink, Revokes, SendsInvites, CreatesLink, Sends

LEMMA InitPanelTypeOK == PanelInit => PanelTypeOK
<1>1. NoRound \in [left : SUBSET Accounts, failed : SUBSET Accounts, shown : BOOLEAN]
  BY DEF NoRound
<1>. QED
  BY <1>1 DEF PanelInit, NothingOpen, PanelTypeOK, Screens

LEMMA ShownTypeOK ==
  ASSUME PanelTypeOK, NEW s \in Screens, NEW d \in Dialogs \cup {NoDialog}, NEW l, l \subseteq Accounts,
         NEW r \in [left : SUBSET Accounts, failed : SUBSET Accounts, shown : BOOLEAN],
         Shows(s, d, l, r)
  PROVE  /\ viewer' \in Accounts
         /\ screen' \in Screens
         /\ dialog' \in Dialogs \cup {NoDialog}
         /\ list' \subseteq Accounts
         /\ round' \in [left : SUBSET Accounts, failed : SUBSET Accounts, shown : BOOLEAN]
<1>1. viewer' \in Accounts /\ screen' \in Screens /\ list' \subseteq Accounts
  BY DEF PanelTypeOK, Shows, Screens
<1>2. dialog' \in Dialogs \cup {NoDialog}
  <2>1. CASE d = NoDialog \/ Ousted(s)
    BY <2>1 DEF Shows
  <2>2. CASE ~(d = NoDialog \/ Ousted(s))
    <3>1. PICK f \in BOOLEAN : dialog' = [d EXCEPT !.fresh = f]
      BY <2>2 DEF Shows, Aged, Dialogs
    <3>. QED
      BY <2>2, <3>1 DEF Dialogs
  <2>. QED
    BY <2>1, <2>2
<1>3. round' \in [left : SUBSET Accounts, failed : SUBSET Accounts, shown : BOOLEAN]
  <2>1. PICK f \in BOOLEAN : round' = [r EXCEPT !.shown = f]
    BY DEF Shows
  <2>. QED
    BY <2>1
<1>. QED
  BY <1>1, <1>2, <1>3

LEMMA SentTypeOK ==
  ASSUME TypeOK, PanelTypeOK, NEW op, NEW x, NEW f \in BOOLEAN, Sends(op, x, f),
         \/ op \in AccountOps /\ x \in Accounts
         \/ op \in TokenOps /\ x \in Tokens
  PROVE  /\ viewer' \in Accounts
         /\ screen' \in Screens
         /\ dialog' \in Dialogs \cup {NoDialog}
         /\ wire' \in Calls
BY DEF TypeOK, PanelTypeOK, Sends, Calls

LEMMA ClientTypeOK ==
  ASSUME TypeOK, PanelTypeOK, PanelNext, ~RowsChange, ~Answered
  PROVE  PanelTypeOK'
<1>. USE DEF PanelTypeOK
<1>1. ASSUME NEW s \in Screens, Goes(s)
      PROVE  PanelTypeOK'
  BY <1>1 DEF Goes, TypeOK
<1>2. CASE OpensInLayout \/ OpensOnPanel
  <2>1. PICK op \in MemberOps \cup Lists \cup {"leave", "delete"}, x \in Accounts,
             l \in SUBSET Accounts : Asks(op, x, l)
    BY <1>2 DEF OpensInLayout, OpensOnPanel, Lists, TypeOK
  <2>2. [op |-> op, on |-> x, fresh |-> TRUE] \in Dialogs
    BY DEF Dialogs
  <2>. QED
    BY <2>1, <2>2 DEF Asks
<1>3. CASE Dismisses
  BY <1>3 DEF Dismisses
<1>4. CASE Confirms
  <2>1. dialog \in Dialogs /\ dialog.op \in AccountOps /\ dialog.on \in Accounts /\ dialog.fresh \in BOOLEAN
    BY <1>4 DEF Confirms, Dialogs, AccountOps
  <2>. QED
    BY <1>4, <2>1, SentTypeOK DEF Confirms
<1>5. ASSUME NEW x \in Accounts, Unbans(x)
      PROVE  PanelTypeOK'
  <2>1. dialog.fresh \in BOOLEAN
    BY <1>5 DEF Unbans, Dialogs
  <2>. QED
    BY <1>5, <2>1, SentTypeOK DEF Unbans, AccountOps
<1>6. ASSUME NEW op \in {"untimeout", "approve", "decline"}, NEW x \in Accounts, Clicks(op, x)
      PROVE  PanelTypeOK'
  BY <1>6, SentTypeOK DEF Clicks, AccountOps
<1>7. ASSUME NEW op \in {"Everyone", "ModeratorsOnly", "list", "unlist"}, ChangesAccess(op)
      PROVE  PanelTypeOK'
  BY <1>7, SentTypeOK DEF ChangesAccess, AccountOps
<1>8. ASSUME NEW op \in {"join", "request", "cancel", "takeDown"}, UsesCard(op)
      PROVE  PanelTypeOK'
  BY <1>8, SentTypeOK DEF UsesCard, AccountOps
<1>9. ASSUME NEW t \in Tokens, FollowsLink(t) \/ Revokes(t)
      PROVE  PanelTypeOK'
  BY <1>9, SentTypeOK DEF FollowsLink, Revokes, TokenOps
<1>10. ASSUME NEW x \in Accounts, Chooses(x)
       PROVE  PanelTypeOK'
  BY <1>10 DEF Chooses
<1>11. CASE SendsInvites
  <2>1. PICK x \in Recipients :
          /\ Sends("invite", x, TRUE)
          /\ round' = [left |-> Recipients \ {x}, failed |-> {}, shown |-> TRUE]
    BY <1>11 DEF SendsInvites
  <2>2. Recipients \subseteq Accounts
    BY DEF Recipients
  <2>3. /\ viewer' \in Accounts /\ screen' \in Screens
        /\ dialog' \in Dialogs \cup {NoDialog} /\ wire' \in Calls
    BY <2>1, <2>2, SentTypeOK DEF AccountOps
  <2>. QED
    BY <1>11, <2>1, <2>2, <2>3 DEF SendsInvites
<1>12. CASE CreatesLink
  BY <1>12, SentTypeOK DEF CreatesLink, AccountOps
<1>. QED
  BY <1>1, <1>2, <1>3, <1>4, <1>5, <1>6, <1>7, <1>8, <1>9, <1>10, <1>11, <1>12 DEF PanelNext

LEMMA AnswerTypeOK ==
  ASSUME TypeOK, TypeOK', PanelTypeOK, Answered
  PROVE  PanelTypeOK'
<1>. USE DEF PanelTypeOK
<1>1. wire \in Calls
  BY DEF Answered
<1>2. CASE Done
  <2>1. Following \in Screens /\ Closing \in Dialogs \cup {NoDialog} /\ Remaining \subseteq Accounts
    BY DEF Following, Closing, Remaining, Screens
  <2>2. Shows(Following, Closing, Remaining, round)
    BY <1>2 DEF Done
  <2>. HIDE DEF PanelTypeOK
  <2>3. /\ viewer' \in Accounts /\ screen' \in Screens /\ dialog' \in Dialogs \cup {NoDialog}
        /\ list' \subseteq Accounts
        /\ round' \in [left : SUBSET Accounts, failed : SUBSET Accounts, shown : BOOLEAN]
    BY <2>1, <2>2, ShownTypeOK DEF PanelTypeOK
  <2>4. listing' \in BOOLEAN /\ wire' = NoWire
    BY <1>2 DEF Done
  <2>. QED
    BY <2>3, <2>4 DEF PanelTypeOK
<1>3. CASE Refused
  <2>1. wire.was \in BOOLEAN
    BY <1>1 DEF Calls
  <2>. QED
    BY <1>3, <2>1 DEF Refused
<1>4. CASE InviteAnswered
  <2>1. wire.on \in Accounts
    BY <1>1, <1>4 DEF InviteAnswered, Calls, TokenOps
  <2>2. PICK failed \in SUBSET Accounts : Invited(failed)
    BY <1>4, <2>1 DEF InviteAnswered
  <2>3. CASE EndsRound(failed)
    <3>1. PICK l \in SUBSET Accounts : Shows(screen, dialog, l, NoRound)
      BY <2>3 DEF EndsRound
    <3>2. NoRound \in [left : SUBSET Accounts, failed : SUBSET Accounts, shown : BOOLEAN]
      BY DEF NoRound
    <3>3. /\ viewer' \in Accounts /\ screen' \in Screens /\ dialog' \in Dialogs \cup {NoDialog}
          /\ list' \subseteq Accounts
          /\ round' \in [left : SUBSET Accounts, failed : SUBSET Accounts, shown : BOOLEAN]
      BY <3>1, <3>2, ShownTypeOK
    <3>4. listing' \in BOOLEAN /\ wire' = NoWire
      BY <1>4, <2>3 DEF InviteAnswered, EndsRound
    <3>. QED
      BY <3>3, <3>4
  <2>4. ASSUME NEW x \in round.left, InvitesNext(x, failed)
        PROVE  PanelTypeOK'
    <3>1. [left |-> round.left \ {x}, failed |-> failed, shown |-> round.shown]
            \in [left : SUBSET Accounts, failed : SUBSET Accounts, shown : BOOLEAN]
      OBVIOUS
    <3>2. /\ viewer' \in Accounts /\ screen' \in Screens /\ dialog' \in Dialogs \cup {NoDialog}
          /\ list' \subseteq Accounts
          /\ round' \in [left : SUBSET Accounts, failed : SUBSET Accounts, shown : BOOLEAN]
      BY <2>4, <3>1, ShownTypeOK DEF InvitesNext
    <3>3. wire' \in Calls
      BY <1>1, <1>4, <2>4 DEF InvitesNext, InviteAnswered, Calls, TokenOps
    <3>4. listing' \in BOOLEAN
      BY <1>4 DEF InviteAnswered
    <3>. QED
      BY <3>2, <3>3, <3>4
  <2>. QED
    BY <2>2, <2>3, <2>4 DEF Invited
<1>. QED
  BY <1>2, <1>3, <1>4 DEF Answered

LEMMA StepPanelTypeOK ==
  ASSUME TypeOK, TypeOK', PanelTypeOK, [PanelNext]_spacePanelVars
  PROVE  PanelTypeOK'
<1>1. CASE UNCHANGED spacePanelVars
  BY <1>1 DEF spacePanelVars, panelVars, PanelTypeOK
<1>2. CASE RowsChange
  <2>1. /\ viewer' \in Accounts /\ screen' \in Screens /\ dialog' \in Dialogs \cup {NoDialog}
        /\ list' \subseteq Accounts
        /\ round' \in [left : SUBSET Accounts, failed : SUBSET Accounts, shown : BOOLEAN]
    BY <1>2, ShownTypeOK DEF RowsChange, PanelTypeOK
  <2>2. listing' \in BOOLEAN
    BY <1>2 DEF RowsChange, PanelTypeOK
  <2>3. wire' \in Calls \cup {NoWire}
    BY <1>2 DEF RowsChange, PanelTypeOK, Calls, Aged
  <2>. QED
    BY <2>1, <2>2, <2>3 DEF PanelTypeOK
<1>. QED
  BY <1>1, <1>2, ClientTypeOK, AnswerTypeOK

LEMMA PanelTypes == PanelSpec => [](TypeOK /\ PanelTypeOK)
<1>1. Init /\ PanelInit => TypeOK /\ PanelTypeOK
  BY InitTypeOK, InitPanelTypeOK
<1>2. TypeOK /\ PanelTypeOK /\ [PanelNext]_spacePanelVars => TypeOK' /\ PanelTypeOK'
  BY PanelStepIsAStep, StepTypeOK, StepPanelTypeOK
<1>. QED
  BY <1>1, <1>2, PTL DEF PanelSpec

\* Whatever is clicked, dismissed, refused or answered late: the space changes by
\* its reducers alone, so that its theorems hold of a client's behaviours too.
THEOREM PanelImplementsMembership == PanelSpec => Spec
<1>1. PanelTypeOK /\ [PanelNext]_spacePanelVars => [Next]_membershipVars
  BY PanelStepIsAStep
<1>. QED
  BY <1>1, PanelTypes, PTL DEF PanelSpec, Spec

DialogOK(d) ==
  d /= NoDialog /\ d.fresh =>
    /\ d.op \notin Lists => Granted(d)
    /\ d.op = "bans" => Staffed

CallOK(c) == c /= NoWire /\ c.fresh /\ ~Unseen(c) => Granted(c)

OffersOK == DialogOK(dialog) /\ CallOK(wire)

\* An answer depends on the rows and on what is asked.
LEMMA SameRowsSameAnswer ==
  ASSUME UNCHANGED <<membershipVars, viewer>>, NEW c, NEW d, d.op = c.op, d.on = c.on
  PROVE  /\ Granted(d)' <=> Granted(c)
         /\ Unseen(d)' <=> Unseen(c)
         /\ Staffed' <=> Staffed
BY DEF Granted, Unseen, Staffed, IsStaff, IsMember, CanRemove, Outranks, MayInvite, MayUse,
       RoomForInvite, OpenDm, Pruned, Active, membershipVars, serverVars, memberVars, inviteVars

LEMMA OffersStay ==
  ASSUME UNCHANGED <<membershipVars, viewer>>, OffersOK,
         NEW d, dialog' = d, DialogOK(d),
         NEW c, wire' = c, CallOK(c)
  PROVE  OffersOK'
<1>1. Granted(d)' <=> Granted(d)
  BY SameRowsSameAnswer
<1>2. Staffed' <=> Staffed
  BY SameRowsSameAnswer
<1>3. (Granted(c)' <=> Granted(c)) /\ (Unseen(c)' <=> Unseen(c))
  BY SameRowsSameAnswer
<1>4. (d /= NoDialog /\ d.fresh => (d.op \notin Lists => Granted(d)') /\ (d.op = "bans" => Staffed'))
  BY <1>1, <1>2 DEF DialogOK
<1>5. c /= NoWire /\ c.fresh /\ ~Unseen(c)' => Granted(c)'
  BY <1>3 DEF CallOK
<1>. QED
  BY <1>4, <1>5 DEF OffersOK, DialogOK, CallOK

LEMMA MenuIsGranted ==
  ASSUME TypeOK, viewer \in Accounts,
         NEW op, NEW x \in Accounts, InMembersTab(op, x), NEW c, c.op = op, c.on = x
  PROVE  Granted(c)
BY DEF TypeOK, InMembersTab, CanActOn, Granted, CanRemove, Outranks, Staffed, IsStaff, IsMember,
       Staff, Roles

\* What is offered beside the menus of members: with a space there is an owner
\* row, and nobody with an open request is banned.
LEMMA SpaceOffersAreGranted ==
  ASSUME TypeOK, Seats, viewer \in Accounts, NEW op, NEW c, c.op = op
  PROVE  /\ InServerTab(op) /\ IsMember(viewer) => Granted(c)
         /\ InChannelBar(op) /\ op = "leave" => Granted(c)
         /\ InAccessSettings(op) => Granted(c)
         /\ \A x \in Accounts : InRequestsTab(op, x) /\ c.on = x => Granted(c)
         /\ OnDiscoverCard(op) /\ ~Unseen(c) => Granted(c)
<1>. USE DEF Granted, TypeOK, Staffed
<1>1. InServerTab(op) /\ IsMember(viewer) => Granted(c)
  BY DEF InServerTab
<1>2. InChannelBar(op) /\ op = "leave" => Granted(c)
  BY DEF InChannelBar
<1>3. InAccessSettings(op) => Granted(c)
  BY DEF InAccessSettings
<1>4. \A x \in Accounts : InRequestsTab(op, x) /\ c.on = x => Granted(c)
  BY DEF InRequestsTab, Seats, BannedStayOut
<1>5. OnDiscoverCard(op) /\ ~Unseen(c) => Granted(c)
  BY DEF OnDiscoverCard, Unseen
<1>. QED
  BY <1>1, <1>2, <1>3, <1>4, <1>5

LEMMA InviteOffersAreGranted ==
  ASSUME TypeOK, Seats, viewer \in Accounts,
         NEW op, NEW on, InInviteDialog(op, on), NEW c, c.op = op, c.on = on, ~Unseen(c),
         op = "invite" => Candidate(on)
  PROVE  Granted(c)
<1>1. owner /= NoAccount
  BY DEF InInviteDialog, IsMember, Seats, NothingOutlivesTheSpace, NoRequest
<1>2. CASE op = "revoke"
  BY <1>2 DEF TypeOK, InInviteDialog, Unseen, Granted, Staffed, IsStaff, IsMember, Roles, Staff
<1>3. CASE op \in {"invite", "link"}
  <2>1. MayInvite(viewer)
    BY <1>1, <1>3 DEF InInviteDialog, MayInvite, Staffed
  <2>2. RoomForInvite
    BY <1>3 DEF Unseen
  <2>3. op = "invite" => /\ viewer /= on /\ {viewer, on} \notin Blocks
                         /\ ~IsMember(on) /\ on \notin banned /\ OpenDm(on) = {}
    BY DEF Unseen, Candidate
  <2>. QED
    BY <1>3, <2>1, <2>2, <2>3 DEF Granted
<1>. QED
  BY <1>2, <1>3 DEF InInviteDialog

OffersInv == OffersOK /\ (screen \in Panel => Staffed)

LEMMA AskedOffersInv ==
  ASSUME OffersInv, PanelTypeOK, NEW op, NEW x, NEW l, Asks(op, x, l),
         LET d == [op |-> op, on |-> x, fresh |-> TRUE] IN DialogOK(d)
  PROVE  OffersInv'
<1>1. OffersOK'
  BY OffersStay DEF Asks, OffersInv, OffersOK
<1>2. Staffed' <=> Staffed
  BY DEF Asks, Staffed, IsStaff, membershipVars, memberVars
<1>. QED
  BY <1>1, <1>2 DEF OffersInv, Asks

LEMMA SentOffersInv ==
  ASSUME OffersInv, PanelTypeOK, NEW op, NEW x, NEW f, Sends(op, x, f),
         LET c == [op |-> op, on |-> x, fresh |-> f, was |-> discoverable] IN CallOK(c)
  PROVE  OffersInv'
<1>1. OffersOK'
  BY OffersStay DEF Sends, OffersInv, OffersOK
<1>2. Staffed' <=> Staffed
  BY DEF Sends, Staffed, IsStaff, membershipVars, memberVars
<1>. QED
  BY <1>1, <1>2 DEF OffersInv, Sends

LEMMA ClientOffersInv ==
  ASSUME TypeOK, Seats, PanelTypeOK, OffersInv, PanelNext, ~RowsChange, ~Answered
  PROVE  OffersInv'
<1>. viewer \in Accounts
  BY DEF PanelTypeOK
<1>1. ASSUME NEW s \in Screens, Goes(s)
      PROVE  OffersInv'
  <2>1. OffersOK'
    BY <1>1, OffersStay DEF Goes, OffersInv, OffersOK
  <2>2. Staffed' <=> Staffed
    BY <1>1 DEF Goes, Staffed, IsStaff, membershipVars, memberVars
  <2>. QED
    BY <1>1, <2>1, <2>2 DEF OffersInv, Goes
<1>2. CASE OpensInLayout
  <2>1. ASSUME NEW op \in MemberOps, NEW x \in Accounts, InMemberPanel(op, x), Asks(op, x, {})
        PROVE  OffersInv'
    <3>1. DialogOK([op |-> op, on |-> x, fresh |-> TRUE])
      BY <2>1, MenuIsGranted DEF DialogOK, InMemberPanel, MemberOps
    <3>. QED
      BY <2>1, <3>1, AskedOffersInv
  <2>2. ASSUME NEW op \in {"leave", "invites"}, InChannelBar(op), Asks(op, viewer, {})
        PROVE  OffersInv'
    <3>1. DialogOK([op |-> op, on |-> viewer, fresh |-> TRUE])
      BY <2>2, SpaceOffersAreGranted DEF DialogOK, Lists
    <3>. QED
      BY <2>2, <3>1, AskedOffersInv
  <2>. QED
    BY <1>2, <2>1, <2>2 DEF OpensInLayout
<1>3. CASE OpensOnPanel
  <2>1. ASSUME NEW op \in MemberOps, NEW x \in Accounts, InMembersTab(op, x), Asks(op, x, {})
        PROVE  OffersInv'
    <3>1. DialogOK([op |-> op, on |-> x, fresh |-> TRUE])
      BY <2>1, MenuIsGranted DEF DialogOK, MemberOps
    <3>. QED
      BY <2>1, <3>1, AskedOffersInv
  <2>2. CASE Staffed /\ Asks("bans", viewer, banned)
    <3>1. DialogOK([op |-> "bans", on |-> viewer, fresh |-> TRUE])
      BY <2>2 DEF DialogOK, Lists
    <3>. QED
      BY <2>2, <3>1, AskedOffersInv
  <2>3. ASSUME NEW op \in {"leave", "delete"}, screen = "space", InServerTab(op),
               Asks(op, viewer, {})
        PROVE  OffersInv'
    <3>1. IsMember(viewer)
      BY <2>3 DEF OffersInv, Panel, Staffed, IsStaff, IsMember, Staff
    <3>2. DialogOK([op |-> op, on |-> viewer, fresh |-> TRUE])
      BY <2>3, <3>1, SpaceOffersAreGranted DEF DialogOK
    <3>. QED
      BY <2>3, <3>2, AskedOffersInv
  <2>. QED
    BY <1>3, <2>1, <2>2, <2>3 DEF OpensOnPanel
<1>4. CASE Dismisses
  <2>1. OffersOK'
    BY <1>4, OffersStay DEF Dismisses, OffersInv, OffersOK, DialogOK
  <2>2. Staffed' <=> Staffed
    BY <1>4 DEF Dismisses, Staffed, IsStaff, membershipVars, memberVars
  <2>. QED
    BY <1>4, <2>1, <2>2 DEF OffersInv, Dismisses
<1>5. CASE Confirms
  <2> DEFINE c == [op |-> dialog.op, on |-> dialog.on, fresh |-> dialog.fresh, was |-> discoverable]
  <2>1. dialog.fresh => Granted(dialog)
    BY <1>5 DEF Confirms, OffersInv, OffersOK, DialogOK
  <2>2. Granted(c) <=> Granted(dialog)
    BY DEF Granted
  <2>3. CallOK(c)
    BY <2>1, <2>2 DEF CallOK
  <2>. QED
    BY <1>5, <2>3, SentOffersInv DEF Confirms
<1>6. ASSUME NEW x \in Accounts, Unbans(x)
      PROVE  OffersInv'
  <2> DEFINE c == [op |-> "unban", on |-> x, fresh |-> dialog.fresh, was |-> discoverable]
  <2>1. dialog.fresh => Staffed
    BY <1>6 DEF Unbans, OffersInv, OffersOK, DialogOK
  <2>2. CallOK(c)
    BY <2>1 DEF CallOK, Granted
  <2>. QED
    BY <1>6, <2>2, SentOffersInv DEF Unbans
<1>7. ASSUME NEW op \in {"untimeout", "approve", "decline"}, NEW x \in Accounts, Clicks(op, x)
      PROVE  OffersInv'
  <2> DEFINE c == [op |-> op, on |-> x, fresh |-> TRUE, was |-> discoverable]
  <2>1. InMembersTab(op, x) \/ InRequestsTab(op, x)
    BY <1>7 DEF Clicks, InMemberPanel
  <2>2. CallOK(c)
    BY <1>7, <2>1, MenuIsGranted, SpaceOffersAreGranted DEF CallOK
  <2>. QED
    BY <1>7, <2>2, SentOffersInv DEF Clicks
<1>8. ASSUME NEW op \in {"Everyone", "ModeratorsOnly", "list", "unlist"}, ChangesAccess(op)
      PROVE  OffersInv'
  <2> DEFINE c == [op |-> op, on |-> viewer, fresh |-> TRUE, was |-> discoverable]
  <2>1. CallOK(c)
    BY <1>8, SpaceOffersAreGranted DEF CallOK, ChangesAccess
  <2>. QED
    BY <1>8, <2>1, SentOffersInv DEF ChangesAccess
<1>9. ASSUME NEW op \in {"join", "request", "cancel", "takeDown"}, UsesCard(op)
      PROVE  OffersInv'
  <2> DEFINE c == [op |-> op, on |-> viewer, fresh |-> TRUE, was |-> discoverable]
  <2>1. CallOK(c)
    BY <1>9, SpaceOffersAreGranted DEF CallOK, UsesCard
  <2>. QED
    BY <1>9, <2>1, SentOffersInv DEF UsesCard
<1>10. ASSUME NEW t \in Tokens, FollowsLink(t)
       PROVE  OffersInv'
  <2> DEFINE c == [op |-> "use", on |-> t, fresh |-> TRUE, was |-> discoverable]
  <2>1. CallOK(c)
    BY DEF CallOK, Unseen
  <2>. QED
    BY <1>10, <2>1, SentOffersInv DEF FollowsLink
<1>11. ASSUME NEW t \in Tokens, Revokes(t)
       PROVE  OffersInv'
  <2> DEFINE c == [op |-> "revoke", on |-> t, fresh |-> TRUE, was |-> discoverable]
  <2>1. CallOK(c)
    BY <1>11, InviteOffersAreGranted DEF CallOK, Revokes
  <2>. QED
    BY <1>11, <2>1, SentOffersInv DEF Revokes
<1>12. ASSUME NEW x \in Accounts, Chooses(x)
       PROVE  OffersInv'
  <2>1. OffersOK'
    BY <1>12, OffersStay DEF Chooses, OffersInv, OffersOK
  <2>2. Staffed' <=> Staffed
    BY <1>12 DEF Chooses, Staffed, IsStaff, membershipVars, memberVars
  <2>. QED
    BY <1>12, <2>1, <2>2 DEF OffersInv, Chooses
<1>13. CASE SendsInvites
  <2>1. PICK x \in Recipients : InInviteDialog("invite", x) /\ Sends("invite", x, TRUE)
    BY <1>13 DEF SendsInvites
  <2> DEFINE c == [op |-> "invite", on |-> x, fresh |-> TRUE, was |-> discoverable]
  <2>2. CallOK(c)
    BY <2>1, InviteOffersAreGranted DEF CallOK, Recipients
  <2>. QED
    BY <2>1, <2>2, SentOffersInv
<1>14. CASE CreatesLink
  <2> DEFINE c == [op |-> "link", on |-> viewer, fresh |-> TRUE, was |-> discoverable]
  <2>1. CallOK(c)
    BY <1>14, InviteOffersAreGranted DEF CallOK, CreatesLink
  <2>. QED
    BY <1>14, <2>1, SentOffersInv DEF CreatesLink
<1>. QED
  BY <1>1, <1>2, <1>3, <1>4, <1>5, <1>6, <1>7, <1>8, <1>9, <1>10, <1>11, <1>12, <1>13, <1>14
  DEF PanelNext

\* An offer outlives a step only as stale, unless the step left all rows as they were.
LEMMA AgedOffersInv ==
  ASSUME PanelTypeOK, OffersInv,
         NEW s \in {screen, "app"}, NEW d \in {dialog, NoDialog}, NEW l, NEW r, Shows(s, d, l, r),
         wire' = NoWire \/ ~wire'.fresh
           \/ (wire /= NoWire /\ wire' = [wire EXCEPT !.fresh = Aged(wire.fresh)])
  PROVE  OffersInv'
<1>1. screen' \in Panel => Staffed'
  <2>1. screen' \in {s, "app"} /\ (screen' \in Panel => role'[viewer] \in Staff)
    BY DEF Shows, Ousted, Panel
  <2>. QED
    BY <2>1 DEF Shows, Staffed, IsStaff
<1>2. viewer' = viewer
  BY DEF Shows
<1>3. ASSUME ~UNCHANGED membershipVars
      PROVE  OffersOK'
  <2>1. dialog' = NoDialog \/ ~dialog'.fresh
    BY <1>3 DEF Shows, Aged, PanelTypeOK, Dialogs
  <2>2. wire' = NoWire \/ ~wire'.fresh
    BY <1>3 DEF Aged, PanelTypeOK, Calls
  <2>. QED
    BY <2>1, <2>2 DEF OffersOK, DialogOK, CallOK
<1>4. ASSUME UNCHANGED membershipVars
      PROVE  OffersOK'
  <2>1. dialog' \in {dialog, NoDialog}
    BY <1>4 DEF Shows, Aged, PanelTypeOK, Dialogs
  <2>2. wire' = NoWire \/ ~wire'.fresh \/ wire' = wire
    BY <1>4 DEF Aged, PanelTypeOK, Calls
  <2>3. PICK e : e = dialog'
    OBVIOUS
  <2>4. PICK c : c = wire'
    OBVIOUS
  <2>5. DialogOK(e) /\ CallOK(c)
    BY <2>1, <2>2, <2>3, <2>4 DEF OffersInv, OffersOK, DialogOK, CallOK
  <2>. QED
    BY <1>2, <1>4, <2>3, <2>4, <2>5, OffersStay DEF OffersInv
<1>. QED
  BY <1>1, <1>3, <1>4 DEF OffersInv

LEMMA StepOffersInv ==
  ASSUME TypeOK, Seats, PanelTypeOK, OffersInv, [PanelNext]_spacePanelVars
  PROVE  OffersInv'
<1>1. CASE UNCHANGED spacePanelVars
  <2>1. OffersOK'
    BY <1>1, OffersStay DEF spacePanelVars, panelVars, OffersInv, OffersOK
  <2>2. Staffed' <=> Staffed
    BY <1>1 DEF spacePanelVars, panelVars, Staffed, IsStaff, membershipVars, memberVars
  <2>. QED
    BY <1>1, <2>1, <2>2 DEF OffersInv, spacePanelVars, panelVars
<1>2. CASE RowsChange
  BY <1>2, AgedOffersInv DEF RowsChange
<1>3. CASE Answered /\ Done
  BY <1>3, AgedOffersInv DEF Answered, Done, Closing, Following
<1>4. CASE Answered /\ Refused
  <2>1. OffersOK'
    BY <1>4, OffersStay DEF Refused, OffersInv, OffersOK, CallOK
  <2>2. Staffed' <=> Staffed
    BY <1>4 DEF Refused, Staffed, IsStaff, membershipVars, memberVars
  <2>. QED
    BY <1>4, <2>1, <2>2 DEF OffersInv, Refused
<1>5. CASE Answered /\ InviteAnswered
  <2>1. PICK failed : Invited(failed)
    BY <1>5 DEF InviteAnswered
  <2>2. CASE EndsRound(failed)
    BY <2>2, AgedOffersInv DEF EndsRound
  <2>3. ASSUME NEW x \in round.left, InvitesNext(x, failed)
        PROVE  OffersInv'
    <3>1. ~wire'.fresh
      BY <1>5, <2>3 DEF InvitesNext, Answered, PanelTypeOK, Calls
    <3>. QED
      BY <2>3, <3>1, AgedOffersInv DEF InvitesNext
  <2>. QED
    BY <2>1, <2>2, <2>3 DEF Invited
<1>. QED
  BY <1>1, <1>2, <1>3, <1>4, <1>5, ClientOffersInv DEF Answered

\* As long as no row changes in between, the reducers grant what a screen offers:
\* the conditions of the tabs and menus imply those of the reducers.
THEOREM OffersAreAlwaysGranted == PanelSpec => []OffersAreGranted
<1>1. Init /\ PanelInit => OffersInv
  BY DEF PanelInit, NothingOpen, OffersInv, OffersOK, DialogOK, CallOK, Panel
<1>2. TypeOK /\ Seats /\ PanelTypeOK /\ OffersInv /\ [PanelNext]_spacePanelVars => OffersInv'
  BY StepOffersInv
<1>3. OffersInv => OffersAreGranted
  BY DEF OffersInv, OffersOK, DialogOK, CallOK, OffersAreGranted
<1>4. PanelSpec => [](TypeOK /\ Seats)
  BY PanelImplementsMembership, SeatsAlways, PTL
<1>. QED
  BY <1>1, <1>2, <1>3, <1>4, PanelTypes, PTL DEF PanelSpec
============================================================================
