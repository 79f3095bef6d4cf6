------------------------------ MODULE SpacePanel ------------------------------
(***************************************************************************)
(* The screens of the web client through which one account, the viewer,    *)
(* changes who is in a space: the member list beside a channel, the tabs   *)
(* of the space panel, the Discover page, an invite link, and the dialogs  *)
(* of both (src/src/pages/{ServerManagePage,DiscoverPage,InvitePage}.tsx,  *)
(* features/server-manage, layouts/app-layout, modals).                    *)
(*                                                                         *)
(* A screen offers an operation on the rows it shows; the reducer decides  *)
(* on the rows it finds.  In between a dialog may stand open, or the call  *)
(* be under way, while anyone changes the rows.  Rows reach the client in  *)
(* the order of the transactions, so a client that lags behind is one      *)
(* whose call takes longer: the screens read the rows as they are, and a   *)
(* call is executed and answered in one later step.  What a call did whose *)
(* answer never came is a step of Next; the caller sees it refused.        *)
(*                                                                         *)
(* Abstracted: the reason of a ban, the length of a timeout and the name   *)
(* typed to confirm; tags, name and icon of the space; its channels (see   *)
(* Channels); toasts and searches.  The clean-up the invite dialog asks    *)
(* for as it opens is CleanupExpiredInvites in Next.  The dialogs of a     *)
(* member (TimeoutMemberModal, KickMemberModal, BanMemberModal,            *)
(* SetRoleModal, TransferOwnershipModal) and those of the space differ in  *)
(* the reducer they call and in nothing else.                              *)
(*                                                                         *)
(* Bounds: while a call is under way the viewer does nothing else on these *)
(* screens but dismiss its dialog or pick recipients, though the account   *)
(* may act elsewhere too (Next), and nobody navigates under an open        *)
(* dialog.                                                                 *)
(***************************************************************************)
EXTENDS SpaceMembership

CONSTANTS NoDialog, NoWire

VARIABLES viewer,   \* the signed-in account
          screen,   \* the route, and the open tab of the panel
          dialog,   \* what an open dialog is about, and whether the rows are still as then
          list,     \* the bans or the recipients it lists
          listing,  \* the Switch "List on Discover", while its tab is open
          round,    \* direct invites: still to be sent, refused, and whether the dialog still shows
          wire      \* the call that is under way

panelVars == <<viewer, screen, dialog, list, listing, round, wire>>
spacePanelVars == <<membershipVars, panelVars>>

Panel == {"space", "members", "requests"}
Screens == Panel \cup {"app", "discover", "invite"}
MemberOps == {"timeout", "kick", "ban", "promote", "demote", "transfer"}
Lists == {"bans", "invites"}
AccountOps == MemberOps \cup {"untimeout", "unban", "approve", "decline", "Everyone",
                "ModeratorsOnly", "list", "unlist", "leave", "delete", "join", "request",
                "cancel", "takeDown", "invite", "link"}
TokenOps == {"revoke", "use"}
NoRound == [left |-> {}, failed |-> {}, shown |-> FALSE]

Dialogs == [op : MemberOps \cup Lists \cup {"leave", "delete"}, on : Accounts, fresh : BOOLEAN]

\* fresh: no row has changed since the offer was made.
\* was: whether the space was listed when the call was made.
Calls == [op : AccountOps, on : Accounts, fresh : BOOLEAN, was : BOOLEAN]
         \cup [op : TokenOps, on : Tokens, fresh : BOOLEAN, was : BOOLEAN]

PanelTypeOK ==
  /\ viewer \in Accounts
  /\ screen \in Screens
  /\ dialog \in Dialogs \cup {NoDialog}
  /\ list \subseteq Accounts
  /\ listing \in BOOLEAN
  /\ round \in [left : SUBSET Accounts, failed : SUBSET Accounts, shown : BOOLEAN]
  /\ wire \in Calls \cup {NoWire}

ASSUME PanelAssumption ==
  /\ NoDialog \notin Dialogs /\ NoWire \notin Calls
  /\ Accounts \cap Tokens = {}

NothingOpen ==
  /\ screen = "app" /\ dialog = NoDialog /\ list = {}
  /\ listing = FALSE /\ round = NoRound /\ wire = NoWire

PanelInit == viewer \in Accounts /\ NothingOpen

----------------------------------------------------------------------------
(* What the screens offer *)

Staffed == IsStaff(viewer)

\* Mutant: a moderator is offered the menu of every other member.
CanActOnAnyone(x) == Staffed /\ x /= viewer /\ IsMember(x)

CanActOn(x) ==
  /\ Staffed /\ x /= viewer /\ IsMember(x)
  /\ role[x] = "Member" \/ role[viewer] = "Owner"

InMembersTab(op, x) ==
  /\ CanActOn(x)
  /\ \/ op \in {"kick", "ban"}
     \/ op = "timeout" /\ x \notin silenced
     \/ op = "untimeout" /\ x \in silenced
     \/ /\ role[viewer] = "Owner" /\ role[x] /= "Owner"
        /\ \/ op = "transfer"
           \/ op = "demote" /\ role[x] /= "Member"
           \/ op = "promote" /\ role[x] /= "Moderator"

\* The same menu, beside the messages of a channel.
InMemberPanel(op, x) == InMembersTab(op, x)

InServerTab(op) ==
  \/ op = "leave" /\ role[viewer] /= "Owner"
  \/ op = "delete" /\ role[viewer] = "Owner"

\* The menu under the name of the space.
InChannelBar(op) ==
  /\ IsMember(viewer)
  /\ \/ op = "leave" /\ role[viewer] /= "Owner"
     \/ op = "invites" /\ (policy = "Everyone" \/ Staffed)

InAccessSettings(op) ==
  /\ role[viewer] = "Owner"
  /\ \/ op \in {"Everyone", "ModeratorsOnly"} /\ op /= policy
     \/ op = (IF listing THEN "unlist" ELSE "list")  \* the Switch
     \/ op = (IF listing THEN "list" ELSE "unlist")  \* a description is saved with it

InRequestsTab(op, x) ==
  op \in {"approve", "decline"} /\ Staffed /\ request[x] = "pending"

OnDiscoverCard(op) ==
  /\ owner /= NoAccount /\ discoverable /\ ~IsMember(viewer)
  /\ \/ op = "join" /\ policy = "Everyone"
     \/ op = "cancel" /\ policy /= "Everyone" /\ request[viewer] = "pending"
     \/ op = "request" /\ policy /= "Everyone" /\ request[viewer] /= "pending"
     \/ op = "takeDown"  \* the viewer may be an administrator of the instance

\* A stranger to the space.  Bans, blocks and invitations by others do not show.
Candidate(x) == x /= viewer /\ ~IsMember(x)

\* The viewer has invited x already.  (When the token of the invitation has gone
\* its row no longer tells who sent it: x may be picked again or not.)
PendingDm(x) ==
  \E t \in Tokens : /\ dm[t] = [to |-> x, status |-> "Pending"]
                    /\ invite[t] /= NoInvite /\ invite[t].by = viewer

InInviteDialog(op, on) ==
  /\ IsMember(viewer)
  /\ \/ op \in {"invite", "link"} /\ (policy = "Everyone" \/ Staffed)
     \/ op = "revoke" /\ on \in Tokens /\ invite[on] /= NoInvite
          /\ (Staffed \/ invite[on].by = viewer)

----------------------------------------------------------------------------
(* What the reducers grant, and what they do *)

Granted(c) ==
  \/ c.op \in {"kick", "ban"} /\ CanRemove(viewer, c.on)
  \/ c.op = "timeout" /\ Outranks(viewer, c.on)
  \/ c.op = "untimeout" /\ Staffed /\ IsMember(c.on)
  \/ /\ c.op \in {"promote", "demote"}
     /\ role[viewer] = "Owner" /\ IsMember(c.on) /\ role[c.on] /= "Owner"
  \/ c.op = "transfer" /\ role[viewer] = "Owner" /\ c.on /= viewer /\ IsMember(c.on)
  \/ c.op = "unban" /\ Staffed
  \/ c.op = "approve" /\ Staffed /\ request[c.on] /= "none" /\ c.on \notin banned
  \/ c.op = "decline" /\ Staffed /\ request[c.on] = "pending"
  \/ /\ c.op \in {"Everyone", "ModeratorsOnly", "list", "unlist", "delete"}
     /\ role[viewer] = "Owner"
  \/ c.op = "leave" /\ IsMember(viewer) /\ role[viewer] /= "Owner"
  \/ /\ c.op \in {"join", "request"}
     /\ owner /= NoAccount /\ discoverable /\ ~IsMember(viewer) /\ viewer \notin banned
     /\ IF c.op = "join" THEN policy = "Everyone"
        ELSE policy = "ModeratorsOnly" /\ request[viewer] /= "pending"
  \/ c.op = "cancel"
  \/ c.op = "takeDown" /\ owner /= NoAccount /\ discoverable
  \/ /\ c.op \in {"link", "invite"} /\ MayInvite(viewer) /\ RoomForInvite
     /\ c.op = "invite" => /\ viewer /= c.on /\ {viewer, c.on} \notin Blocks
                           /\ ~IsMember(c.on) /\ c.on \notin banned /\ OpenDm(c.on) = {}
  \/ /\ c.op = "revoke" /\ invite[c.on] /= NoInvite
     /\ \/ Staffed
        \/ role[viewer] = "Member" /\ policy = "Everyone" /\ invite[c.on].by = viewer
  \/ c.op = "use" /\ MayUse(viewer, c.on)

\* What a refusal may rest on that no screen shows: a ban of the viewer or of a
\* recipient, a block, an invitation by another member or sent since the
\* recipient was picked, the limit of invites; and a member's own invites stay
\* listed when only moderators may invite.  An invite link tells nothing of its
\* invite.
Unseen(c) ==
  \/ c.op \in {"join", "request"} /\ viewer \in banned
  \/ c.op \in {"link", "invite"} /\ ~RoomForInvite
  \/ c.op = "invite" /\ (\/ c.on \in banned \/ {viewer, c.on} \in Blocks
                         \/ OpenDm(c.on) /= {})
  \/ c.op = "revoke" /\ ~Staffed /\ policy = "ModeratorsOnly"
  \/ c.op = "use"

Executes(c) ==
  \/ c.op = "kick" /\ KickMember(viewer, c.on)
  \/ c.op = "ban" /\ BanMember(viewer, c.on)
  \/ c.op = "timeout" /\ TimeoutMember(viewer, c.on)
  \/ c.op = "untimeout" /\ RemoveTimeout(viewer, c.on)
  \/ c.op = "promote" /\ SetMemberRole(viewer, c.on, "Moderator")
  \/ c.op = "demote" /\ SetMemberRole(viewer, c.on, "Member")
  \/ c.op = "transfer" /\ TransferOwnership(viewer, c.on)
  \/ c.op = "unban" /\ UnbanMember(viewer, c.on)
  \/ c.op = "approve" /\ ApproveJoinRequest(viewer, c.on)
  \/ c.op = "decline" /\ DeclineJoinRequest(viewer, c.on)
  \/ c.op \in {"Everyone", "ModeratorsOnly"} /\ SetServerInvitePolicy(viewer, c.op)
  \/ c.op \in {"list", "unlist"} /\ SetServerDiscovery(viewer, c.op = "list")
  \/ c.op = "delete" /\ DeleteServer(viewer)
  \/ c.op = "leave" /\ LeaveServer(viewer)
  \/ c.op = "join" /\ JoinDiscoverableServer(viewer)
  \/ c.op = "request" /\ RequestToJoin(viewer)
  \/ c.op = "cancel" /\ CancelJoinRequest(viewer)
  \/ c.op = "takeDown" /\ AdminUnlistServer
  \/ c.op = "link" /\ \E t \in Tokens, limit \in UseLimits \cup {NoLimit} :
                        CreateInvite(viewer, t, limit, {})
  \/ c.op = "invite" /\ \E t \in Tokens : SendDmServerInvite(viewer, c.on, t)
  \/ c.op = "revoke" /\ DeleteInvite(viewer, c.on)
  \/ c.op = "use" /\ UseInvite(viewer, c.on)

----------------------------------------------------------------------------
(* What the viewer does *)

Idle == dialog = NoDialog /\ wire = NoWire

\* The panel is for the staff.
Goes(s) ==
  /\ Idle /\ s /= screen
  /\ s \in Panel => Staffed
  /\ screen' = s
  /\ listing' = (s = "space" /\ discoverable)
  /\ UNCHANGED <<membershipVars, viewer, dialog, list, round, wire>>

Asks(op, x, l) ==
  /\ Idle
  /\ dialog' = [op |-> op, on |-> x, fresh |-> TRUE]
  /\ list' = l
  /\ UNCHANGED <<membershipVars, viewer, screen, listing, round, wire>>

OpensInLayout ==
  /\ screen = "app"
  /\ \/ \E op \in MemberOps, x \in Accounts : InMemberPanel(op, x) /\ Asks(op, x, {})
     \/ \E op \in {"leave", "invites"} : InChannelBar(op) /\ Asks(op, viewer, {})

\* The ban list is read once, as it opens.
OpensOnPanel ==
  \/ /\ screen = "members"
     /\ \/ \E op \in MemberOps, x \in Accounts : InMembersTab(op, x) /\ Asks(op, x, {})
        \/ Staffed /\ Asks("bans", viewer, banned)
  \/ /\ screen = "space"
     /\ \E op \in {"leave", "delete"} : InServerTab(op) /\ Asks(op, viewer, {})

\* A dialog may be dismissed while its call is under way.
Dismisses ==
  /\ dialog /= NoDialog
  /\ dialog' = NoDialog /\ list' = {}
  /\ round' = [round EXCEPT !.shown = FALSE]
  /\ UNCHANGED <<membershipVars, viewer, screen, listing, wire>>

Sends(op, x, fresh) ==
  /\ wire = NoWire
  /\ wire' = [op |-> op, on |-> x, fresh |-> fresh, was |-> discoverable]
  /\ UNCHANGED <<membershipVars, viewer, screen, dialog>>

\* The layout keeps a dialog open, without content, when the space is left.
Confirms ==
  /\ dialog /= NoDialog /\ dialog.op \notin Lists
  /\ IsMember(viewer)
  /\ Sends(dialog.op, dialog.on, dialog.fresh)
  /\ UNCHANGED <<list, listing, round>>

Unbans(x) ==
  /\ dialog /= NoDialog /\ dialog.op = "bans" /\ x \in list
  /\ Sends("unban", x, dialog.fresh)
  /\ UNCHANGED <<list, listing, round>>

\* An offer that is taken at once.
Clicks(op, x) ==
  /\ Idle
  /\ \/ screen = "members" /\ op = "untimeout" /\ InMembersTab(op, x)
     \/ screen = "app" /\ op = "untimeout" /\ InMemberPanel(op, x)
     \/ screen = "requests" /\ InRequestsTab(op, x)
  /\ Sends(op, x, TRUE)
  /\ UNCHANGED <<list, listing, round>>

\* The Switch follows the click, not the row.
ChangesAccess(op) ==
  /\ Idle /\ screen = "space" /\ InAccessSettings(op)
  /\ Sends(op, viewer, TRUE)
  /\ listing' = IF op \in {"list", "unlist"} THEN op = "list" ELSE listing
  /\ UNCHANGED <<list, round>>

UsesCard(op) ==
  /\ Idle /\ screen = "discover" /\ OnDiscoverCard(op)
  /\ Sends(op, viewer, TRUE)
  /\ UNCHANGED <<list, listing, round>>

FollowsLink(t) ==
  /\ Idle /\ screen = "invite"
  /\ Sends("use", t, TRUE)
  /\ UNCHANGED <<list, listing, round>>

\* Those picked who have joined meanwhile are not shown, and passed over.
Recipients == {x \in list : Candidate(x)}

\* Recipients are picked, or dropped, also while others are being invited.
Chooses(x) ==
  /\ dialog /= NoDialog /\ dialog.op = "invites"
  /\ \/ x \in Recipients /\ list' = list \ {x}
     \/ /\ x \notin list /\ InInviteDialog("invite", x)
        /\ Candidate(x) /\ ~PendingDm(x)
        /\ list' = list \cup {x}
  /\ UNCHANGED <<membershipVars, viewer, screen, dialog, listing, round, wire>>

\* One call after another; a refused one does not stop the others.
SendsInvites ==
  /\ dialog /= NoDialog /\ dialog.op = "invites"
  /\ \E x \in Recipients :
       /\ InInviteDialog("invite", x)
       /\ Sends("invite", x, TRUE)
       /\ round' = [left |-> Recipients \ {x}, failed |-> {}, shown |-> TRUE]
  /\ UNCHANGED <<list, listing>>

CreatesLink ==
  /\ dialog /= NoDialog /\ dialog.op = "invites" /\ InInviteDialog("link", viewer)
  /\ Sends("link", viewer, TRUE)
  /\ UNCHANGED <<list, listing, round>>

Revokes(t) ==
  /\ dialog /= NoDialog /\ dialog.op = "invites" /\ InInviteDialog("revoke", t)
  /\ Sends("revoke", t, TRUE)
  /\ UNCHANGED <<list, listing, round>>

----------------------------------------------------------------------------
(* What follows from changed rows, and from an answer *)

Aged(fresh) == fresh /\ UNCHANGED membershipVars

Ousted(s) == s \in Panel /\ role'[viewer] \notin Staff

\* The panel is left when the viewer is not on the staff any more: a member is
\* sent to the space, who is out of it to the start page (AppLayout).  A dialog
\* of the layout forgets what was picked in it when the viewer leaves the space.
Shows(s, d, l, r) ==
  /\ screen' = IF Ousted(s) THEN "app" ELSE s
  /\ dialog' = IF d = NoDialog \/ Ousted(s) THEN NoDialog
               ELSE [d EXCEPT !.fresh = Aged(d.fresh)]
  /\ list' = IF Ousted(s) \/ role'[viewer] = "none" THEN {} ELSE l
  /\ round' = [r EXCEPT !.shown = r.shown /\ role'[viewer] /= "none"]
  /\ UNCHANGED viewer

RowsChange ==
  /\ Next
  /\ Shows(screen, dialog, list, round)
  /\ wire' = IF wire = NoWire THEN NoWire
             ELSE [wire EXCEPT !.fresh = Aged(wire.fresh)]
  /\ listing' = (listing /\ screen' = "space")

\* A member's dialog closes behind the call that did what it asked for; those
\* who enter or leave the space are taken elsewhere.
Closing == IF dialog /= NoDialog /\ dialog.op = wire.op THEN NoDialog ELSE dialog
Following == IF wire.op \in {"join", "leave", "delete", "use"} THEN "app" ELSE screen
Remaining == IF wire.op = "unban" THEN list \ {wire.on} ELSE list

Done ==
  /\ wire.op /= "invite" /\ Granted(wire) /\ Executes(wire)
  /\ Shows(Following, Closing, Remaining, round)
  /\ listing' = (listing /\ screen' = "space")
  /\ wire' = NoWire

\* The reducer refuses, or the call is lost or too late in its answer.  The
\* dialog stays open; the Switch goes back to what it was.
Refused ==
  /\ wire.op /= "invite"
  /\ wire' = NoWire
  /\ listing' = IF wire.op \in {"list", "unlist"} /\ screen = "space"
                THEN wire.was ELSE listing
  /\ UNCHANGED <<membershipVars, viewer, screen, dialog, list, round>>

InvitesNext(x, failed) ==
  /\ wire' = [wire EXCEPT !.on = x, !.fresh = FALSE]
  /\ Shows(screen, dialog, list,
           [left |-> round.left \ {x}, failed |-> failed, shown |-> round.shown])

\* The last answer ends the round: all recipients go, or all who were not refused.
EndsRound(failed) ==
  /\ round.left = {}
  /\ wire' = NoWire
  /\ Shows(screen, dialog,
           IF ~round.shown THEN list ELSE IF failed = {} THEN {} ELSE list \cap failed,
           NoRound)

Invited(failed) == EndsRound(failed) \/ \E x \in round.left : InvitesNext(x, failed)

InviteAnswered ==
  /\ wire.op = "invite"
  /\ \/ Granted(wire) /\ Executes(wire) /\ Invited(round.failed)
     \/ UNCHANGED membershipVars /\ Invited(round.failed \cup {wire.on})
  /\ UNCHANGED listing

Answered == wire /= NoWire /\ (Done \/ Refused \/ InviteAnswered)

PanelNext ==
  \/ \E s \in Screens : Goes(s)
  \/ OpensInLayout \/ OpensOnPanel \/ Dismisses \/ Confirms
  \/ \E x \in Accounts : Unbans(x) \/ Chooses(x)
  \/ \E op \in {"untimeout", "approve", "decline"}, x \in Accounts : Clicks(op, x)
  \/ \E op \in {"Everyone", "ModeratorsOnly", "list", "unlist"} : ChangesAccess(op)
  \/ \E op \in {"join", "request", "cancel", "takeDown"} : UsesCard(op)
  \/ \E t \in Tokens : FollowsLink(t) \/ Revokes(t)
  \/ SendsInvites \/ CreatesLink
  \/ RowsChange \/ Answered

PanelSpec == Init /\ PanelInit /\ [][PanelNext]_spacePanelVars

----------------------------------------------------------------------------
(* Properties *)

\* The client and the reducers decide the same question twice, from rules
\* written twice (permissions.ts and the tabs; helpers.rs and the reducers):
\* as long as no row has changed since a screen made an offer, the reducer
\* grants it - unless it rests on something no screen shows.  A dialog or a
\* call that outlives a change may be refused.
OffersAreGranted ==
  /\ wire /= NoWire /\ wire.fresh /\ ~Unseen(wire) => Granted(wire)
  /\ dialog /= NoDialog /\ dialog.fresh /\ dialog.op \notin Lists => Granted(dialog)

===============================================================================
