----------------------------- MODULE CallSession -----------------------------
(***************************************************************************)
(* One account in one tab: the call it is in (src/src/lib/livekit.ts and   *)
(* the hooks around it), the presence rows its reducer calls write         *)
(* (voice.rs, dm_voice.rs), the rooms it is connected to, and the          *)
(* reconciler of core-api that removes from a room whoever has no row.     *)
(*                                                                         *)
(* A user changes calls faster than the server answers, so presence writes *)
(* are serialised in a queue whose work checks, after each await, whether  *)
(* its call is still the one.  A call to a reducer may be lost with its    *)
(* socket, or be executed after the 15 s the client waits.                 *)
(*                                                                         *)
(* Abstracted: a target is a voice channel or a friend, and targets do not *)
(* exclude each other in the database; mute and volume are left out; the   *)
(* camera stands for the capture devices.  Moderators are one action,      *)
(* Removed; who may join is in VoicePresence.                              *)
(***************************************************************************)
EXTENDS Naturals, Sequences, SequencesExt, FiniteSets

CONSTANTS Targets,    \* calls the user can be in
          MaxCalls,   \* bound: calls started
          MaxSockets, \* bound: database connections opened
          NoTarget

ASSUME CallBounds == MaxCalls \in Nat \ {0} /\ MaxSockets \in Nat \ {0}

Calls == 1 .. MaxCalls
Sockets == 1 .. MaxSockets
NoCall == 0
Offline == 0
NoRow == 0

VARIABLES target,    \* the target of each call started, in order
          active,    \* activeCall
          valid,     \* calls of this callEpoch and identity
          claimed,   \* calls with claimedPresence
          pending,   \* pendingLeaves
          installed, \* the call whose room is in a session store
          work,      \* callWork: what is queued, [op, call]; the first one
                     \* has reached its op
          saved,     \* the target callReload keeps across a reload
          room,      \* what each call's room is
          asking, capture, \* calls whose camera is being asked for, is on
          made, socket,    \* sockets opened; the client's one
          wire,      \* each socket's reducer calls sent and not executed: a join
                     \* or leave, its target, and the call that awaits it
          open,      \* sockets the database still serves
          row,       \* the socket of each target's presence row
          strikes,   \* _strikes
          seen, listed \* participants this round found, has yet to judge

callVars == <<target, active, valid, claimed, pending, installed, saved>>
mediaVars == <<room, asking, capture>>
socketVars == <<made, socket>>
serverVars == <<open, row>>
roundVars == <<strikes, seen, listed>>
vars == <<callVars, work, mediaVars, socketVars, wire, serverVars, roundVars>>

Started == 1 .. Len(target)
StepOf(op, c) == [op |-> op, call |-> c]

Init ==
  /\ target = <<>> /\ active = NoCall /\ installed = NoCall
  /\ valid = {} /\ claimed = {} /\ pending = {} /\ saved = NoTarget
  /\ work = <<>>
  /\ room = [c \in Calls |-> "none"] /\ asking = {} /\ capture = {}
  /\ made = 0 /\ socket = Offline /\ wire = [k \in Sockets |-> <<>>]
  /\ open = {} /\ row = [t \in Targets |-> NoRow]
  /\ strikes = [t \in Targets |-> 0] /\ seen = {} /\ listed = {}

----------------------------------------------------------------------------
(* What every handler is made of *)

IsCurrent(c) == active = c /\ c \in valid

Doing(op) == work /= <<>> /\ Head(work).op = op

\* stopRoom: the capture stops at once, whatever the disconnect awaits.  A room
\* that is still dialing may finish connecting all the same.
StopRooms(cs) ==
  /\ room' = [c \in Calls |-> IF c \in cs /\ room[c] /= "dialing" THEN "none" ELSE room[c]]
  /\ capture' = capture \ cs
  /\ UNCHANGED asking

\* clearLocalCalls: ownership goes before the rooms are stopped.
ClearLocalCalls(next) ==
  /\ active' = next /\ installed' = NoCall
  /\ StopRooms({active, installed})

\* The rest of call c's work gives way to the clean-up of its catch block.
FailWork(c) == <<StepOf("release", c), StepOf("fail", c)>> \o Tail(work)

\* The awaits of call c's work were answered; its next one is op.
GoesOn(op, c) == work' = <<StepOf(op, c)>> \o Tail(work)

Message(op, t, c) == [op |-> op, target |-> t, call |-> c]

\* A reducer call over a socket the database has given up is never executed.
Send(op, t, c) ==
  wire' = IF socket \in open
          THEN [wire EXCEPT ![socket] = Append(@, Message(op, t, c))]
          ELSE wire

----------------------------------------------------------------------------
(* What the user does *)

\* startCall: the call before this one is over at once on this device; its
\* presence is given up when the queue gets there.
StartWork(c, previous) ==
  (IF previous = NoCall THEN <<>> ELSE <<StepOf("release", previous)>>) \o <<StepOf("join", c)>>

AlreadyIn(t) ==
  active /= NoCall /\ target[active] = t /\ installed = active /\ room[active] = "up"

StartCall(t) ==
  LET c == Len(target) + 1 IN
  /\ Len(target) < MaxCalls /\ ~AlreadyIn(t)
  /\ target' = Append(target, t) /\ valid' = valid \cup {c}
  /\ saved' = NoTarget
  /\ ClearLocalCalls(c)
  /\ work' = work \o StartWork(c, active)
  /\ UNCHANGED <<claimed, pending, socketVars, wire, serverVars, roundVars>>

JoinCall(t) == socket /= Offline /\ StartCall(t)

\* endCall: a stale view's call changes nothing.
EndActive ==
  /\ ClearLocalCalls(NoCall)
  /\ saved' = NoTarget
  /\ work' = Append(work, StepOf("release", active))
  /\ UNCHANGED <<target, valid, claimed, pending>>

EndCall ==
  /\ active /= NoCall
  /\ EndActive
  /\ UNCHANGED <<socketVars, wire, serverVars, roundVars>>

\* Rooms that die: once a session store holds the room, its 'disconnected' event
\* ends the call.
RoomsEnd(cs) ==
  IF active /= NoCall /\ installed = active /\ active \in cs
  THEN EndActive
  ELSE /\ room' = [c \in Calls |-> IF c \in cs THEN "dead" ELSE room[c]]
       /\ UNCHANGED <<callVars, work, asking, capture>>

\* retryCallCleanup, from the toast's button.
RetryCallCleanup ==
  /\ pending /= {} /\ StepOf("cleanup", NoCall) \notin ToSet(work)
  /\ work' = Append(work, StepOf("cleanup", NoCall))
  /\ UNCHANGED <<callVars, mediaVars, socketVars, wire, serverVars, roundVars>>

\* setLocalCameraEnabled: the permission prompt outlives the call.
AskCamera ==
  /\ installed /= NoCall /\ installed = active /\ room[active] = "up"
  /\ active \notin asking \cup capture
  /\ asking' = asking \cup {active}
  /\ UNCHANGED <<callVars, work, room, capture, socketVars, wire, serverVars, roundVars>>

\* assertActiveCallRoom: a late answer is not published into the old room.
CameraGranted(c) ==
  /\ c \in asking
  /\ asking' = asking \ {c}
  /\ capture' = IF IsCurrent(c) THEN capture \cup {c} ELSE capture
  /\ UNCHANGED <<callVars, work, room, socketVars, wire, serverVars, roundVars>>

----------------------------------------------------------------------------
(* The queue *)

Advance == work' = Tail(work)

Unawaited(m) == Message(m.op, m.target, NoCall)

\* A call that timed out may be executed yet; nobody waits for its answer.
NotAwaited(c) ==
  wire' = [k \in Sockets |-> [i \in DOMAIN wire[k] |->
             IF wire[k][i].call = c THEN Unawaited(wire[k][i]) ELSE wire[k][i]]]

Releases(cs) == SetToSeq({StepOf("release", c) : c \in cs})

\* The calls pending when the queue gets to the clean-up.
Cleanup ==
  /\ Doing("cleanup")
  /\ work' = Releases(pending) \o Tail(work)
  /\ UNCHANGED <<callVars, mediaVars, socketVars, wire, serverVars, roundVars>>

NothingToRelease(c) == c \notin claimed \/ c \notin valid

\* A newer call for the same target holds the presence now.
TakenOver(c) ==
  /\ active /= c /\ active \in claimed
  /\ target[active] = target[c]

\* Mutant: a retry does not look for a newer call.
ReleaseWithoutLook ==
  /\ Doing("release")
  /\ LET c == Head(work).call IN
     IF NothingToRelease(c)
     THEN Advance /\ UNCHANGED wire
     ELSE /\ socket /= Offline
          /\ Send("leave", target[c], c)
          /\ GoesOn("leaving", c)
  /\ UNCHANGED <<callVars, mediaVars, socketVars, serverVars, roundVars>>

\* releasePresence up to its await.
ReleasePresence ==
  /\ Doing("release")
  /\ LET c == Head(work).call IN
     \/ /\ NothingToRelease(c)
        /\ Advance /\ UNCHANGED <<claimed, pending, wire>>
     \/ /\ ~NothingToRelease(c) /\ TakenOver(c)
        /\ claimed' = claimed \ {c} /\ pending' = pending \ {c}
        /\ Advance /\ UNCHANGED wire
     \/ /\ ~NothingToRelease(c) /\ ~TakenOver(c) /\ socket /= Offline
        /\ Send("leave", target[c], c)
        /\ GoesOn("leaving", c)
        /\ UNCHANGED <<claimed, pending>>
  /\ UNCHANGED <<target, active, valid, installed, saved, mediaVars, socketVars,
                 serverVars, roundVars>>

\* The call times out, or there is no connection to send it over.
LeaveFails ==
  /\ \/ Doing("leaving")
     \/ Doing("release") /\ socket = Offline
        /\ ~NothingToRelease(Head(work).call) /\ ~TakenOver(Head(work).call)
  /\ LET c == Head(work).call IN
     pending' = IF c \in valid THEN pending \cup {c} ELSE pending
  /\ Advance
  /\ NotAwaited(Head(work).call)
  /\ UNCHANGED <<target, active, valid, claimed, installed, saved, mediaVars,
                 socketVars, serverVars, roundVars>>

\* Presence is claimed before the token is asked for; the join is not cancellable.
JoinPresence ==
  /\ Doing("join")
  /\ LET c == Head(work).call IN
     \/ /\ ~IsCurrent(c) /\ work' = FailWork(c) /\ UNCHANGED wire
     \/ /\ IsCurrent(c) /\ socket /= Offline
        /\ Send("join", target[c], c)
        /\ GoesOn("joining", c)
  /\ UNCHANGED <<callVars, mediaVars, socketVars, serverVars, roundVars>>

JoinFails ==
  /\ Doing("joining") \/ (Doing("join") /\ socket = Offline)
  /\ work' = FailWork(Head(work).call)
  /\ NotAwaited(Head(work).call)
  /\ UNCHANGED <<callVars, mediaVars, socketVars, serverVars, roundVars>>

\* HasVoicePresenceAsync: the account's own view shows it in the room.
Admitted(c, answered) == answered /\ row[target[c]] /= NoRow

\* /livekit/token: only whoever has the row gets one (LiveKitEndpoints.IssueToken).
Token(answered) ==
  /\ Doing("token")
  /\ LET c == Head(work).call IN
     IF IsCurrent(c) /\ Admitted(c, answered)
     THEN GoesOn("connect", c) /\ room' = [room EXCEPT ![c] = "dialing"]
     ELSE work' = FailWork(c) /\ UNCHANGED room
  /\ UNCHANGED <<callVars, asking, capture, socketVars, wire, serverVars, roundVars>>

\* connectRoomWithFallback.  Cancelled, it gives the room up.
ConnectGivesUp ==
  /\ Doing("connect")
  /\ work' = FailWork(Head(work).call)
  /\ StopRooms({Head(work).call})
  /\ UNCHANGED <<callVars, socketVars, wire, serverVars, roundVars>>

\* Mutant: the connection that finishes late is kept.
RoomConnectsUnasked(c) ==
  /\ room[c] = "dialing"
  /\ room' = [d \in Calls |-> IF d = c THEN "up"
                              ELSE IF room[d] = "up" /\ target[d] = target[c] THEN "dead" ELSE room[d]]
  /\ IF Doing("connect") /\ Head(work).call = c THEN GoesOn("install", c) ELSE UNCHANGED work
  /\ UNCHANGED <<callVars, asking, capture, socketVars, wire, serverVars, roundVars>>

\* A room that connects after its call was cancelled is stopped at once.
RoomConnects(c) ==
  /\ room[c] = "dialing"
  /\ room' = [d \in Calls |-> IF d = c THEN (IF IsCurrent(c) THEN "up" ELSE "none") ELSE room[d]]
  /\ IF IsCurrent(c) /\ Doing("connect") /\ Head(work).call = c
     THEN GoesOn("install", c) ELSE UNCHANGED work
  /\ UNCHANGED <<callVars, asking, capture, socketVars, wire, serverVars, roundVars>>

DialingEnds(c) ==
  /\ room[c] = "dialing" /\ ~(Doing("connect") /\ Head(work).call = c)
  /\ room' = [room EXCEPT ![c] = "none"]
  /\ UNCHANGED <<callVars, work, asking, capture, socketVars, wire, serverVars, roundVars>>

\* The microphone prompt comes before; then the room goes to the session store.
InstallRoom ==
  /\ Doing("install")
  /\ LET c == Head(work).call IN
     IF IsCurrent(c)
     THEN installed' = c /\ Advance /\ UNCHANGED <<active, mediaVars>>
     ELSE work' = FailWork(c) /\ StopRooms({c}) /\ UNCHANGED <<active, installed>>
  /\ UNCHANGED <<target, valid, claimed, pending, saved, socketVars, wire, serverVars, roundVars>>

\* The end of the catch block, if the user has not moved on.
CallFailed ==
  /\ Doing("fail")
  /\ IF IsCurrent(Head(work).call) THEN ClearLocalCalls(NoCall)
     ELSE UNCHANGED <<active, installed, mediaVars>>
  /\ Advance
  /\ UNCHANGED <<target, valid, claimed, pending, saved, socketVars, wire, serverVars, roundVars>>

----------------------------------------------------------------------------
(* The connection (connection.ts) and the page *)

\* Connected: pending leaves are retried, and the call whose room is installed is
\* asserted again, once and outside the queue (useVoiceLifecycle).
SocketConnects ==
  /\ socket = Offline /\ made < MaxSockets
  /\ made' = made + 1 /\ socket' = made' /\ open' = open \cup {made'}
  /\ work' = Append(work, StepOf("cleanup", NoCall))
  /\ wire' = IF installed = NoCall THEN wire
             ELSE [wire EXCEPT ![made'] = <<Message("join", target[installed], NoCall)>>]
  /\ UNCHANGED <<callVars, mediaVars, row, roundVars>>

\* The client notices that its socket is gone.
SocketDrops ==
  /\ socket /= Offline
  /\ socket' = Offline
  /\ UNCHANGED <<callVars, work, mediaVars, made, wire, serverVars, roundVars>>

Forget ==
  /\ ClearLocalCalls(NoCall)
  /\ valid' = {} /\ pending' = {}
  /\ socket' = Offline

\* resetClientState: in-flight joins are void as well as connected rooms.
SignOut ==
  /\ valid /= {}
  /\ Forget /\ saved' = NoTarget
  /\ UNCHANGED <<target, claimed, work, made, wire, serverVars, roundVars>>

\* prepareCallReload, then a new page: the queue, the rooms and the prompts go.
Reload ==
  /\ target /= <<>>
  /\ saved' = IF active /= NoCall /\ installed = active /\ room[active] = "up"
              THEN target[active] ELSE saved
  /\ active' = NoCall /\ installed' = NoCall /\ valid' = {} /\ claimed' = {} /\ pending' = {}
  /\ room' = [c \in Calls |-> "none"] /\ asking' = {} /\ capture' = {}
  /\ work' = <<>> /\ socket' = Offline
  /\ wire' = [k \in Sockets |-> [i \in DOMAIN wire[k] |-> Unawaited(wire[k][i])]]
  /\ UNCHANGED <<target, made, serverVars, roundVars>>

\* restoreCallAfterReload, once the new page is synced: consumed whatever happens.
RestoreCall ==
  /\ socket /= Offline /\ saved /= NoTarget /\ active = NoCall
  /\ StartCall(saved)

----------------------------------------------------------------------------
(* The database (voice.rs, dm_voice.rs) *)

\* Calls of one socket are executed in the order they were sent.
Delivered(k, op) ==
  /\ k \in open /\ wire[k] /= <<>> /\ Head(wire[k]).op = op
  /\ wire' = [wire EXCEPT ![k] = Tail(@)]

Awaited(m, op) == m.call /= NoCall /\ Doing(op) /\ Head(work).call = m.call

\* Committed; the client, if it still waits, claims the presence and goes through
\* the leaves still pending for the same target before it asks for a token.
ExecuteJoin(k) ==
  /\ Delivered(k, "join")
  /\ LET m == Head(wire[k])
         c == m.call IN
     /\ row' = [row EXCEPT ![m.target] = k]
     /\ IF Awaited(m, "joining")
        THEN /\ claimed' = claimed \cup {c}
             /\ work' = IF IsCurrent(c)
                        THEN Releases({p \in pending : target[p] = target[c]}) \o
                             <<StepOf("token", c)>> \o Tail(work)
                        ELSE FailWork(c)
        ELSE UNCHANGED <<claimed, work>>
  /\ UNCHANGED <<target, active, valid, pending, installed, saved, mediaVars, socketVars,
                 open, roundVars>>

\* Full, removed, blocked or silenced meanwhile.
RefuseJoin(k) ==
  /\ Delivered(k, "join")
  /\ LET m == Head(wire[k]) IN
     work' = IF Awaited(m, "joining") THEN FailWork(m.call) ELSE work
  /\ UNCHANGED <<callVars, mediaVars, socketVars, serverVars, roundVars>>

Answered(m) ==
  IF Awaited(m, "leaving")
  THEN claimed' = claimed \ {m.call} /\ pending' = pending \ {m.call} /\ Advance
  ELSE UNCHANGED <<claimed, pending, work>>

\* Another socket's row stays; the answer is the same.
ExecuteLeave(k) ==
  /\ Delivered(k, "leave")
  /\ LET m == Head(wire[k]) IN
     /\ row' = IF row[m.target] = k
               THEN [row EXCEPT ![m.target] = NoRow] ELSE row
     /\ Answered(m)
  /\ UNCHANGED <<target, active, valid, installed, saved, mediaVars, socketVars, open, roundVars>>

\* client_disconnected: its rows go, and what it had sent is not executed.
SocketSwept(k) ==
  /\ k \in open
  /\ open' = open \ {k}
  /\ row' = [t \in Targets |-> IF row[t] = k THEN NoRow ELSE row[t]]
  /\ wire' = [wire EXCEPT ![k] = <<>>]
  /\ UNCHANGED <<callVars, work, mediaVars, socketVars, roundVars>>

\* A kick, a ban, a timeout, a deleted channel or an ended friendship.
Removed(t) ==
  /\ row[t] /= NoRow
  /\ row' = [row EXCEPT ![t] = NoRow]
  /\ UNCHANGED <<callVars, work, mediaVars, socketVars, wire, open, roundVars>>

----------------------------------------------------------------------------
(* LiveKit and the reconciler (LiveKitVoiceReconciler.ReconcileOnceAsync) *)

InRoom(t) == {c \in Started : target[c] = t /\ room[c] = "up"}

\* The media server, or the network to it, gives a participant up.
RoomDies(c) ==
  /\ room[c] = "up"
  /\ RoomsEnd({c})
  /\ UNCHANGED <<socketVars, wire, serverVars, roundVars>>

\* Strikes of who is not in a room end with a round that gets to its end.
JudgedTo(t, n) ==
  /\ listed' = listed \ {t}
  /\ seen' = IF listed' = {} THEN {} ELSE seen
  /\ strikes' = [u \in Targets |-> IF u = t THEN n
                                  ELSE IF listed' = {} /\ u \notin seen THEN 0 ELSE strikes[u]]

\* ListRooms and ListParticipants, as far as this identity goes.
ListRooms ==
  /\ listed = {}
  /\ seen' = {t \in Targets : InRoom(t) /= {}} /\ listed' = seen'
  /\ strikes' = IF seen' = {} THEN [t \in Targets |-> 0] ELSE strikes
  /\ UNCHANGED <<callVars, work, mediaVars, socketVars, wire, serverVars>>

Judge(t) ==
  /\ t \in listed
  /\ JudgedTo(t, IF row[t] = NoRow /\ strikes[t] = 0 THEN 1 ELSE 0)
  /\ IF row[t] = NoRow /\ strikes[t] = 1
     THEN RoomsEnd(InRoom(t))
     ELSE UNCHANGED <<callVars, work, mediaVars>>
  /\ UNCHANGED <<socketVars, wire, serverVars>>

\* The database did not answer: the round ends here and the strikes stay.
RoundGivesUp ==
  /\ listed /= {} /\ listed' = {} /\ seen' = {}
  /\ UNCHANGED <<callVars, work, mediaVars, socketVars, wire, serverVars, strikes>>

----------------------------------------------------------------------------
Client ==
  \/ \E t \in Targets : JoinCall(t)
  \/ EndCall \/ RetryCallCleanup \/ SignOut \/ Reload \/ RestoreCall
  \/ AskCamera \/ \E c \in Calls : CameraGranted(c)
  \/ SocketConnects \/ SocketDrops

Queue ==
  \/ Cleanup \/ ReleasePresence \/ LeaveFails \/ JoinPresence \/ JoinFails
  \/ \E answered \in BOOLEAN : Token(answered)
  \/ ConnectGivesUp \/ InstallRoom \/ CallFailed
  \/ \E c \in Calls : RoomConnects(c) \/ DialingEnds(c)

Server ==
  \/ \E k \in Sockets : ExecuteJoin(k) \/ RefuseJoin(k) \/ ExecuteLeave(k) \/ SocketSwept(k)
  \/ \E t \in Targets : Removed(t) \/ Judge(t)
  \/ \E c \in Calls : RoomDies(c)
  \/ ListRooms \/ RoundGivesUp

Next == Client \/ Queue \/ Server

Spec == Init /\ [][Next]_vars

----------------------------------------------------------------------------
(* Properties *)

Ops == {"cleanup", "release", "leaving", "join", "joining", "token", "connect", "install", "fail"}
Steps == [op : Ops, call : {NoCall} \cup Started]
Messages == [op : {"join", "leave"}, target : Targets, call : {NoCall} \cup Calls]

SessionTypeOK ==
  /\ target \in Seq(Targets) /\ Len(target) <= MaxCalls
  /\ {active, installed} \subseteq {NoCall} \cup Started
  /\ active /= NoCall => active \in valid
  /\ {valid, claimed, pending} \subseteq SUBSET Started
  /\ saved \in Targets \cup {NoTarget}
  /\ work \in Seq(Steps)
  /\ room \in [Calls -> {"none", "dialing", "up", "dead"}]
  /\ made \in 0 .. MaxSockets /\ socket \in 0 .. made
  /\ wire \in [Sockets -> Seq(Messages)]
  /\ open \subseteq 1 .. made
  /\ row \in [Targets -> {NoRow} \cup Sockets]

\* One is heard and seen in the call one is in and in no other: no room outlives
\* its call, though connections finish after they were given up and permission
\* prompts are answered after the hang-up (livekit.ts:725 stopRoom, 885 "Never
\* publish into that old room").
OnlyTheCallIsOnAir ==
  /\ \A c \in Calls : room[c] = "up" => c = active
  /\ capture \subseteq {active}

HoldsPresence(t) ==
  /\ active \in claimed \ pending /\ target[active] = t
  /\ row[t] /= NoRow /\ row[t] = socket

OwnLeave == Doing("leaving") /\ Head(work).call = active

\* livekit.ts:800 "A retry from an older call must never remove a newer call's
\* presence", nor does the leave of an abandoned socket or its end.
NewerCallKeepsPresence ==
  [][\A t \in Targets :
       HoldsPresence(t) /\ ~OwnLeave /\ wire' /= wire /\ socket \in open'
       => row'[t] /= NoRow]_vars

=============================================================================
