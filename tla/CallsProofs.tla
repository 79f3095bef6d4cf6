----------------------------- MODULE CallsProofs -----------------------------
(***************************************************************************)
(* What holds of a call and of its audio for any devices, tracks, models,  *)
(* numbers of calls, sockets and clicks.                                   *)
(***************************************************************************)
EXTENDS CallSession, CallMedia, FiniteSetTheorems, SequenceTheorems, TLAPS

-----------------------------------------------------------------------------
(* The controls *)

\* The room of an ended call is off whatever its handlers still wait for.
OverIsOff == roomIs = "over" => air = Off

\* livekit.ts:885: every await of a control asserts that the room is still the
\* active call's and stops what it has started otherwise, so a hang-up silences
\* the room however many handlers are left and in whatever order they settle.
THEOREM HungUpIsAlwaysSilent == ControlsSpec => []HungUpIsSilent
<1>1. ControlsInit => OverIsOff
  BY DEF ControlsInit, OverIsOff
<1>2. OverIsOff /\ [ControlsNext]_controlVars => OverIsOff'
  <2>. SUFFICES ASSUME OverIsOff, [ControlsNext]_controlVars PROVE OverIsOff'
    OBVIOUS
  <2>1. CASE ToggleMute \/ ToggleCamera \/ ToggleScreenShare \/ ToggleDeafen
    BY <2>1 DEF OverIsOff, ToggleMute, ToggleDeafen, ToggleCamera, ToggleScreenShare, Begin
  <2>2. CASE \E k \in Kinds, d \in Devices : SelectInCard(k, d) \/ SelectInOptions(k, d)
    BY <2>2 DEF OverIsOff, SelectInCard, SelectInOptions
  <2>3. ASSUME NEW h \in handlers, Step(h) PROVE OverIsOff'
    <3>1. CASE Permission(h) \/ SwitchDevice(h)
      BY <3>1 DEF OverIsOff, Permission, SwitchDevice
    <3>2. CASE CloseMicrophone(h) \/ Media(h) \/ ManualCamera(h)
      BY <3>2 DEF OverIsOff, CloseMicrophone, Media, ManualCamera
    <3>3. CASE Patched(h)
      BY <3>3 DEF OverIsOff, Patched
    <3>4. CASE Cancelled(h)
      BY <3>4 DEF OverIsOff, Cancelled, AssertActiveCallRoom
    <3>. QED  BY <2>3, <3>1, <3>2, <3>3, <3>4 DEF Step
  <2>4. CASE (\E f \in Flags : TrackEnds(f)) \/ VolumesFollowRow
    BY <2>4 DEF OverIsOff, TrackEnds, VolumesFollowRow
  <2>5. CASE Leave
    BY <2>5 DEF OverIsOff, Leave, Off, Flags
  <2>6. CASE UNCHANGED controlVars
    BY <2>6 DEF OverIsOff, controlVars
  <2>. QED  BY <2>1, <2>2, <2>3, <2>4, <2>5, <2>6 DEF ControlsNext
<1>3. OverIsOff => HungUpIsSilent
  BY DEF OverIsOff, HungUpIsSilent
<1>. QED  BY <1>1, <1>2, <1>3, PTL DEF ControlsSpec

-----------------------------------------------------------------------------
(* Queues *)

LEMMA Popped ==
  ASSUME NEW S, NEW q \in Seq(S), q /= <<>>
  PROVE  /\ Head(q) \in S /\ Head(q) = q[1] /\ Tail(q) \in Seq(S)
         /\ DOMAIN Tail(q) = 1 .. Len(q) - 1
         /\ \A i \in DOMAIN Tail(q) : i + 1 \in DOMAIN q /\ Tail(q)[i] = q[i + 1]
OBVIOUS

LEMMA Appended ==
  ASSUME NEW S, NEW q \in Seq(S), NEW x \in S
  PROVE  /\ Append(q, x) \in Seq(S) /\ Append(q, x) /= <<>>
         /\ DOMAIN Append(q, x) = 1 .. Len(q) + 1 /\ Append(q, x)[Len(q) + 1] = x
         /\ \A i \in DOMAIN q : Append(q, x)[i] = q[i]
         /\ q /= <<>> => Head(Append(q, x)) = Head(q)
<1>1. Append(q, x) \in Seq(S) /\ Append(q, x) /= <<>> /\ Len(Append(q, x)) = Len(q) + 1
  BY AppendProperties
<1>2. /\ DOMAIN Append(q, x) = 1 .. Len(q) + 1 /\ Append(q, x)[Len(q) + 1] = x
      /\ \A i \in DOMAIN q : Append(q, x)[i] = q[i]
  OBVIOUS
<1>3. Head(Append(q, x)) = Append(q, x)[1]
  BY <1>1
<1>4. q /= <<>> => Head(q) = q[1] /\ 1 \in DOMAIN q
  OBVIOUS
<1>. QED  BY <1>1, <1>2, <1>3, <1>4

LEMMA Prefixed ==
  ASSUME NEW S, NEW q \in Seq(S), NEW p \in Seq(S), NEW x \in S
  PROVE  /\ <<x>> \o q \in Seq(S) /\ <<x>> \o q /= <<>> /\ Head(<<x>> \o q) = x
         /\ p \o q \in Seq(S)
<1>1. <<x>> \in Seq(S) /\ Len(<<x>>) = 1
  OBVIOUS
<1>2. <<x>> \o q \in Seq(S) /\ Len(<<x>> \o q) = 1 + Len(q) /\ (<<x>> \o q)[1] = x
  BY <1>1, ConcatProperties
<1>3. p \o q \in Seq(S)
  BY ConcatProperties
<1>4. <<x>> \o q /= <<>> /\ Head(<<x>> \o q) = (<<x>> \o q)[1]
  BY <1>2
<1>. QED  BY <1>2, <1>3, <1>4

LEMMA StepsAre ==
  \A op \in Ops, c \in {NoCall} \cup Started : StepOf(op, c) \in Steps
BY DEF StepOf, Steps

\* The steps of a set of calls are a queue, whichever order the code's iteration
\* over a Set stands for.
LEMMA ReleasesAreSteps ==
  ASSUME NEW cs \in SUBSET Started, Len(target) \in Nat
  PROVE  Releases(cs) \in Seq(Steps)
<1>. DEFINE S == {StepOf("release", c) : c \in cs}
            n == Cardinality(S)
            f == SetToSeq(S)
<1>1. IsFiniteSet(cs)
  <2>1. IsFiniteSet(1 .. Len(target))
    BY FS_Interval
  <2>. QED  BY <2>1, FS_Subset DEF Started
<1>2. IsFiniteSet(S)
  <2>. DEFINE h == [c \in cs |-> StepOf("release", c)]
  <2>1. h \in Surjection(cs, S)
    BY DEF Surjection
  <2>. QED  BY <1>1, <2>1, FS_Surjection
<1>3. n \in Nat /\ ExistsBijection(1 .. n, S)
  BY <1>2, FS_CardinalityType
<1>4. PICK g \in Bijection(1 .. n, S) : TRUE
  BY <1>3 DEF ExistsBijection
<1>5. g \in [1 .. n -> S] /\ IsInjective(g)
  BY <1>4 DEF Bijection, Injection, Surjection, IsInjective
<1>6. f \in [1 .. n -> S]
  BY <1>5 DEF SetToSeq
<1>7. S \subseteq Steps
  <2>1. ASSUME NEW c \in cs PROVE StepOf("release", c) \in Steps
    BY StepsAre DEF Ops
  <2>. QED  BY <2>1
<1>. HIDE DEF S, f, n
<1>8. f \in Seq(S)
  BY <1>3, <1>6, SeqDef
<1>9. f \in Seq(Steps)
  BY <1>7, <1>8, SeqMonotonic
<1>. QED  BY <1>9 DEF Releases, f, S

-----------------------------------------------------------------------------
(* The types of a session *)

\* What the work in front may give way to.
LEMMA WorkMoves ==
  ASSUME SessionTypeOK, work /= <<>>
  PROVE  /\ Head(work) \in Steps /\ Head(work).call \in {NoCall} \cup Started
         /\ Tail(work) \in Seq(Steps)
         /\ FailWork(Head(work).call) \in Seq(Steps)
         /\ \A op \in Ops, c \in {NoCall} \cup Started :
              /\ <<StepOf(op, c)>> \o Tail(work) \in Seq(Steps)
              /\ \A cs \in SUBSET Started : Releases(cs) \o <<StepOf(op, c)>> \o Tail(work) \in Seq(Steps)
         /\ \A cs \in SUBSET Started : Releases(cs) \o Tail(work) \in Seq(Steps)
<1>1. work \in Seq(Steps) /\ Len(target) \in Nat
  BY DEF SessionTypeOK
<1>2. Head(work) \in Steps /\ Tail(work) \in Seq(Steps)
  BY <1>1, Popped
<1>3. Head(work).call \in {NoCall} \cup Started
  BY <1>2 DEF Steps
<1>4. FailWork(Head(work).call) \in Seq(Steps)
  <2>1. <<StepOf("release", Head(work).call), StepOf("fail", Head(work).call)>> \in Seq(Steps)
    <3>1. StepOf("release", Head(work).call) \in Steps /\ StepOf("fail", Head(work).call) \in Steps
      BY <1>3, StepsAre DEF Ops
    <3>. QED  BY <3>1
  <2>. QED  BY <1>2, <2>1, ConcatProperties DEF FailWork
<1>5. ASSUME NEW op \in Ops, NEW c \in {NoCall} \cup Started
      PROVE  <<StepOf(op, c)>> \o Tail(work) \in Seq(Steps)
  BY <1>2, StepsAre, Prefixed
<1>6. ASSUME NEW cs \in SUBSET Started, NEW q \in Seq(Steps)
      PROVE  Releases(cs) \o q \in Seq(Steps)
  BY <1>1, ReleasesAreSteps, ConcatProperties
<1>7. ASSUME NEW op \in Ops, NEW c \in {NoCall} \cup Started, NEW cs \in SUBSET Started
      PROVE  Releases(cs) \o <<StepOf(op, c)>> \o Tail(work) \in Seq(Steps)
  <2>1. <<StepOf(op, c)>> \in Seq(Steps)
    BY StepsAre
  <2>2. Releases(cs) \o <<StepOf(op, c)>> \in Seq(Steps)
    BY <1>6, <2>1
  <2>. QED  BY <1>2, <2>2, ConcatProperties
<1>. QED  BY <1>2, <1>3, <1>4, <1>5, <1>6, <1>7

\* A call that is queued for the end of the line.
LEMMA WorkGrows ==
  ASSUME SessionTypeOK, NEW op \in Ops, NEW c \in {NoCall} \cup Started
  PROVE  Append(work, StepOf(op, c)) \in Seq(Steps)
BY StepsAre, Appended DEF SessionTypeOK

MessageOf(op, t, c) == op \in {"join", "leave"} /\ t \in Targets /\ c \in {NoCall} \cup Calls

LEMMA MessagesAre ==
  \A op, t, c : MessageOf(op, t, c) => Message(op, t, c) \in Messages
BY DEF MessageOf, Message, Messages

\* Sent over the socket, or nowhere.
LEMMA SentIsWire ==
  ASSUME SessionTypeOK, NEW op, NEW t, NEW c, MessageOf(op, t, c), Send(op, t, c)
  PROVE  wire' \in [Sockets -> Seq(Messages)]
<1>1. CASE socket \in open
  <2>1. socket \in Sockets
    BY <1>1, CallBounds DEF SessionTypeOK, Sockets
  <2>2. Append(wire[socket], Message(op, t, c)) \in Seq(Messages)
    BY <2>1, MessagesAre, Appended DEF SessionTypeOK
  <2>. QED  BY <1>1, <2>1, <2>2 DEF Send, SessionTypeOK
<1>2. CASE socket \notin open
  BY <1>2 DEF Send, SessionTypeOK
<1>. QED  BY <1>1, <1>2

LEMMA UnawaitedIs ==
  \A m \in Messages : Unawaited(m) \in Messages /\ Unawaited(m).call = NoCall
                      /\ Unawaited(m).op = m.op /\ Unawaited(m).target = m.target
BY DEF Unawaited, Message, Messages

\* Giving up an answer changes no more than who waits.
LEMMA NotAwaitedIs ==
  ASSUME SessionTypeOK, NEW c, NotAwaited(c)
  PROVE  /\ wire' \in [Sockets -> Seq(Messages)]
         /\ \A k \in Sockets : Len(wire'[k]) = Len(wire[k]) /\ DOMAIN wire'[k] = DOMAIN wire[k]
         /\ \A k \in Sockets : \A i \in DOMAIN wire[k] :
              /\ wire'[k][i].op = wire[k][i].op /\ wire'[k][i].target = wire[k][i].target
              /\ wire'[k][i].call = IF wire[k][i].call = c THEN NoCall ELSE wire[k][i].call
<1>1. ASSUME NEW k \in Sockets
      PROVE  /\ wire'[k] \in Seq(Messages) /\ Len(wire'[k]) = Len(wire[k]) /\ DOMAIN wire'[k] = DOMAIN wire[k]
             /\ \A i \in DOMAIN wire[k] :
                  /\ wire'[k][i].op = wire[k][i].op /\ wire'[k][i].target = wire[k][i].target
                  /\ wire'[k][i].call = IF wire[k][i].call = c THEN NoCall ELSE wire[k][i].call
  <2>. DEFINE q == wire[k]
  <2>1. q \in Seq(Messages) /\ DOMAIN q = 1 .. Len(q) /\ Len(q) \in Nat
    BY DEF SessionTypeOK
  <2>2. wire'[k] = [i \in DOMAIN q |-> IF q[i].call = c THEN Unawaited(q[i]) ELSE q[i]]
    BY DEF NotAwaited
  <2>. HIDE DEF q
  <2>3. \A i \in DOMAIN q : q[i] \in Messages
    BY <2>1
  <2>4. wire'[k] \in Seq(Messages) /\ Len(wire'[k]) = Len(q)
    BY <2>1, <2>2, <2>3, UnawaitedIs
  <2>. QED  BY <2>1, <2>2, <2>3, <2>4, UnawaitedIs DEF q
<1>2. wire' = [k \in Sockets |-> wire'[k]]
  BY DEF NotAwaited
<1>. QED  BY <1>1, <1>2

\* The steps of the client's queue and of its user keep the types.
LEMMA StartCallTypes ==
  ASSUME SessionTypeOK, NEW t \in Targets, StartCall(t),
         UNCHANGED <<socketVars, wire, serverVars>>
  PROVE  SessionTypeOK'
<1>. DEFINE c == Len(target) + 1
<1>1. target' = Append(target, t) /\ target \in Seq(Targets) /\ Len(target) \in Nat /\ Len(target) < MaxCalls
  BY DEF StartCall, SessionTypeOK
<1>2. target' \in Seq(Targets) /\ Len(target') = c /\ c <= MaxCalls
  BY <1>1, AppendProperties, CallBounds
<1>3. Started' = 1 .. c /\ Started \subseteq Started' /\ c \in Started'
  BY <1>1, <1>2 DEF Started
<1>4. Steps \subseteq Steps'
  BY <1>3 DEF Steps, Ops
<1>5. work \in Seq(Steps') /\ active \in {NoCall} \cup Started
  BY <1>4, SeqMonotonic DEF SessionTypeOK
<1>6. \A d \in {active, c} : d /= NoCall => StepOf("release", d) \in Steps' /\ StepOf("join", d) \in Steps'
  BY <1>3, <1>5 DEF StepOf, Steps, Ops
<1>7. work' \in Seq(Steps')
  <2>1. c /= NoCall
    BY <1>1 DEF NoCall
  <2>2. <<StepOf("join", c)>> \in Seq(Steps') /\ <<>> \in Seq(Steps')
    BY <1>6, <2>1
  <2>3. active /= NoCall => <<StepOf("release", active)>> \in Seq(Steps')
    BY <1>6
  <2>4. StartWork(c, active) \in Seq(Steps')
    BY <2>2, <2>3, ConcatProperties DEF StartWork
  <2>. QED  BY <1>5, <2>4, ConcatProperties DEF StartCall
<1>8. /\ active' = c /\ installed' = NoCall /\ valid' = valid \cup {c} /\ saved' = NoTarget
      /\ room' \in [Calls -> {"none", "dialing", "up", "dead"}]
      /\ UNCHANGED <<claimed, pending, made, socket, wire, open, row>>
  BY DEF StartCall, ClearLocalCalls, StopRooms, SessionTypeOK, socketVars, serverVars
<1>. QED  BY <1>1, <1>2, <1>3, <1>7, <1>8 DEF SessionTypeOK

LEMMA EndActiveTypes ==
  ASSUME SessionTypeOK, EndActive, UNCHANGED <<socketVars, wire, serverVars>>
  PROVE  SessionTypeOK'
<1>1. target' = target /\ Started' = Started /\ Steps' = Steps
  BY DEF EndActive, Started, Steps
<1>2. work' \in Seq(Steps)
  BY WorkGrows DEF EndActive, SessionTypeOK, Ops
<1>3. room' \in [Calls -> {"none", "dialing", "up", "dead"}]
  BY DEF EndActive, ClearLocalCalls, StopRooms, SessionTypeOK
<1>. QED  BY <1>1, <1>2, <1>3 DEF EndActive, ClearLocalCalls, SessionTypeOK, socketVars, serverVars

LEMMA RoomsEndTypes ==
  ASSUME SessionTypeOK, NEW cs, RoomsEnd(cs), UNCHANGED <<socketVars, wire, serverVars>>
  PROVE  SessionTypeOK'
<1>1. CASE active /= NoCall /\ installed = active /\ active \in cs
  BY <1>1, EndActiveTypes DEF RoomsEnd
<1>2. CASE ~(active /= NoCall /\ installed = active /\ active \in cs)
  <2>1. UNCHANGED <<callVars, work>> /\ room' \in [Calls -> {"none", "dialing", "up", "dead"}]
    BY <1>2 DEF RoomsEnd, SessionTypeOK
  <2>. QED  BY <2>1 DEF SessionTypeOK, callVars, socketVars, serverVars, Started, Steps
<1>. QED  BY <1>1, <1>2

LEMMA ClientTypes ==
  ASSUME SessionTypeOK, Client
  PROVE  SessionTypeOK'
<1>1. ASSUME NEW t \in Targets, JoinCall(t) PROVE SessionTypeOK'
  BY <1>1, StartCallTypes DEF JoinCall, StartCall
<1>2. CASE EndCall
  BY <1>2, EndActiveTypes DEF EndCall
<1>3. CASE RestoreCall
  <2>1. saved \in Targets
    BY <1>3 DEF RestoreCall, SessionTypeOK
  <2>. QED  BY <1>3, <2>1, StartCallTypes DEF RestoreCall, StartCall
<1>4. CASE RetryCallCleanup \/ AskCamera \/ (\E c \in Calls : CameraGranted(c)) \/ SocketDrops
  <2>1. UNCHANGED <<callVars, room, made, wire, open, row>> /\ socket' \in {socket, Offline}
    BY <1>4 DEF RetryCallCleanup, AskCamera, CameraGranted, SocketDrops, mediaVars, socketVars, serverVars
  <2>2. Started' = Started /\ Steps' = Steps
    BY <2>1 DEF callVars, Started, Steps
  <2>3. work' \in Seq(Steps)
    BY <1>4, WorkGrows DEF RetryCallCleanup, AskCamera, CameraGranted, SocketDrops, SessionTypeOK, Ops
  <2>4. socket' \in 0 .. made
    BY <2>1 DEF SessionTypeOK, Offline
  <2>. QED  BY <2>1, <2>2, <2>3, <2>4 DEF SessionTypeOK, callVars
<1>5. CASE SocketConnects
  <2>1. UNCHANGED <<callVars, room, row>> /\ made' = made + 1 /\ socket' = made' /\ open' = open \cup {made'}
        /\ made < MaxSockets
    BY <1>5 DEF SocketConnects, mediaVars
  <2>2. Started' = Started /\ Steps' = Steps
    BY <2>1 DEF callVars, Started, Steps
  <2>3. work' \in Seq(Steps)
    BY <1>5, WorkGrows DEF SocketConnects, Ops
  <2>4. /\ made \in Nat /\ made \in 0 .. MaxSockets /\ made' \in Sockets /\ made' \in 0 .. MaxSockets
        /\ socket' \in 0 .. made' /\ open' \subseteq 1 .. made'
    BY <2>1, CallBounds DEF SessionTypeOK, Sockets
  <2>5. wire' \in [Sockets -> Seq(Messages)]
    <3>1. CASE installed = NoCall
      BY <1>5, <3>1 DEF SocketConnects, SessionTypeOK
    <3>2. CASE installed /= NoCall
      <4>1. target[installed] \in Targets
        BY <3>2 DEF SessionTypeOK, Started
      <4>2. <<Message("join", target[installed], NoCall)>> \in Seq(Messages)
        BY <4>1, MessagesAre DEF MessageOf
      <4>. QED  BY <1>5, <2>4, <3>2, <4>2 DEF SocketConnects, SessionTypeOK
    <3>. QED  BY <3>1, <3>2
  <2>. QED  BY <2>1, <2>2, <2>3, <2>4, <2>5 DEF SessionTypeOK, callVars
<1>6. CASE SignOut
  <2>1. Started' = Started /\ Steps' = Steps
    BY <1>6 DEF SignOut, Started, Steps
  <2>2. /\ UNCHANGED <<target, claimed, work, made, wire, open, row>>
        /\ active' = NoCall /\ installed' = NoCall /\ valid' = {} /\ pending' = {} /\ socket' = Offline
        /\ saved' = NoTarget
        /\ room' \in [Calls -> {"none", "dialing", "up", "dead"}]
    BY <1>6 DEF SignOut, Forget, ClearLocalCalls, StopRooms, SessionTypeOK, serverVars
  <2>. QED  BY <2>1, <2>2 DEF SessionTypeOK, Offline
<1>7. CASE Reload
  <2>1. Started' = Started /\ Steps' = Steps
    BY <1>7 DEF Reload, Started, Steps
  <2>2. /\ UNCHANGED <<target, made, open, row>>
        /\ active' = NoCall /\ installed' = NoCall /\ valid' = {} /\ claimed' = {} /\ pending' = {}
        /\ socket' = Offline /\ work' = <<>>
        /\ room' \in [Calls -> {"none", "dialing", "up", "dead"}]
    BY <1>7 DEF Reload, SessionTypeOK, serverVars
  <2>3. saved' \in Targets \cup {NoTarget}
    BY <1>7 DEF Reload, SessionTypeOK, Started
  <2>4. wire' \in [Sockets -> Seq(Messages)]
    <3>1. ASSUME NEW k \in Sockets PROVE wire'[k] \in Seq(Messages)
      <4>. DEFINE q == wire[k]
      <4>1. q \in Seq(Messages) /\ DOMAIN q = 1 .. Len(q) /\ Len(q) \in Nat
        BY DEF SessionTypeOK
      <4>2. wire'[k] = [i \in DOMAIN q |-> Unawaited(q[i])]
        BY <1>7 DEF Reload
      <4>. HIDE DEF q
      <4>3. \A i \in DOMAIN q : Unawaited(q[i]) \in Messages
        BY <4>1, UnawaitedIs
      <4>. QED  BY <4>1, <4>2, <4>3
    <3>2. wire' = [k \in Sockets |-> wire'[k]]
      BY <1>7 DEF Reload
    <3>. QED  BY <3>1, <3>2
  <2>. QED  BY <2>1, <2>2, <2>3, <2>4 DEF SessionTypeOK, Offline
<1>. QED  BY <1>1, <1>2, <1>3, <1>4, <1>5, <1>6, <1>7 DEF Client

LEMMA QueueTypes ==
  ASSUME SessionTypeOK, Queue
  PROVE  SessionTypeOK'
<1>. USE DEF socketVars, serverVars, mediaVars
<1>1. CASE Cleanup
  <2>1. work' \in Seq(Steps) /\ UNCHANGED <<callVars, mediaVars, socketVars, wire, serverVars>>
    BY <1>1, WorkMoves DEF Cleanup, Doing, SessionTypeOK
  <2>. QED  BY <2>1 DEF SessionTypeOK, callVars, Started, Steps
<1>2. CASE ReleasePresence
  <2>. DEFINE c == Head(work).call
  <2>1. /\ UNCHANGED <<target, active, valid, installed, saved, room, made, socket, open, row>>
        /\ claimed' \in SUBSET Started /\ pending' \in SUBSET Started
    BY <1>2 DEF ReleasePresence, SessionTypeOK
  <2>2. work' \in Seq(Steps)
    BY <1>2, WorkMoves DEF ReleasePresence, Doing, Advance, GoesOn, Ops
  <2>3. wire' \in [Sockets -> Seq(Messages)]
    <3>1. CASE wire' = wire
      BY <3>1 DEF SessionTypeOK
    <3>2. CASE Send("leave", target[c], c) /\ c \in claimed
      <4>1. MessageOf("leave", target[c], c)
        BY <3>2, CallBounds DEF SessionTypeOK, MessageOf, Started, Calls
      <4>. QED  BY <3>2, <4>1, SentIsWire
    <3>. QED  BY <1>2, <3>1, <3>2 DEF ReleasePresence, NothingToRelease
  <2>. QED  BY <2>1, <2>2, <2>3 DEF SessionTypeOK, Started, Steps
<1>3. CASE LeaveFails
  <2>1. /\ UNCHANGED <<target, active, valid, claimed, installed, saved, room, made, socket, open, row>>
        /\ pending' \in SUBSET Started
    BY <1>3 DEF LeaveFails, SessionTypeOK
  <2>2. work' \in Seq(Steps) /\ wire' \in [Sockets -> Seq(Messages)]
    BY <1>3, WorkMoves, NotAwaitedIs DEF LeaveFails, Doing, Advance
  <2>. QED  BY <2>1, <2>2 DEF SessionTypeOK, Started, Steps
<1>4. CASE JoinPresence
  <2>. DEFINE c == Head(work).call
  <2>1. work' \in Seq(Steps)
    BY <1>4, WorkMoves DEF JoinPresence, Doing, GoesOn, Ops
  <2>2. wire' \in [Sockets -> Seq(Messages)]
    <3>1. CASE wire' = wire
      BY <3>1 DEF SessionTypeOK
    <3>2. CASE Send("join", target[c], c) /\ IsCurrent(c)
      <4>1. MessageOf("join", target[c], c)
        BY <3>2, CallBounds DEF SessionTypeOK, MessageOf, Started, Calls, IsCurrent
      <4>. QED  BY <3>2, <4>1, SentIsWire
    <3>. QED  BY <1>4, <3>1, <3>2 DEF JoinPresence
  <2>. QED  BY <1>4, <2>1, <2>2 DEF JoinPresence, SessionTypeOK, callVars, Started, Steps
<1>5. CASE JoinFails
  <2>1. work' \in Seq(Steps) /\ wire' \in [Sockets -> Seq(Messages)]
    BY <1>5, WorkMoves, NotAwaitedIs DEF JoinFails, Doing
  <2>. QED  BY <1>5, <2>1 DEF JoinFails, SessionTypeOK, callVars, Started, Steps
<1>6. ASSUME NEW answered \in BOOLEAN, Token(answered) PROVE SessionTypeOK'
  <2>1. work' \in Seq(Steps)
    BY <1>6, WorkMoves DEF Token, Doing, GoesOn, Ops
  <2>2. room' \in [Calls -> {"none", "dialing", "up", "dead"}]
    BY <1>6 DEF Token, SessionTypeOK
  <2>. QED  BY <1>6, <2>1, <2>2 DEF Token, SessionTypeOK, callVars, Started, Steps
<1>7. CASE ConnectGivesUp \/ InstallRoom \/ CallFailed
  <2>1. work' \in Seq(Steps) /\ Head(work).call \in {NoCall} \cup Started
    BY <1>7, WorkMoves DEF ConnectGivesUp, InstallRoom, CallFailed, Doing, Advance
  <2>2. room' \in [Calls -> {"none", "dialing", "up", "dead"}]
    BY <1>7 DEF ConnectGivesUp, InstallRoom, CallFailed, ClearLocalCalls, StopRooms, SessionTypeOK
  <2>3. active' \in {active, NoCall} /\ installed' \in {NoCall} \cup Started
    BY <1>7, <2>1 DEF ConnectGivesUp, InstallRoom, CallFailed, ClearLocalCalls, callVars, SessionTypeOK
  <2>. QED  BY <1>7, <2>1, <2>2, <2>3
            DEF ConnectGivesUp, InstallRoom, CallFailed, SessionTypeOK, callVars, Started, Steps
<1>8. ASSUME NEW c \in Calls, RoomConnects(c) \/ DialingEnds(c) PROVE SessionTypeOK'
  <2>1. room' \in [Calls -> {"none", "dialing", "up", "dead"}]
    BY <1>8 DEF RoomConnects, DialingEnds, SessionTypeOK
  <2>2. work' \in Seq(Steps)
    <3>1. CASE work' = work
      BY <3>1 DEF SessionTypeOK
    <3>2. CASE Doing("connect") /\ Head(work).call = c /\ GoesOn("install", c)
      BY <3>2, WorkMoves DEF Doing, GoesOn, Ops
    <3>. QED  BY <1>8, <3>1, <3>2 DEF RoomConnects, DialingEnds
  <2>. QED  BY <1>8, <2>1, <2>2 DEF RoomConnects, DialingEnds, SessionTypeOK, callVars, Started, Steps
<1>. QED  BY <1>1, <1>2, <1>3, <1>4, <1>5, <1>6, <1>7, <1>8 DEF Queue

\* What a delivered call leaves on the wires.
LEMMA DeliveredIs ==
  ASSUME SessionTypeOK, NEW k \in Sockets, NEW op, Delivered(k, op)
  PROVE  /\ wire[k] \in Seq(Messages) /\ wire[k] /= <<>> /\ Head(wire[k]) = wire[k][1] /\ 1 \in DOMAIN wire[k]
         /\ Head(wire[k]) \in Messages /\ Head(wire[k]).op = op
         /\ wire' \in [Sockets -> Seq(Messages)] /\ wire' = [wire EXCEPT ![k] = Tail(wire[k])]
         /\ \A i \in DOMAIN wire'[k] : i + 1 \in DOMAIN wire[k] /\ wire'[k][i] = wire[k][i + 1]
<1>1. wire[k] \in Seq(Messages) /\ wire[k] /= <<>> /\ wire' = [wire EXCEPT ![k] = Tail(wire[k])]
  BY DEF Delivered, SessionTypeOK
<1>2. /\ Head(wire[k]) \in Messages /\ Head(wire[k]) = wire[k][1] /\ Tail(wire[k]) \in Seq(Messages)
      /\ \A i \in DOMAIN Tail(wire[k]) : i + 1 \in DOMAIN wire[k] /\ Tail(wire[k])[i] = wire[k][i + 1]
  BY <1>1, Popped
<1>3. 1 \in DOMAIN wire[k]
  BY <1>1
<1>4. wire'[k] = Tail(wire[k]) /\ wire' \in [Sockets -> Seq(Messages)]
  BY <1>1, <1>2 DEF SessionTypeOK
<1>. QED  BY <1>1, <1>2, <1>3, <1>4 DEF Delivered

LEMMA ServerTypes ==
  ASSUME SessionTypeOK, Server
  PROVE  SessionTypeOK'
<1>. USE DEF socketVars, serverVars, mediaVars
<1>1. ASSUME NEW k \in Sockets, ExecuteJoin(k) PROVE SessionTypeOK'
  <2>. DEFINE m == Head(wire[k])
  <2>1. Delivered(k, "join")
    BY <1>1 DEF ExecuteJoin
  <2>2. wire' \in [Sockets -> Seq(Messages)] /\ m.target \in Targets
    BY <2>1, DeliveredIs DEF Messages
  <2>3. row' \in [Targets -> {NoRow} \cup Sockets]
    BY <1>1, <2>2 DEF ExecuteJoin, SessionTypeOK
  <2>4. claimed' \in SUBSET Started /\ work' \in Seq(Steps)
    <3>1. CASE Awaited(m, "joining")
      <4>1. work /= <<>> /\ m.call \in Started
        BY <3>1, WorkMoves DEF Awaited, Doing
      <4>2. {p \in pending : target[p] = target[m.call]} \in SUBSET Started
        BY DEF SessionTypeOK
      <4>3. claimed' = claimed \cup {m.call}
            /\ \/ work' = Releases({p \in pending : target[p] = target[m.call]}) \o <<StepOf("token", m.call)>> \o Tail(work)
               \/ work' = FailWork(m.call)
        BY <1>1, <3>1 DEF ExecuteJoin
      <4>4. FailWork(m.call) \in Seq(Steps)
        BY <3>1, <4>1, WorkMoves DEF Awaited
      <4>5. Releases({p \in pending : target[p] = target[m.call]}) \o <<StepOf("token", m.call)>> \o Tail(work) \in Seq(Steps)
        BY <4>1, <4>2, WorkMoves DEF Ops
      <4>. QED  BY <4>1, <4>3, <4>4, <4>5 DEF SessionTypeOK
    <3>2. CASE ~Awaited(m, "joining")
      BY <1>1, <3>2 DEF ExecuteJoin, SessionTypeOK
    <3>. QED  BY <3>1, <3>2
  <2>. QED  BY <1>1, <2>2, <2>3, <2>4 DEF ExecuteJoin, SessionTypeOK, Started, Steps
<1>2. ASSUME NEW k \in Sockets, RefuseJoin(k) PROVE SessionTypeOK'
  <2>1. Delivered(k, "join")
    BY <1>2 DEF RefuseJoin
  <2>2. work' \in Seq(Steps)
    BY <1>2, WorkMoves DEF RefuseJoin, Awaited, Doing, SessionTypeOK
  <2>. QED  BY <1>2, <2>1, <2>2, DeliveredIs DEF RefuseJoin, SessionTypeOK, callVars, Started, Steps
<1>3. ASSUME NEW k \in Sockets, ExecuteLeave(k) PROVE SessionTypeOK'
  <2>1. Delivered(k, "leave")
    BY <1>3 DEF ExecuteLeave
  <2>2. work' \in Seq(Steps) /\ claimed' \in SUBSET Started /\ pending' \in SUBSET Started
    BY <1>3, WorkMoves DEF ExecuteLeave, Answered, Advance, Awaited, Doing, SessionTypeOK
  <2>3. row' \in [Targets -> {NoRow} \cup Sockets]
    BY <1>3 DEF ExecuteLeave, SessionTypeOK
  <2>. QED  BY <1>3, <2>1, <2>2, <2>3, DeliveredIs DEF ExecuteLeave, SessionTypeOK, Started, Steps
<1>4. ASSUME NEW k \in Sockets, SocketSwept(k) PROVE SessionTypeOK'
  <2>1. row' \in [Targets -> {NoRow} \cup Sockets] /\ open' \subseteq 1 .. made
    BY <1>4 DEF SocketSwept, SessionTypeOK
  <2>2. wire' \in [Sockets -> Seq(Messages)]
    BY <1>4, EmptySeq DEF SocketSwept, SessionTypeOK
  <2>. QED  BY <1>4, <2>1, <2>2 DEF SocketSwept, SessionTypeOK, callVars, Started, Steps
<1>5. ASSUME NEW t \in Targets, Removed(t) PROVE SessionTypeOK'
  BY <1>5 DEF Removed, SessionTypeOK, callVars, Started, Steps
<1>6. ASSUME NEW t \in Targets, Judge(t) PROVE SessionTypeOK'
  <2>1. CASE UNCHANGED <<callVars, work, mediaVars>>
    BY <1>6, <2>1 DEF Judge, SessionTypeOK, callVars, Started, Steps
  <2>. QED  BY <1>6, <2>1, RoomsEndTypes DEF Judge
<1>7. ASSUME NEW c \in Calls, RoomDies(c) PROVE SessionTypeOK'
  BY <1>7, RoomsEndTypes DEF RoomDies
<1>8. CASE ListRooms \/ RoundGivesUp
  BY <1>8 DEF ListRooms, RoundGivesUp, SessionTypeOK, callVars, Started, Steps
<1>. QED  BY <1>1, <1>2, <1>3, <1>4, <1>5, <1>6, <1>7, <1>8 DEF Server

\* The shapes of a session's variables hold whatever is joined, lost and reloaded
\* (callWork, pendingLeaves, the presence rows and the calls on the way).
THEOREM SessionTypeCorrect == Spec => []SessionTypeOK
<1>1. Init => SessionTypeOK
  <2>. SUFFICES ASSUME Init PROVE SessionTypeOK
    OBVIOUS
  <2>1. target = <<>> /\ work = <<>> /\ target \in Seq(Targets) /\ work \in Seq(Steps) /\ Len(target) = 0
    BY EmptySeq DEF Init
  <2>2. wire \in [Sockets -> Seq(Messages)]
    BY EmptySeq DEF Init
  <2>. QED  BY <2>1, <2>2, CallBounds DEF Init, SessionTypeOK, Offline
<1>2. SessionTypeOK /\ [Next]_vars => SessionTypeOK'
  <2>1. SessionTypeOK /\ UNCHANGED vars => SessionTypeOK'
    BY DEF SessionTypeOK, vars, callVars, mediaVars, socketVars, serverVars, Started, Steps
  <2>. QED  BY <2>1, ClientTypes, QueueTypes, ServerTypes DEF Next
<1>. QED  BY <1>1, <1>2, PTL DEF Spec

-----------------------------------------------------------------------------
(* The rooms *)

\* Ownership goes before the rooms are stopped, so whoever loses the call is off.
LEMMA ClearedIsOffAir ==
  ASSUME SessionTypeOK, OnlyTheCallIsOnAir, NEW next, ClearLocalCalls(next)
  PROVE  OnlyTheCallIsOnAir'
BY DEF ClearLocalCalls, StopRooms, OnlyTheCallIsOnAir

\* livekit.ts:725, 885: whatever connects, is granted or dies late, one is on air
\* in the call one is in only, for any number of calls and targets.
THEOREM OnlyTheCallIsEverOnAir == Spec => []OnlyTheCallIsOnAir
<1>1. Init => OnlyTheCallIsOnAir
  BY DEF Init, OnlyTheCallIsOnAir
<1>2. SessionTypeOK /\ OnlyTheCallIsOnAir /\ [Next]_vars => OnlyTheCallIsOnAir'
  <2>. SUFFICES ASSUME SessionTypeOK, OnlyTheCallIsOnAir, [Next]_vars PROVE OnlyTheCallIsOnAir'
    OBVIOUS
  <2>1. ASSUME UNCHANGED <<active, room>>, capture' \subseteq capture \cup {active}
        PROVE  OnlyTheCallIsOnAir'
    BY <2>1 DEF OnlyTheCallIsOnAir
  <2>2. ASSUME NEW cs, RoomsEnd(cs) PROVE OnlyTheCallIsOnAir'
    BY <2>2, ClearedIsOffAir DEF RoomsEnd, EndActive, callVars, OnlyTheCallIsOnAir
  <2>3. CASE Client
    <3>1. CASE (\E t \in Targets : JoinCall(t)) \/ EndCall \/ SignOut \/ RestoreCall
      BY <3>1, ClearedIsOffAir DEF JoinCall, StartCall, EndCall, EndActive, SignOut, Forget, RestoreCall
    <3>2. CASE Reload
      BY <3>2 DEF Reload, OnlyTheCallIsOnAir
    <3>3. CASE RetryCallCleanup \/ AskCamera \/ SocketConnects \/ SocketDrops
      BY <2>1, <3>3 DEF RetryCallCleanup, AskCamera, SocketConnects, SocketDrops, callVars, mediaVars
    <3>4. ASSUME NEW c \in Calls, CameraGranted(c) PROVE OnlyTheCallIsOnAir'
      BY <2>1, <3>4 DEF CameraGranted, IsCurrent, callVars
    <3>. QED  BY <2>3, <3>1, <3>2, <3>3, <3>4 DEF Client
  <2>4. CASE Queue
    <3>1. CASE Cleanup \/ ReleasePresence \/ LeaveFails \/ JoinPresence \/ JoinFails
      BY <2>1, <3>1 DEF Cleanup, ReleasePresence, LeaveFails, JoinPresence, JoinFails, callVars, mediaVars
    <3>2. ASSUME NEW answered \in BOOLEAN, Token(answered) PROVE OnlyTheCallIsOnAir'
      BY <3>2 DEF Token, OnlyTheCallIsOnAir, callVars, SessionTypeOK
    <3>3. CASE ConnectGivesUp \/ InstallRoom \/ CallFailed
      BY <3>3, ClearedIsOffAir DEF ConnectGivesUp, InstallRoom, CallFailed, StopRooms, OnlyTheCallIsOnAir,
           callVars, mediaVars
    <3>4. ASSUME NEW c \in Calls, RoomConnects(c) \/ DialingEnds(c) PROVE OnlyTheCallIsOnAir'
      BY <3>4 DEF RoomConnects, DialingEnds, IsCurrent, OnlyTheCallIsOnAir, callVars, SessionTypeOK
    <3>. QED  BY <2>4, <3>1, <3>2, <3>3, <3>4 DEF Queue
  <2>5. CASE Server
    <3>1. ASSUME NEW k \in Sockets, ExecuteJoin(k) \/ RefuseJoin(k) \/ ExecuteLeave(k) \/ SocketSwept(k)
          PROVE  OnlyTheCallIsOnAir'
      BY <2>1, <3>1 DEF ExecuteJoin, RefuseJoin, ExecuteLeave, SocketSwept, callVars, mediaVars
    <3>2. ASSUME NEW t \in Targets, Removed(t) \/ Judge(t) PROVE OnlyTheCallIsOnAir'
      BY <2>1, <2>2, <3>2 DEF Removed, Judge, callVars, mediaVars
    <3>3. ASSUME NEW c \in Calls, RoomDies(c) PROVE OnlyTheCallIsOnAir'
      BY <2>2, <3>3 DEF RoomDies
    <3>4. CASE ListRooms \/ RoundGivesUp
      BY <2>1, <3>4 DEF ListRooms, RoundGivesUp, callVars, mediaVars
    <3>. QED  BY <2>5, <3>1, <3>2, <3>3, <3>4 DEF Server
  <2>6. CASE UNCHANGED vars
    BY <2>1, <2>6 DEF vars, callVars, mediaVars
  <2>. QED  BY <2>3, <2>4, <2>5, <2>6 DEF Next
<1>. QED  BY <1>1, <1>2, SessionTypeCorrect, PTL DEF Spec

-----------------------------------------------------------------------------
(* The presence of the newer call *)

\* A socket that is not made yet has sent nothing.
Unsent == \A k \in Sockets : k > made => wire[k] = <<>>

NobodyWaits == \A k \in Sockets : \A i \in DOMAIN wire[k] : wire[k][i].call = NoCall

\* Whoever waits for an answer is the work in front, for this very call.
AnswersAreAwaited ==
  \A k \in Sockets : \A i \in DOMAIN wire[k] :
    wire[k][i].call /= NoCall =>
      /\ work /= <<>> /\ Head(work).call = wire[k][i].call
      /\ Head(work).op = IF wire[k][i].op = "join" THEN "joining" ELSE "leaving"

OneAwaited ==
  \A k, l \in Sockets : \A i \in DOMAIN wire[k], j \in DOMAIN wire[l] :
    wire[k][i].call /= NoCall /\ wire[l][j].call /= NoCall => k = l /\ i = j

\* The queue sends nothing while it waits: no leave follows the join it waits for,
\* on the socket it was sent over or on the one opened meanwhile.
JoinIsLast ==
  \A k \in Sockets : \A i \in DOMAIN wire[k] :
    wire[k][i].call /= NoCall /\ wire[k][i].op = "join" =>
      /\ \A j \in DOMAIN wire[k] : j > i => wire[k][j].op = "join"
      /\ socket \notin {k, Offline} => \A j \in DOMAIN wire[socket] : wire[socket][j].op = "join"

\* The only leave on the client's socket for a presence it holds is the one it is
\* giving up itself.
OwnLeaves ==
  active \in claimed \ pending /\ socket /= Offline =>
    \A i \in DOMAIN wire[socket] :
      wire[socket][i].op = "leave" /\ wire[socket][i].target = target[active] => wire[socket][i].call = active

Awaiting == Unsent /\ AnswersAreAwaited /\ OneAwaited /\ JoinIsLast
PresenceInv == Awaiting /\ OwnLeaves

LEMMA NobodyIsAwaiting == Unsent' /\ NobodyWaits' => Awaiting'
BY DEF Awaiting, Unsent, NobodyWaits, AnswersAreAwaited, OneAwaited, JoinIsLast

LEMMA IdleNobodyWaits ==
  ASSUME Awaiting, ~Doing("joining"), ~Doing("leaving")
  PROVE  NobodyWaits
BY DEF Awaiting, AnswersAreAwaited, NobodyWaits, Doing

\* The work in front stays and nothing is sent.
LEMMA SameFront ==
  ASSUME Awaiting, UNCHANGED <<wire, made>>, socket' \in {socket, Offline},
         work /= <<>> => work' /= <<>> /\ Head(work') = Head(work)
  PROVE  Awaiting'
BY DEF Awaiting, Unsent, AnswersAreAwaited, OneAwaited, JoinIsLast

LEMMA SameLeaves ==
  ASSUME OwnLeaves, UNCHANGED <<target, wire>>, socket' \in {socket, Offline},
         \/ active' \notin claimed' \ pending'
         \/ active' = active /\ active \in claimed \ pending
  PROVE  OwnLeaves'
BY DEF OwnLeaves

\* A leave somebody waits for is that of the work in front, so a presence that is
\* held meets none while the queue does something else or leaves another call.
LEMMA NoLeaveMeanwhile ==
  ASSUME SessionTypeOK, PresenceInv, active \in claimed \ pending, socket /= Offline,
         ~(Doing("leaving") /\ Head(work).call = active)
  PROVE  \A i \in DOMAIN wire[socket] : ~(wire[socket][i].op = "leave" /\ wire[socket][i].target = target[active])
<1>1. active /= NoCall /\ socket \in Sockets
  BY CallBounds DEF SessionTypeOK, Started, NoCall, Sockets, Offline
<1>. QED  BY <1>1 DEF PresenceInv, Awaiting, AnswersAreAwaited, OwnLeaves, Doing

\* Calls that are executed or swept.
LEMMA Fewer ==
  ASSUME SessionTypeOK, PresenceInv, NEW d \in [Sockets -> {0, 1}],
         UNCHANGED <<work, socket, made, active, target, claimed, pending>>,
         wire' \in [Sockets -> Seq(Messages)],
         \A k \in Sockets : \A i \in DOMAIN wire'[k] :
           i + d[k] \in DOMAIN wire[k] /\ wire'[k][i] = wire[k][i + d[k]]
  PROVE  PresenceInv'
<1>1. \A k \in Sockets : DOMAIN wire[k] \subseteq Nat /\ DOMAIN wire'[k] \subseteq Nat
  BY DEF SessionTypeOK
<1>2. Unsent'
  BY DEF Unsent, PresenceInv, Awaiting
<1>3. AnswersAreAwaited'
  BY DEF AnswersAreAwaited, PresenceInv, Awaiting
<1>4. OneAwaited'
  <2>1. ASSUME NEW k \in Sockets, NEW l \in Sockets, NEW i \in DOMAIN wire'[k], NEW j \in DOMAIN wire'[l],
               wire'[k][i].call /= NoCall, wire'[l][j].call /= NoCall
        PROVE  k = l /\ i = j
    <3>1. k = l /\ i + d[k] = j + d[l]
      BY <2>1 DEF OneAwaited, PresenceInv, Awaiting
    <3>2. i \in Nat /\ j \in Nat /\ d[k] \in Nat
      BY <1>1
    <3>. QED  BY <3>1, <3>2
  <2>. QED  BY <2>1 DEF OneAwaited
<1>5. socket' /= Offline => socket \in Sockets
  BY CallBounds DEF SessionTypeOK, Sockets, Offline
<1>6. JoinIsLast'
  <2>1. ASSUME NEW k \in Sockets, NEW i \in DOMAIN wire'[k],
               wire'[k][i].call /= NoCall, wire'[k][i].op = "join"
        PROVE  /\ \A j \in DOMAIN wire'[k] : j > i => wire'[k][j].op = "join"
               /\ socket' \notin {k, Offline} => \A j \in DOMAIN wire'[socket'] : wire'[socket'][j].op = "join"
    <3>1. i + d[k] \in DOMAIN wire[k] /\ wire[k][i + d[k]].call /= NoCall /\ wire[k][i + d[k]].op = "join"
      BY <2>1
    <3>2. /\ \A j \in DOMAIN wire[k] : j > i + d[k] => wire[k][j].op = "join"
          /\ socket \notin {k, Offline} => \A j \in DOMAIN wire[socket] : wire[socket][j].op = "join"
      BY <3>1 DEF JoinIsLast, PresenceInv, Awaiting
    <3>3. ASSUME NEW j \in DOMAIN wire'[k], j > i PROVE wire'[k][j].op = "join"
      <4>1. j + d[k] \in DOMAIN wire[k] /\ j + d[k] > i + d[k] /\ wire'[k][j] = wire[k][j + d[k]]
        BY <1>1, <3>3
      <4>. QED  BY <3>2, <4>1
    <3>. QED  BY <1>5, <3>2, <3>3
  <2>. QED  BY <2>1 DEF JoinIsLast
<1>7. OwnLeaves'
  BY <1>5 DEF OwnLeaves, PresenceInv
<1>. QED  BY <1>2, <1>3, <1>4, <1>6, <1>7 DEF PresenceInv, Awaiting

\* What the user does appends to the queue or ends the call.
LEMMA FrontAppended ==
  ASSUME SessionTypeOK, NEW x, work' = Append(work, x), x \in Steps
  PROVE  work /= <<>> => work' /= <<>> /\ Head(work') = Head(work)
BY Appended DEF SessionTypeOK

LEMMA StartKeepsPresence ==
  ASSUME SessionTypeOK, PresenceInv, NEW t, StartCall(t), UNCHANGED <<socketVars, wire>>
  PROVE  PresenceInv'
<1>. DEFINE c == Len(target) + 1
<1>1. active' = c /\ claimed' = claimed /\ c \notin claimed
  BY DEF StartCall, ClearLocalCalls, SessionTypeOK, Started
<1>2. work /= <<>> => work' /= <<>> /\ Head(work') = Head(work)
  <2>1. work' = work \o StartWork(c, active) /\ work \in Seq(Steps)
    BY DEF StartCall, SessionTypeOK
  <2>2. StartWork(c, active) \in Seq({StepOf("release", active), StepOf("join", c)})
    <3>1. CASE active = NoCall
      BY <3>1 DEF StartWork
    <3>2. CASE active /= NoCall
      BY <3>2 DEF StartWork
    <3>. QED  BY <3>1, <3>2
  <2>. DEFINE S == Steps \cup {StepOf("release", active), StepOf("join", c)}
  <2>3. work \in Seq(S) /\ StartWork(c, active) \in Seq(S)
    BY <2>1, <2>2, SeqMonotonic
  <2>. HIDE DEF S
  <2>4. work' \in Seq(S) /\ Len(work') = Len(work) + Len(StartWork(c, active))
        /\ \A j \in 1 .. Len(work) + Len(StartWork(c, active)) :
              work'[j] = IF j <= Len(work) THEN work[j] ELSE StartWork(c, active)[j - Len(work)]
    BY <2>1, <2>3, ConcatProperties
  <2>5. Len(StartWork(c, active)) \in Nat
    BY <2>3
  <2>6. ASSUME work /= <<>> PROVE work' /= <<>> /\ Head(work') = Head(work)
    <3>1. Len(work) \in Nat /\ Len(work) >= 1 /\ Head(work) = work[1]
      BY <2>3, <2>6
    <3>2. Len(work') >= 1 /\ work'[1] = work[1]
      BY <2>4, <2>5, <3>1
    <3>. QED  BY <2>4, <3>1, <3>2
  <2>. QED  BY <2>6
<1>3. Awaiting'
  BY <1>2, SameFront DEF PresenceInv, socketVars
<1>4. OwnLeaves'
  BY <1>1 DEF OwnLeaves
<1>. QED  BY <1>3, <1>4 DEF PresenceInv

LEMMA EndKeepsPresence ==
  ASSUME SessionTypeOK, PresenceInv, EndActive, UNCHANGED <<socketVars, wire>>
  PROVE  PresenceInv'
<1>1. StepOf("release", active) \in Steps /\ NoCall \notin claimed
  BY StepsAre DEF SessionTypeOK, Ops, Started, NoCall
<1>2. active' = NoCall /\ claimed' = claimed /\ target' = target
  BY DEF EndActive, ClearLocalCalls
<1>3. Awaiting'
  BY <1>1, FrontAppended, SameFront DEF EndActive, PresenceInv, socketVars
<1>4. OwnLeaves'
  BY <1>1, <1>2 DEF OwnLeaves
<1>. QED  BY <1>3, <1>4 DEF PresenceInv

LEMMA RoomsEndKeepsPresence ==
  ASSUME SessionTypeOK, PresenceInv, NEW cs, RoomsEnd(cs), UNCHANGED <<socketVars, wire>>
  PROVE  PresenceInv'
<1>1. CASE UNCHANGED <<callVars, work>>
  BY <1>1, SameFront, SameLeaves DEF PresenceInv, callVars, socketVars, OwnLeaves
<1>2. CASE EndActive
  BY <1>2, EndKeepsPresence
<1>. QED  BY <1>1, <1>2 DEF RoomsEnd

LEMMA ClientKeepsPresence ==
  ASSUME SessionTypeOK, PresenceInv, Client
  PROVE  PresenceInv'
<1>1. CASE (\E t \in Targets : JoinCall(t)) \/ RestoreCall
  BY <1>1, StartKeepsPresence DEF JoinCall, RestoreCall, StartCall
<1>2. CASE EndCall
  BY <1>2, EndKeepsPresence DEF EndCall
<1>3. CASE RetryCallCleanup
  <2>1. StepOf("cleanup", NoCall) \in Steps
    BY StepsAre DEF Ops
  <2>2. Awaiting'
    BY <1>3, <2>1, FrontAppended, SameFront DEF RetryCallCleanup, PresenceInv, socketVars
  <2>. QED  BY <1>3, <2>2 DEF RetryCallCleanup, PresenceInv, OwnLeaves, callVars, socketVars
<1>4. CASE AskCamera \/ (\E c \in Calls : CameraGranted(c))
  <2>1. UNCHANGED <<callVars, work, socketVars, wire>>
    BY <1>4 DEF AskCamera, CameraGranted
  <2>. QED  BY <2>1, SameFront DEF PresenceInv, OwnLeaves, callVars, socketVars
<1>5. CASE SocketDrops
  <2>1. UNCHANGED <<work, made, wire>> /\ socket' = Offline
    BY <1>5 DEF SocketDrops
  <2>. QED  BY <2>1, SameFront DEF PresenceInv, OwnLeaves
<1>6. CASE SignOut
  <2>1. UNCHANGED <<work, made, wire>> /\ socket' = Offline
    BY <1>6 DEF SignOut, Forget
  <2>. QED  BY <2>1, SameFront DEF PresenceInv, OwnLeaves
<1>7. CASE Reload
  <2>1. \A k \in Sockets : wire[k] \in Seq(Messages) /\ wire'[k] = [i \in DOMAIN wire[k] |-> Unawaited(wire[k][i])]
    BY <1>7 DEF Reload, SessionTypeOK
  <2>2. NobodyWaits'
    <3>1. ASSUME NEW k \in Sockets, NEW i \in DOMAIN wire'[k] PROVE wire'[k][i].call = NoCall
      <4>. DEFINE q == wire[k]
      <4>1. q \in Seq(Messages) /\ i \in DOMAIN q /\ wire'[k][i] = Unawaited(q[i])
        BY <2>1
      <4>. HIDE DEF q
      <4>. QED  BY <4>1, UnawaitedIs
    <3>. QED  BY <3>1 DEF NobodyWaits
  <2>3. Unsent'
    BY <1>7, <2>1 DEF Unsent, PresenceInv, Awaiting, Reload
  <2>. QED  BY <1>7, <2>2, <2>3, NobodyIsAwaiting DEF PresenceInv, OwnLeaves, Reload
<1>8. CASE SocketConnects
  <2>1. /\ UNCHANGED callVars /\ made' = made + 1 /\ socket' = made' /\ socket = Offline /\ made' \in Sockets
        /\ \A k \in Sockets \ {made'} : wire'[k] = wire[k]
        /\ wire' \in [Sockets -> Seq(Messages)]
        /\ wire[made'] = <<>>
    <3>1. made \in Nat /\ made' = made + 1 /\ made < MaxSockets /\ socket' = made' /\ socket = Offline
      BY <1>8 DEF SocketConnects, SessionTypeOK
    <3>2. made' \in Sockets
      BY <3>1, CallBounds DEF Sockets
    <3>3. wire[made'] = <<>>
      BY <3>1, <3>2 DEF Unsent, PresenceInv, Awaiting
    <3>4. wire' \in [Sockets -> Seq(Messages)]
      BY <1>8, ClientTypes DEF SessionTypeOK, Messages
    <3>. QED  BY <1>8, <3>1, <3>2, <3>3, <3>4 DEF SocketConnects, SessionTypeOK
  <2>2. \A i \in DOMAIN wire'[made'] : wire'[made'][i].op = "join" /\ wire'[made'][i].call = NoCall
    <3>1. CASE wire' = wire
      BY <2>1, <3>1
    <3>2. CASE wire' = [wire EXCEPT ![made'] = <<Message("join", target[installed], NoCall)>>]
      <4>1. wire'[made'] = <<Message("join", target[installed], NoCall)>>
        BY <2>1, <3>2 DEF SessionTypeOK
      <4>2. DOMAIN wire'[made'] = {1}
        BY <4>1
      <4>. QED  BY <4>1, <4>2 DEF Message
    <3>. QED  BY <1>8, <3>1, <3>2 DEF SocketConnects
  <2>3. work /= <<>> => work' /= <<>> /\ Head(work') = Head(work)
    BY <1>8, StepsAre, FrontAppended DEF SocketConnects, Ops
  <2>4. Unsent'
    BY <2>1 DEF Unsent, PresenceInv, Awaiting, SessionTypeOK
  <2>5. AnswersAreAwaited'
    BY <2>1, <2>2, <2>3 DEF AnswersAreAwaited, PresenceInv, Awaiting
  <2>6. OneAwaited'
    BY <2>1, <2>2 DEF OneAwaited, PresenceInv, Awaiting
  <2>7. JoinIsLast'
    BY <2>1, <2>2 DEF JoinIsLast, PresenceInv, Awaiting
  <2>8. OwnLeaves'
    BY <2>1, <2>2 DEF OwnLeaves
  <2>. QED  BY <2>4, <2>5, <2>6, <2>7, <2>8 DEF PresenceInv, Awaiting
<1>. QED  BY <1>1, <1>2, <1>3, <1>4, <1>5, <1>6, <1>7, <1>8 DEF Client

\* Sent over the socket: the new call is the last one there, or is lost.
LEMMA SentKeeps ==
  ASSUME SessionTypeOK, Unsent, NobodyWaits, NEW op, NEW t, NEW c, MessageOf(op, t, c), Send(op, t, c),
         work' /= <<>>, Head(work') = StepOf(IF op = "join" THEN "joining" ELSE "leaving", c),
         UNCHANGED <<made, socket>>
  PROVE  Awaiting'
<1>1. CASE socket \notin open
  <2>1. wire' = wire
    BY <1>1 DEF Send
  <2>2. Unsent' /\ NobodyWaits'
    BY <2>1 DEF Unsent, NobodyWaits
  <2>. QED  BY <2>2, NobodyIsAwaiting
<1>2. CASE socket \in open
  <2>. DEFINE n == Len(wire[socket]) + 1
              m == Message(op, t, c)
  <2>1. socket \in Sockets /\ socket <= made /\ socket \in Nat /\ made \in Nat
    BY <1>2, CallBounds DEF SessionTypeOK, Sockets
  <2>2. wire[socket] \in Seq(Messages) /\ m \in Messages
    BY <2>1, MessagesAre DEF SessionTypeOK
  <2>3. wire' = [wire EXCEPT ![socket] = Append(wire[socket], m)]
    BY <1>2 DEF Send
  <2>4. /\ wire'[socket] = Append(wire[socket], m)
        /\ \A k \in Sockets \ {socket} : wire'[k] = wire[k]
    BY <2>1, <2>3 DEF SessionTypeOK
  <2>5. /\ DOMAIN wire'[socket] = 1 .. n /\ DOMAIN wire[socket] = 1 .. n - 1 /\ n \in Nat /\ wire'[socket][n] = m
        /\ \A i \in DOMAIN wire[socket] : wire'[socket][i] = wire[socket][i]
    BY <2>2, <2>4, Appended
  <2>6. m.op = op /\ m.call = c
    BY DEF Message
  <2>. HIDE DEF m, n
  <2>7. ASSUME NEW k \in Sockets, NEW i \in DOMAIN wire'[k], wire'[k][i].call /= NoCall
        PROVE  k = socket /\ i = n /\ wire'[k][i] = m
    <3>1. CASE k /= socket
      BY <2>4, <2>7, <3>1 DEF NobodyWaits
    <3>2. CASE k = socket /\ i /= n
      <4>1. i \in DOMAIN wire[socket]
        BY <2>5, <3>2
      <4>. QED  BY <2>1, <2>5, <2>7, <3>2, <4>1 DEF NobodyWaits
    <3>. QED  BY <2>5, <3>1, <3>2
  <2>8. Unsent'
    <3>1. ASSUME NEW k \in Sockets, k > made PROVE wire'[k] = <<>>
      <4>1. k /= socket
        BY <2>1, <3>1
      <4>. QED  BY <2>4, <3>1, <4>1 DEF Unsent
    <3>. QED  BY <3>1 DEF Unsent
  <2>9. AnswersAreAwaited'
    <3>1. ASSUME NEW k \in Sockets, NEW i \in DOMAIN wire'[k], wire'[k][i].call /= NoCall
          PROVE  /\ work' /= <<>> /\ Head(work').call = wire'[k][i].call
                 /\ Head(work').op = IF wire'[k][i].op = "join" THEN "joining" ELSE "leaving"
      BY <2>6, <2>7, <3>1 DEF StepOf
    <3>. QED  BY <3>1 DEF AnswersAreAwaited
  <2>10. OneAwaited'
    BY <2>7 DEF OneAwaited
  <2>11. JoinIsLast'
    <3>1. ASSUME NEW k \in Sockets, NEW i \in DOMAIN wire'[k], wire'[k][i].call /= NoCall
          PROVE  k = socket' /\ \A j \in DOMAIN wire'[k] : ~(j > i)
      BY <2>5, <2>7, <3>1
    <3>. QED  BY <3>1 DEF JoinIsLast
  <2>. QED  BY <2>8, <2>9, <2>10, <2>11 DEF Awaiting
<1>. QED  BY <1>1, <1>2

\* The queue stops waiting: the answer of the work in front no longer counts.
LEMMA GivenUpKeeps ==
  ASSUME SessionTypeOK, Awaiting, NotAwaited(Head(work).call), UNCHANGED made
  PROVE  Awaiting'
<1>1. NobodyWaits'
  <2>1. ASSUME NEW k \in Sockets, NEW i \in DOMAIN wire'[k] PROVE wire'[k][i].call = NoCall
    BY <2>1, NotAwaitedIs DEF Awaiting, AnswersAreAwaited
  <2>. QED  BY <2>1 DEF NobodyWaits
<1>2. Unsent'
  <2>1. ASSUME NEW k \in Sockets, k > made PROVE wire'[k] = <<>>
    BY <2>1, NotAwaitedIs, EmptySeq DEF Awaiting, Unsent
  <2>. QED  BY <2>1 DEF Unsent
<1>. QED  BY <1>1, <1>2, NobodyIsAwaiting

\* Giving up hands no presence over.
LEMMA GivenUpLeaves ==
  ASSUME SessionTypeOK, PresenceInv, NotAwaited(Head(work).call),
         UNCHANGED <<target, socket, active, claimed>>,
         \/ active \notin claimed \ pending'
         \/ active \in claimed \ pending /\ ~(Doing("leaving") /\ Head(work).call = active)
  PROVE  OwnLeaves'
<1>1. CASE active \notin claimed \ pending'
  BY <1>1 DEF OwnLeaves
<1>2. CASE active \in claimed \ pending /\ ~(Doing("leaving") /\ Head(work).call = active) /\ socket /= Offline
  <2>1. socket \in Sockets
    BY <1>2, CallBounds DEF SessionTypeOK, Sockets, Offline
  <2>2. \A i \in DOMAIN wire'[socket] : ~(wire'[socket][i].op = "leave" /\ wire'[socket][i].target = target[active])
    BY <1>2, <2>1, NotAwaitedIs, NoLeaveMeanwhile
  <2>. QED  BY <2>2 DEF OwnLeaves
<1>3. CASE socket = Offline
  BY <1>3 DEF OwnLeaves
<1>. QED  BY <1>1, <1>2, <1>3

LEMMA QueueKeepsPresence ==
  ASSUME SessionTypeOK, PresenceInv, Queue
  PROVE  PresenceInv'
<1>1. ASSUME NobodyWaits, UNCHANGED <<target, wire, made, socket>>,
             \/ active' \notin claimed' \ pending'
             \/ active' = active /\ active \in claimed \ pending
      PROVE  PresenceInv'
  <2>1. Unsent' /\ NobodyWaits'
    BY <1>1 DEF Unsent, NobodyWaits, PresenceInv, Awaiting
  <2>. QED  BY <1>1, <2>1, NobodyIsAwaiting, SameLeaves DEF PresenceInv
<1>2. ~Doing("joining") /\ ~Doing("leaving") => NobodyWaits
  BY IdleNobodyWaits DEF PresenceInv
<1>3. NoCall \notin claimed
  BY DEF SessionTypeOK, Started, NoCall
<1>4. CASE Cleanup
  BY <1>1, <1>2, <1>4 DEF Cleanup, Doing, callVars, socketVars
<1>5. CASE ReleasePresence
  <2>. DEFINE c == Head(work).call
  <2>1. NobodyWaits /\ UNCHANGED <<target, active, made, socket>>
    BY <1>2, <1>5 DEF ReleasePresence, Doing, socketVars
  <2>2. CASE NothingToRelease(c) \/ TakenOver(c)
    <3>1. wire' = wire /\ claimed' \subseteq claimed /\ (active \in claimed' /\ active \notin pending' => active \notin pending)
      BY <1>5, <2>1, <2>2 DEF ReleasePresence, TakenOver
    <3>. QED  BY <1>1, <2>1, <3>1
  <2>3. CASE ~NothingToRelease(c) /\ ~TakenOver(c)
    <3>1. /\ Send("leave", target[c], c) /\ GoesOn("leaving", c) /\ work /= <<>>
          /\ claimed' = claimed /\ pending' = pending /\ c \in claimed /\ socket /= Offline
      BY <1>5, <2>3 DEF ReleasePresence, NothingToRelease, Doing
    <3>2. MessageOf("leave", target[c], c)
      BY <3>1, CallBounds DEF SessionTypeOK, MessageOf, Started, Calls
    <3>3. work' /= <<>> /\ Head(work') = StepOf("leaving", c)
      <4>1. c \in {NoCall} \cup Started /\ Tail(work) \in Seq(Steps)
        BY <3>1, WorkMoves
      <4>. QED  BY <3>1, <4>1, StepsAre, Prefixed DEF GoesOn, Ops
    <3>4. Awaiting'
      BY <2>1, <3>1, <3>2, <3>3, SentKeeps DEF PresenceInv, Awaiting
    <3>5. OwnLeaves'
      <4>1. CASE active \notin claimed \ pending
        BY <2>1, <3>1, <4>1 DEF OwnLeaves
      <4>2. CASE wire' = wire
        BY <2>1, <3>1, <4>2, SameLeaves DEF PresenceInv, OwnLeaves
      <4>3. CASE active \in claimed \ pending /\ socket \in open
        <5>. DEFINE m == Message("leave", target[c], c)
        <5>1. socket \in Sockets /\ m \in Messages
          BY <3>2, <4>3, CallBounds, MessagesAre DEF SessionTypeOK, Sockets
        <5>2. wire[socket] \in Seq(Messages) /\ wire'[socket] = Append(wire[socket], m)
          BY <3>1, <4>3, <5>1 DEF Send, SessionTypeOK
        <5>3. m.call = c /\ m.target = target[c]
          BY DEF Message
        <5>. HIDE DEF m
        <5>4. /\ DOMAIN wire'[socket] = DOMAIN wire[socket] \cup {Len(wire[socket]) + 1}
              /\ wire'[socket][Len(wire[socket]) + 1] = m
              /\ \A i \in DOMAIN wire[socket] : wire'[socket][i] = wire[socket][i]
          BY <5>1, <5>2, Appended
        <5>5. target[c] = target[active] => c = active
          BY <2>3, <4>3 DEF TakenOver
        <5>6. ASSUME NEW i \in DOMAIN wire[socket]
              PROVE  ~(wire[socket][i].op = "leave" /\ wire[socket][i].target = target[active])
          BY <1>5, <3>1, <4>3, NoLeaveMeanwhile DEF ReleasePresence, Doing
        <5>. QED  BY <2>1, <5>3, <5>4, <5>5, <5>6 DEF OwnLeaves
      <4>. QED  BY <3>1, <4>1, <4>2, <4>3 DEF Send
    <3>. QED  BY <3>4, <3>5 DEF PresenceInv
  <2>. QED  BY <2>2, <2>3
<1>6. CASE LeaveFails
  <2>. DEFINE c == Head(work).call
  <2>1. /\ UNCHANGED <<target, active, claimed, made, socket>> /\ NotAwaited(c)
        /\ pending' = IF c \in valid THEN pending \cup {c} ELSE pending
    BY <1>6 DEF LeaveFails, socketVars
  <2>2. c = active => active \notin claimed \ pending'
    BY <1>3, <2>1 DEF SessionTypeOK
  <2>3. Awaiting' /\ OwnLeaves'
    BY <2>1, <2>2, GivenUpKeeps, GivenUpLeaves DEF PresenceInv
  <2>. QED  BY <2>3 DEF PresenceInv
<1>7. CASE JoinPresence
  <2>. DEFINE c == Head(work).call
  <2>1. NobodyWaits /\ UNCHANGED <<target, active, claimed, pending, made, socket>> /\ Doing("join")
    BY <1>2, <1>7 DEF JoinPresence, Doing, callVars, socketVars
  <2>2. CASE wire' = wire
    BY <1>1, <2>1, <2>2 DEF OwnLeaves
  <2>3. CASE IsCurrent(c) /\ socket /= Offline /\ Send("join", target[c], c) /\ GoesOn("joining", c)
    <3>1. MessageOf("join", target[c], c)
      BY <2>3, CallBounds DEF SessionTypeOK, MessageOf, Started, Calls, IsCurrent
    <3>2. work' /= <<>> /\ Head(work') = StepOf("joining", c)
      <4>1. c \in {NoCall} \cup Started /\ Tail(work) \in Seq(Steps)
        BY <2>1, WorkMoves DEF Doing
      <4>. QED  BY <2>3, <4>1, StepsAre, Prefixed DEF GoesOn, Ops
    <3>3. Awaiting'
      BY <2>1, <2>3, <3>1, <3>2, SentKeeps DEF PresenceInv, Awaiting
    <3>4. OwnLeaves'
      <4>1. CASE active \notin claimed \ pending
        BY <2>1, <4>1 DEF OwnLeaves
      <4>2. CASE socket \notin open
        BY <2>1, <2>3, <4>2, SameLeaves DEF PresenceInv, OwnLeaves, Send
      <4>3. CASE active \in claimed \ pending /\ socket \in open
        <5>. DEFINE m == Message("join", target[c], c)
        <5>1. socket \in Sockets /\ m \in Messages
          BY <3>1, <4>3, CallBounds, MessagesAre DEF SessionTypeOK, Sockets
        <5>2. wire[socket] \in Seq(Messages) /\ wire'[socket] = Append(wire[socket], m)
          BY <2>3, <4>3, <5>1 DEF Send, SessionTypeOK
        <5>3. m.op = "join"
          BY DEF Message
        <5>. HIDE DEF m
        <5>4. /\ DOMAIN wire'[socket] = DOMAIN wire[socket] \cup {Len(wire[socket]) + 1}
              /\ wire'[socket][Len(wire[socket]) + 1] = m
              /\ \A i \in DOMAIN wire[socket] : wire'[socket][i] = wire[socket][i]
          BY <5>1, <5>2, Appended
        <5>5. ASSUME NEW i \in DOMAIN wire[socket]
              PROVE  ~(wire[socket][i].op = "leave" /\ wire[socket][i].target = target[active])
          BY <2>1, <2>3, <4>3, NoLeaveMeanwhile DEF Doing
        <5>. QED  BY <2>1, <5>3, <5>4, <5>5 DEF OwnLeaves
      <4>. QED  BY <4>1, <4>2, <4>3
    <3>. QED  BY <3>3, <3>4 DEF PresenceInv
  <2>. QED  BY <1>7, <2>2, <2>3 DEF JoinPresence
<1>8. CASE JoinFails
  <2>1. UNCHANGED <<target, active, claimed, pending, made, socket>> /\ NotAwaited(Head(work).call) /\ ~Doing("leaving")
    BY <1>8 DEF JoinFails, callVars, socketVars, Doing
  <2>2. Awaiting' /\ OwnLeaves'
    BY <2>1, GivenUpKeeps, GivenUpLeaves DEF PresenceInv
  <2>. QED  BY <2>2 DEF PresenceInv
<1>9. CASE (\E answered \in BOOLEAN : Token(answered)) \/ ConnectGivesUp \/ InstallRoom \/ CallFailed
  <2>1. /\ UNCHANGED <<target, wire, made, socket, claimed, pending>> /\ active' \in {active, NoCall}
        /\ ~Doing("joining") /\ ~Doing("leaving")
    BY <1>9 DEF Token, ConnectGivesUp, InstallRoom, CallFailed, ClearLocalCalls, Doing, callVars, socketVars
  <2>. QED  BY <1>1, <1>2, <1>3, <2>1
<1>10. ASSUME NEW c \in Calls, RoomConnects(c) \/ DialingEnds(c) PROVE PresenceInv'
  <2>1. UNCHANGED <<callVars, wire, made, socket>> /\ (work' = work \/ Doing("connect"))
    BY <1>10 DEF RoomConnects, DialingEnds, socketVars
  <2>2. CASE work' = work
    BY <2>1, <2>2, SameFront DEF PresenceInv, OwnLeaves, callVars
  <2>. QED  BY <1>1, <1>2, <2>1, <2>2 DEF Doing, callVars
<1>. QED  BY <1>4, <1>5, <1>6, <1>7, <1>8, <1>9, <1>10 DEF Queue

\* A call nobody waits for is executed.
LEMMA UnawaitedExecuted ==
  ASSUME SessionTypeOK, PresenceInv, NEW k \in Sockets, NEW op, Delivered(k, op),
         UNCHANGED <<work, socket, made, active, target, claimed, pending>>
  PROVE  PresenceInv'
<1>. DEFINE d == [l \in Sockets |-> IF l = k THEN 1 ELSE 0]
<1>1. d \in [Sockets -> {0, 1}]
  OBVIOUS
<1>2. \A l \in Sockets : \A i \in DOMAIN wire'[l] :
        i + d[l] \in DOMAIN wire[l] /\ wire'[l][i] = wire[l][i + d[l]]
  <2>1. \A l \in Sockets \ {k} : wire'[l] = wire[l] /\ DOMAIN wire[l] \subseteq Nat
    BY DeliveredIs DEF SessionTypeOK
  <2>. QED  BY <2>1, DeliveredIs
<1>. HIDE DEF d
<1>. QED  BY <1>1, <1>2, DeliveredIs, Fewer

\* The call the work in front waits for is executed, and nobody waits any more.
LEMMA AwaitedExecuted ==
  ASSUME SessionTypeOK, PresenceInv, NEW k \in Sockets, NEW op, Delivered(k, op),
         Head(wire[k]).call /= NoCall, made' = made
  PROVE  Awaiting'
<1>1. \A l \in Sockets : DOMAIN wire[l] \subseteq Nat
  BY DEF SessionTypeOK
<1>2. Unsent'
  BY DeliveredIs DEF SessionTypeOK, Unsent, PresenceInv, Awaiting
<1>3. NobodyWaits'
  <2>1. ASSUME NEW l \in Sockets, NEW i \in DOMAIN wire'[l] PROVE wire'[l][i].call = NoCall
    <3>1. CASE l = k
      <4>1. i + 1 \in DOMAIN wire[k] /\ wire'[l][i] = wire[k][i + 1] /\ i + 1 /= 1
        <5>1. i \in DOMAIN wire'[k] /\ wire'[k] \in Seq(Messages)
          BY <2>1, <3>1, DeliveredIs
        <5>2. i \in Nat /\ i >= 1
          BY <5>1
        <5>. QED  BY <3>1, <5>1, <5>2, DeliveredIs
      <4>2. 1 \in DOMAIN wire[k] /\ wire[k][1].call /= NoCall
        BY DeliveredIs
      <4>. QED  BY <4>1, <4>2 DEF PresenceInv, Awaiting, OneAwaited
    <3>2. CASE l /= k
      <4>1. wire'[l] = wire[l] /\ 1 \in DOMAIN wire[k] /\ wire[k][1].call /= NoCall
        BY <3>2, DeliveredIs DEF SessionTypeOK
      <4>. QED  BY <2>1, <3>2, <4>1 DEF PresenceInv, Awaiting, OneAwaited
    <3>. QED  BY <3>1, <3>2
  <2>. QED  BY <2>1 DEF NobodyWaits
<1>. QED  BY <1>2, <1>3, NobodyIsAwaiting

\* Executing a call adds no leave to the client's socket.
LEMMA NoLeaveAfter ==
  ASSUME SessionTypeOK, NEW k \in Sockets, NEW op, Delivered(k, op), socket' = socket, socket /= Offline, NEW t,
         \A i \in DOMAIN wire[socket] :
           (i = 1 /\ k = socket) \/ ~(wire[socket][i].op = "leave" /\ wire[socket][i].target = t)
  PROVE  \A i \in DOMAIN wire'[socket'] : ~(wire'[socket'][i].op = "leave" /\ wire'[socket'][i].target = t)
<1>1. socket \in Sockets
  BY CallBounds DEF SessionTypeOK, Sockets, Offline
<1>2. CASE socket /= k
  BY <1>1, <1>2, DeliveredIs DEF SessionTypeOK
<1>3. CASE socket = k
  <2>1. ASSUME NEW i \in DOMAIN wire'[k] PROVE i + 1 /= 1 /\ i + 1 \in DOMAIN wire[k] /\ wire'[k][i] = wire[k][i + 1]
    <3>1. wire'[k] \in Seq(Messages)
      BY DeliveredIs
    <3>2. i \in Nat /\ i >= 1
      BY <3>1
    <3>. QED  BY <3>2, DeliveredIs
  <2>. QED  BY <1>3, <2>1
<1>. QED  BY <1>2, <1>3

LEMMA ServerKeepsPresence ==
  ASSUME SessionTypeOK, PresenceInv, Server
  PROVE  PresenceInv'
<1>1. ASSUME NEW k \in Sockets, NEW op \in {"join", "leave"}, Delivered(k, op),
             Head(wire[k]).call /= NoCall
      PROVE  /\ work /= <<>> /\ Head(work).call = Head(wire[k]).call
             /\ Doing(IF op = "join" THEN "joining" ELSE "leaving")
  BY <1>1, DeliveredIs DEF PresenceInv, Awaiting, AnswersAreAwaited, Doing
<1>2. ASSUME NEW k \in Sockets, ExecuteJoin(k) PROVE PresenceInv'
  <2>. DEFINE m == Head(wire[k])
  <2>1. Delivered(k, "join") /\ UNCHANGED <<target, active, pending, socket, made>>
    BY <1>2 DEF ExecuteJoin, socketVars
  <2>2. CASE m.call = NoCall
    BY <1>2, <2>1, <2>2, UnawaitedExecuted DEF ExecuteJoin, Awaited
  <2>3. CASE m.call /= NoCall
    <3>1. Doing("joining") /\ Head(work).call = m.call /\ claimed' = claimed \cup {m.call}
      BY <1>1, <1>2, <2>1, <2>3 DEF ExecuteJoin, Awaited
    <3>2. CASE active \in claimed \ pending /\ socket /= Offline
      <4>1. ~Doing("leaving")
        BY <3>1 DEF Doing
      <4>2. \A i \in DOMAIN wire'[socket'] : ~(wire'[socket'][i].op = "leave" /\ wire'[socket'][i].target = target[active])
        BY <2>1, <3>2, <4>1, NoLeaveMeanwhile, NoLeaveAfter
      <4>. QED  BY <2>1, <2>3, <4>2, AwaitedExecuted DEF PresenceInv, OwnLeaves
    <3>3. CASE active = m.call /\ socket /= Offline
      <4>1. 1 \in DOMAIN wire[k] /\ wire[k][1].call /= NoCall /\ wire[k][1].op = "join"
        BY <2>1, <2>3, DeliveredIs
      <4>2. /\ \A j \in DOMAIN wire[k] : j > 1 => wire[k][j].op = "join"
            /\ socket /= k => \A j \in DOMAIN wire[socket] : wire[socket][j].op = "join"
        BY <3>3, <4>1 DEF PresenceInv, Awaiting, JoinIsLast
      <4>3. \A j \in DOMAIN wire[k] : j = 1 \/ j > 1
        BY DEF SessionTypeOK
      <4>4. \A i \in DOMAIN wire'[socket'] : ~(wire'[socket'][i].op = "leave" /\ wire'[socket'][i].target = target[active])
        BY <2>1, <3>3, <4>2, <4>3, NoLeaveAfter
      <4>. QED  BY <2>1, <2>3, <4>4, AwaitedExecuted DEF PresenceInv, OwnLeaves
    <3>4. CASE active \notin claimed' \ pending \/ socket = Offline
      BY <2>1, <2>3, <3>4, AwaitedExecuted DEF PresenceInv, OwnLeaves
    <3>. QED  BY <3>1, <3>2, <3>3, <3>4
  <2>. QED  BY <2>2, <2>3
<1>3. ASSUME NEW k \in Sockets, RefuseJoin(k) PROVE PresenceInv'
  <2>. DEFINE m == Head(wire[k])
  <2>1. Delivered(k, "join") /\ UNCHANGED <<target, active, claimed, pending, socket, made>>
    BY <1>3 DEF RefuseJoin, callVars, socketVars
  <2>2. CASE m.call = NoCall
    BY <1>3, <2>1, <2>2, UnawaitedExecuted DEF RefuseJoin, Awaited
  <2>3. CASE m.call /= NoCall
    <3>1. Doing("joining") /\ ~Doing("leaving")
      BY <1>1, <2>1, <2>3 DEF Doing
    <3>2. CASE active \in claimed \ pending /\ socket /= Offline
      BY <2>1, <2>3, <3>1, <3>2, NoLeaveMeanwhile, NoLeaveAfter, AwaitedExecuted DEF PresenceInv, OwnLeaves
    <3>3. CASE active \notin claimed \ pending \/ socket = Offline
      BY <2>1, <2>3, <3>3, AwaitedExecuted DEF PresenceInv, OwnLeaves
    <3>. QED  BY <3>2, <3>3
  <2>. QED  BY <2>2, <2>3
<1>4. ASSUME NEW k \in Sockets, ExecuteLeave(k) PROVE PresenceInv'
  <2>. DEFINE m == Head(wire[k])
  <2>1. Delivered(k, "leave") /\ UNCHANGED <<target, active, socket, made>>
    BY <1>4 DEF ExecuteLeave, socketVars
  <2>2. CASE m.call = NoCall
    BY <1>4, <2>1, <2>2, UnawaitedExecuted DEF ExecuteLeave, Answered, Awaited
  <2>3. CASE m.call /= NoCall
    <3>1. Doing("leaving") /\ Head(work).call = m.call /\ claimed' = claimed \ {m.call} /\ pending' = pending \ {m.call}
      BY <1>1, <1>4, <2>1, <2>3 DEF ExecuteLeave, Answered, Awaited
    <3>2. CASE active \in claimed \ pending /\ active /= m.call /\ socket /= Offline
      BY <2>1, <2>3, <3>1, <3>2, NoLeaveMeanwhile, NoLeaveAfter, AwaitedExecuted DEF PresenceInv, OwnLeaves
    <3>3. CASE active \notin claimed \ pending \/ active = m.call \/ socket = Offline
      BY <2>1, <2>3, <3>1, <3>3, AwaitedExecuted DEF PresenceInv, OwnLeaves
    <3>. QED  BY <3>2, <3>3
  <2>. QED  BY <2>2, <2>3
<1>5. ASSUME NEW k \in Sockets, SocketSwept(k) PROVE PresenceInv'
  <2>. DEFINE d == [l \in Sockets |-> 0]
  <2>1. /\ wire' \in [Sockets -> Seq(Messages)] /\ wire'[k] = <<>> /\ DOMAIN wire'[k] = {}
        /\ \A l \in Sockets \ {k} : wire'[l] = wire[l]
    BY <1>5, EmptySeq DEF SocketSwept, SessionTypeOK
  <2>2. ASSUME NEW l \in Sockets, NEW i \in DOMAIN wire'[l]
        PROVE  i + d[l] \in DOMAIN wire[l] /\ wire'[l][i] = wire[l][i + d[l]]
    <3>1. l /= k /\ wire'[l] = wire[l] /\ i \in DOMAIN wire[l] /\ DOMAIN wire[l] \subseteq Nat
      BY <2>1, <2>2 DEF SessionTypeOK
    <3>. QED  BY <3>1
  <2>3. d \in [Sockets -> {0, 1}]
    OBVIOUS
  <2>. HIDE DEF d
  <2>. QED  BY <1>5, <2>1, <2>2, <2>3, Fewer DEF SocketSwept, callVars, socketVars
<1>6. ASSUME UNCHANGED <<callVars, work, socketVars, wire>> PROVE PresenceInv'
  BY <1>6, SameFront DEF PresenceInv, OwnLeaves, callVars, socketVars
<1>7. ASSUME NEW t \in Targets, Removed(t) \/ Judge(t) PROVE PresenceInv'
  BY <1>6, <1>7, RoomsEndKeepsPresence DEF Removed, Judge
<1>8. ASSUME NEW c \in Calls, RoomDies(c) PROVE PresenceInv'
  BY <1>8, RoomsEndKeepsPresence DEF RoomDies
<1>9. CASE ListRooms \/ RoundGivesUp
  BY <1>6, <1>9 DEF ListRooms, RoundGivesUp
<1>. QED  BY <1>2, <1>3, <1>4, <1>5, <1>7, <1>8, <1>9 DEF Server

LEMMA PresenceAlways == Spec => []PresenceInv
<1>1. Init => PresenceInv
  <2>. SUFFICES ASSUME Init PROVE PresenceInv
    OBVIOUS
  <2>1. \A k \in Sockets : wire[k] = <<>> /\ DOMAIN wire[k] = {}
    BY DEF Init
  <2>2. socket = Offline
    BY DEF Init
  <2>. QED  BY <2>1, <2>2
            DEF PresenceInv, Awaiting, Unsent, AnswersAreAwaited, OneAwaited, JoinIsLast, OwnLeaves
<1>2. SessionTypeOK /\ PresenceInv /\ [Next]_vars => PresenceInv'
  <2>1. PresenceInv /\ UNCHANGED vars => PresenceInv'
    BY DEF vars, callVars, socketVars, PresenceInv, Awaiting, Unsent, AnswersAreAwaited, OneAwaited,
           JoinIsLast, OwnLeaves
  <2>. QED  BY <2>1, ClientKeepsPresence, QueueKeepsPresence, ServerKeepsPresence DEF Next
<1>. QED  BY <1>1, <1>2, SessionTypeCorrect, PTL DEF Spec

\* livekit.ts:800 "A retry from an older call must never remove a newer call's
\* presence": of the calls that are executed and the sockets that are given up,
\* only its own leave and the end of its own socket take away the row of the call
\* one is in, for any number of calls, sockets and calls on the way.
THEOREM NewerCallAlwaysKeepsPresence == Spec => NewerCallKeepsPresence
<1>. DEFINE Kept == \A t \in Targets :
                      HoldsPresence(t) /\ ~OwnLeave /\ wire' /= wire /\ socket \in open' => row'[t] /= NoRow
<1>1. SessionTypeOK /\ PresenceInv /\ [Next]_vars => [Kept]_vars
  <2>. SUFFICES ASSUME SessionTypeOK, PresenceInv, Next, NEW t \in Targets,
                       HoldsPresence(t), ~OwnLeave, wire' /= wire, socket \in open'
                PROVE  row'[t] /= NoRow
    BY DEF Kept
  <2>. USE DEF serverVars
  <2>1. /\ row[t] /= NoRow /\ row[t] = socket /\ active \in claimed \ pending /\ target[active] = t
        /\ ~(Doing("leaving") /\ Head(work).call = active) /\ socket /= Offline
    BY DEF HoldsPresence, OwnLeave, NoRow, Offline
  <2>2. CASE Client
    BY <2>1, <2>2 DEF Client, JoinCall, StartCall, EndCall, RetryCallCleanup, SignOut, Reload, RestoreCall,
         AskCamera, CameraGranted, SocketConnects, SocketDrops
  <2>3. CASE Queue
    BY <2>1, <2>3 DEF Queue, Cleanup, ReleasePresence, LeaveFails, JoinPresence, JoinFails, Token, ConnectGivesUp,
         InstallRoom, CallFailed, RoomConnects, DialingEnds
  <2>4. ASSUME NEW k \in Sockets, ExecuteJoin(k) PROVE row'[t] /= NoRow
    BY <2>1, <2>4 DEF ExecuteJoin, SessionTypeOK, Sockets, NoRow
  <2>5. ASSUME NEW k \in Sockets, ExecuteLeave(k) PROVE row'[t] /= NoRow
    <3>1. Delivered(k, "leave")
      BY <2>5 DEF ExecuteLeave
    <3>2. k = socket => Head(wire[k]).target /= t
      BY <2>1, <3>1, DeliveredIs, NoLeaveMeanwhile
    <3>. QED  BY <2>1, <2>5, <3>2 DEF ExecuteLeave, SessionTypeOK
  <2>6. ASSUME NEW k \in Sockets, RefuseJoin(k) \/ SocketSwept(k) PROVE row'[t] /= NoRow
    BY <2>1, <2>6 DEF RefuseJoin, SocketSwept
  <2>7. ASSUME NEW u \in Targets, Removed(u) \/ Judge(u) PROVE row'[t] /= NoRow
    BY <2>1, <2>7 DEF Removed, Judge
  <2>8. CASE (\E c \in Calls : RoomDies(c)) \/ ListRooms \/ RoundGivesUp
    BY <2>1, <2>8 DEF RoomDies, ListRooms, RoundGivesUp
  <2>. QED  BY <2>2, <2>3, <2>4, <2>5, <2>6, <2>7, <2>8 DEF Next, Server
<1>. QED  BY <1>1, SessionTypeCorrect, PresenceAlways, PTL DEF Spec, NewerCallKeepsPresence

-----------------------------------------------------------------------------
(* The noise filter *)

FailedIsShown == watcher.failed => status \notin {"active", "loading"}

AsAsked ==
  mic # NoTrack =>
    /\ ~enabled \/ watcher.failed => filter[mic] = "none"
    /\ enabled /\ ~muted => filter[mic] \in {model, "none"}
    /\ status = "active" => filter[mic] = model /\ ~muted
    /\ status # "loading"

\* A live watcher has queued a look after everything that happened; so the last
\* task is its own, what an empty queue has left is as asked, and nothing has
\* changed since the last task had its look.
LastIsMine == queue # <<>> => queue[Len(queue)] = Sync(watcher.id)
CaughtUp == queue = <<>> => watcher.track = mic /\ AsAsked
LastSawAll ==
  Len(queue) = 1 /\ pc # "start" =>
    /\ watcher.track = mic /\ mic # NoTrack /\ job.track = mic /\ job.model = model
    /\ pc # "undo"
    /\ pc = "stop" => ~enabled \/ watcher.failed
    /\ pc \in {"replace", "load", "set"} => enabled /\ ~watcher.failed /\ ~muted
    /\ pc \in {"load", "set"} => filter[mic] = "none"

Watched == LastIsMine /\ CaughtUp /\ LastSawAll
FilterInv == FailedIsShown /\ (watcher.id # 0 => Watched)

LEMMA TasksAre ==
  /\ \A w \in Nat : Sync(w) \in FilterTasks /\ Sync(w).kind = "sync" /\ Sync(w).of = w
  /\ \A t \in Tracks \cup {NoTrack} : [kind |-> "dispose", of |-> t] \in FilterTasks
  /\ \A x \in FilterTasks : x.kind = "sync" => x.of \in Nat
  /\ \A x \in FilterTasks : x.kind = "dispose" => x.of \in Tracks \cup {NoTrack}
BY DEF Sync, FilterTasks

\* Its own look behind whatever is queued makes up for any change.
LEMMA LooksAgain ==
  ASSUME FilterTypeOK, watcher'.id = watcher.id, queue' = Append(queue, Sync(watcher.id)), pc' = pc
  PROVE  Watched' /\ queue' \in Seq(FilterTasks) /\ queue' # <<>>
<1>1. queue \in Seq(FilterTasks) /\ Sync(watcher.id) \in FilterTasks
  BY TasksAre DEF FilterTypeOK
<1>2. /\ queue' \in Seq(FilterTasks) /\ queue' # <<>> /\ Len(queue') = Len(queue) + 1 /\ Len(queue) \in Nat
      /\ queue'[Len(queue')] = Sync(watcher.id)
  BY <1>1, AppendProperties
<1>3. Len(queue') = 1 => queue = <<>>
  BY <1>1, <1>2
<1>4. queue = <<>> => pc = "start"
  BY DEF FilterTypeOK
<1>5. Sync(watcher.id)' = Sync(watcher.id)
  BY DEF Sync
<1>. QED  BY <1>2, <1>3, <1>4, <1>5 DEF Watched, LastIsMine, CaughtUp, LastSawAll

\* A finished task leaves the later ones, or is the watcher's last look.
LEMMA TaskDone ==
  ASSUME FilterTypeOK, watcher.id # 0 => LastIsMine, queue # <<>>, Finished, watcher'.id = watcher.id
  PROVE  /\ queue' \in Seq(FilterTasks) /\ pc' = "start"
         /\ watcher.id # 0 => LastIsMine' /\ LastSawAll'
         /\ watcher.id # 0 /\ queue' = <<>> => Len(queue) = 1 /\ Task = Sync(watcher.id) /\ Live(Task.of)
<1>1. queue \in Seq(FilterTasks) /\ watcher.id \in Nat
  BY DEF FilterTypeOK
<1>2. /\ queue' = Tail(queue) /\ queue' \in Seq(FilterTasks) /\ Len(queue') = Len(queue) - 1 /\ Len(queue) \in Nat
      /\ Len(queue) >= 1 /\ Head(queue) = queue[1]
      /\ \A i \in 1 .. Len(queue') : queue'[i] = queue[i + 1]
  BY <1>1 DEF Finished
<1>3. queue' # <<>> => queue'[Len(queue')] = queue[Len(queue)]
  BY <1>2
<1>4. queue' = <<>> => Len(queue) = 1
  <2>1. queue' = <<>> => Len(queue') = 0
    OBVIOUS
  <2>. QED  BY <1>2, <2>1
<1>5. Sync(watcher.id)' = Sync(watcher.id) /\ pc' = "start"
  BY DEF Sync, Finished
<1>6. watcher.id # 0 /\ queue' = <<>> => Task = Sync(watcher.id) /\ Live(Task.of)
  <2>1. ASSUME watcher.id # 0, queue' = <<>> PROVE Task = Sync(watcher.id)
    BY <1>2, <1>4, <2>1 DEF LastIsMine, Task
  <2>. QED  BY <1>1, <2>1, TasksAre DEF Live
<1>. QED  BY <1>2, <1>3, <1>4, <1>5, <1>6 DEF LastIsMine, LastSawAll

LEMMA WatcherIs ==
  /\ NoWatcher \in [id : Nat, track : Tracks \cup {NoTrack}, failed : BOOLEAN]
  /\ NoWatcher.id = 0 /\ NoWatcher.track = NoTrack /\ NoWatcher.failed = FALSE
  /\ \A w \in [id : Nat, track : Tracks \cup {NoTrack}, failed : BOOLEAN] :
       /\ \A b \in BOOLEAN : /\ [w EXCEPT !.failed = b] \in [id : Nat, track : Tracks \cup {NoTrack}, failed : BOOLEAN]
                             /\ [w EXCEPT !.failed = b].id = w.id /\ [w EXCEPT !.failed = b].track = w.track
                             /\ [w EXCEPT !.failed = b].failed = b
       /\ \A t \in Tracks \cup {NoTrack} :
            /\ [w EXCEPT !.track = t, !.failed = FALSE] \in [id : Nat, track : Tracks \cup {NoTrack}, failed : BOOLEAN]
            /\ [w EXCEPT !.track = t, !.failed = FALSE].id = w.id
            /\ [w EXCEPT !.track = t, !.failed = FALSE].track = t
            /\ [w EXCEPT !.track = t, !.failed = FALSE].failed = FALSE
       /\ \A n \in Nat : /\ [NoWatcher EXCEPT !.id = n] \in [id : Nat, track : Tracks \cup {NoTrack}, failed : BOOLEAN]
                         /\ [NoWatcher EXCEPT !.id = n].id = n /\ [NoWatcher EXCEPT !.id = n].failed = FALSE
BY DEF NoWatcher

\* Around the filter.
LEMMA EventKeepsFilter ==
  ASSUME FilterTypeOK, FilterInv,
         \/ Watch \/ Unwatch \/ Unpublish \/ SetMuted \/ TrackEnded \/ FilterFails
         \/ \E t \in Tracks : Publish(t)
         \/ \E on \in BOOLEAN, m \in Models : ChangeSettings(on, m)
  PROVE  FilterTypeOK' /\ FilterInv'
<1>1. events' \in Nat /\ events \in Nat /\ events + 1 # 0
  <2>1. events \in Nat
    BY DEF FilterTypeOK
  <2>2. events' = events + 1
    BY DEF Watch, Unwatch, Unpublish, SetMuted, TrackEnded, FilterFails, Publish, ChangeSettings, Happens
  <2>. QED  BY <2>1, <2>2
<1>2. watcher.id \in Nat /\ (queue = <<>> => pc = "start")
  BY DEF FilterTypeOK
<1>3. CASE Watch
  <2>1. /\ watcher'.id = events + 1 /\ watcher'.failed = FALSE
        /\ watcher' \in [id : Nat, track : Tracks \cup {NoTrack}, failed : BOOLEAN]
    <3>1. watcher' = [NoWatcher EXCEPT !.id = events + 1] /\ events + 1 \in Nat
      BY <1>1, <1>3 DEF Watch
    <3>2. \A n \in Nat : LET w == [NoWatcher EXCEPT !.id = n]
                         IN  /\ w.id = n /\ w.failed = FALSE
                             /\ w \in [id : Nat, track : Tracks \cup {NoTrack}, failed : BOOLEAN]
      BY DEF NoWatcher
    <3>. QED  BY <3>1, <3>2
  <2>2. queue' = Append(queue, Sync(events + 1)) /\ Sync(events + 1) \in FilterTasks
    BY <1>1, <1>3, TasksAre DEF Watch
  <2>3. /\ queue' \in Seq(FilterTasks) /\ queue' # <<>> /\ queue'[Len(queue')] = Sync(events + 1)
        /\ Len(queue') = Len(queue) + 1
    BY <2>2, AppendProperties DEF FilterTypeOK
  <2>4. Len(queue') = 1 => queue = <<>>
    BY <2>3 DEF FilterTypeOK
  <2>5. Watched'
    BY <1>2, <1>3, <2>1, <2>3, <2>4 DEF Watched, LastIsMine, CaughtUp, LastSawAll, Watch, Sync
  <2>6. FilterTypeOK'
    BY <1>1, <1>3, <2>1, <2>3 DEF FilterTypeOK, Watch
  <2>. QED  BY <1>3, <2>1, <2>5, <2>6 DEF FilterInv, FailedIsShown
<1>4. CASE Unwatch
  <2>1. watcher' = NoWatcher /\ status' = "idle" /\ UNCHANGED <<mic, muted, filter, enabled, model, pc, job>>
    BY <1>4 DEF Unwatch
  <2>2. [kind |-> "dispose", of |-> watcher.track] \in FilterTasks
    BY TasksAre DEF FilterTypeOK
  <2>3. queue' \in Seq(FilterTasks) /\ queue' # <<>>
    BY <1>4, <2>2, AppendProperties DEF FilterTypeOK, Unwatch
  <2>. QED  BY <1>1, <2>1, <2>3, WatcherIs DEF FilterTypeOK, FilterInv, FailedIsShown
<1>5. CASE \E t \in Tracks : Publish(t)
  <2>1. /\ mic' \in Tracks /\ muted' = FALSE /\ UNCHANGED <<filter, enabled, model, watcher, pc, job, status>>
        /\ queue' = IF watcher.id # 0 THEN Append(queue, Sync(watcher.id)) ELSE queue
    BY <1>5 DEF Publish, Enqueue
  <2>2. queue' \in Seq(FilterTasks) /\ (queue # <<>> => queue' # <<>>) /\ (watcher.id # 0 => Watched')
    BY <2>1, LooksAgain DEF FilterTypeOK
  <2>. QED  BY <1>1, <2>1, <2>2 DEF FilterTypeOK, FilterInv, FailedIsShown
<1>6. CASE Unpublish
  <2>1. /\ mic' = NoTrack /\ mic \in Tracks /\ UNCHANGED <<muted, enabled, model, watcher, pc, job, status>>
        /\ queue' = IF watcher.id # 0 THEN Append(queue, Sync(watcher.id)) ELSE queue
        /\ filter' = [filter EXCEPT ![mic] = "none"]
    BY <1>6 DEF Unpublish, Enqueue, FilterTypeOK
  <2>2. queue' \in Seq(FilterTasks) /\ (queue # <<>> => queue' # <<>>) /\ (watcher.id # 0 => Watched')
    BY <2>1, LooksAgain DEF FilterTypeOK
  <2>. QED  BY <1>1, <2>1, <2>2 DEF FilterTypeOK, FilterInv, FailedIsShown
<1>7. CASE SetMuted
  <2>1. /\ muted' = ~muted /\ UNCHANGED <<mic, filter, enabled, model, watcher, pc, job, status>>
        /\ queue' = IF watcher.id # 0 /\ watcher.track = mic THEN Append(queue, Sync(watcher.id)) ELSE queue
    BY <1>7 DEF SetMuted, Enqueue
  <2>2. CASE watcher.id # 0 /\ watcher.track = mic
    <3>1. queue' \in Seq(FilterTasks) /\ queue' # <<>> /\ Watched'
      BY <2>1, <2>2, LooksAgain DEF FilterTypeOK
    <3>. QED  BY <1>1, <2>1, <3>1 DEF FilterTypeOK, FilterInv, FailedIsShown
  <2>3. CASE watcher.id = 0
    <3>1. queue' = queue
      BY <2>1, <2>3
    <3>. QED  BY <1>1, <2>1, <2>3, <3>1 DEF FilterTypeOK, FilterInv, FailedIsShown
  <2>4. CASE watcher.id # 0 /\ watcher.track # mic
    <3>1. queue' = queue
      BY <2>1, <2>4
    <3>2. Watched'
      BY <2>1, <2>4, <3>1 DEF FilterInv, Watched, LastIsMine, CaughtUp, LastSawAll, Sync
    <3>. QED  BY <1>1, <2>1, <3>1, <3>2 DEF FilterTypeOK, FilterInv, FailedIsShown
  <2>. QED  BY <2>2, <2>3, <2>4
<1>8. ASSUME NEW on \in BOOLEAN, NEW m \in Models, ChangeSettings(on, m) PROVE FilterTypeOK' /\ FilterInv'
  <2>1. /\ enabled' = on /\ model' = m /\ UNCHANGED <<mic, muted, filter, pc, job>>
        /\ queue' = IF watcher.id # 0 THEN Append(queue, Sync(watcher.id)) ELSE queue
        /\ watcher' = [watcher EXCEPT !.failed = FALSE] /\ status' \in {"loading", status}
    BY <1>8 DEF ChangeSettings, Enqueue
  <2>2. /\ watcher' \in [id : Nat, track : Tracks \cup {NoTrack}, failed : BOOLEAN]
        /\ watcher'.id = watcher.id /\ watcher'.failed = FALSE
    BY <2>1 DEF FilterTypeOK
  <2>3. queue' \in Seq(FilterTasks) /\ (queue # <<>> => queue' # <<>>) /\ (watcher.id # 0 => Watched')
    BY <2>1, <2>2, LooksAgain DEF FilterTypeOK
  <2>. QED  BY <1>1, <2>1, <2>2, <2>3 DEF FilterTypeOK, FilterInv, FailedIsShown
<1>9. CASE TrackEnded
  <2>1. status' = "idle" /\ UNCHANGED <<mic, muted, filter, enabled, model, watcher, queue, pc, job>>
    BY <1>9 DEF TrackEnded
  <2>2. watcher.id # 0 => Watched'
    BY <2>1 DEF FilterInv, Watched, LastIsMine, CaughtUp, AsAsked, LastSawAll, Sync
  <2>. QED  BY <1>1, <2>1, <2>2 DEF FilterTypeOK, FilterInv, FailedIsShown
<1>10. CASE FilterFails
  <2>1. /\ status' = "error" /\ UNCHANGED <<mic, muted, filter, enabled, model, pc, job>>
        /\ queue' = Append(queue, Sync(watcher.id)) /\ watcher' = [watcher EXCEPT !.failed = TRUE]
    BY <1>10 DEF FilterFails, Enqueue
  <2>2. /\ watcher' \in [id : Nat, track : Tracks \cup {NoTrack}, failed : BOOLEAN] /\ watcher'.id = watcher.id
    BY <2>1 DEF FilterTypeOK
  <2>3. queue' \in Seq(FilterTasks) /\ queue' # <<>> /\ Watched'
    BY <2>1, <2>2, LooksAgain DEF FilterTypeOK
  <2>. QED  BY <1>1, <2>1, <2>2, <2>3 DEF FilterTypeOK, FilterInv, FailedIsShown
<1>. QED  BY <1>3, <1>4, <1>5, <1>6, <1>7, <1>8, <1>9, <1>10

\* The steps of the running task.
LEMMA TaskKeepsTypes ==
  ASSUME FilterTypeOK, FilterInv,
         SkipDisposed \/ StartSync \/ StopFilter \/ LoadModel \/ SetProcessor \/ TakeOff \/ Dispose
  PROVE  /\ FilterTypeOK' /\ FailedIsShown' /\ watcher'.id = watcher.id
         /\ queue # <<>> /\ UNCHANGED <<mic, muted, enabled, model>>
         /\ queue' = queue \/ Finished
<1>1. queue # <<>>
  BY DEF FilterTypeOK, SkipDisposed, StartSync, StopFilter, LoadModel, SetProcessor, TakeOff, Dispose
<1>2. UNCHANGED <<mic, muted, enabled, model, events>> /\ (queue' = queue \/ Finished)
  BY DEF SkipDisposed, StartSync, StopFilter, LoadModel, SetProcessor, TakeOff, Dispose
<1>3. queue' \in Seq(FilterTasks)
  <2>1. queue \in Seq(FilterTasks)
    BY DEF FilterTypeOK
  <2>2. Tail(queue) \in Seq(FilterTasks)
    BY <1>1, <2>1, HeadTailProperties
  <2>. QED  BY <1>2, <2>1, <2>2 DEF Finished
<1>. DEFINE W == [id : Nat, track : Tracks \cup {NoTrack}, failed : BOOLEAN]
<1>4. watcher \in W /\ job \in [track : Tracks \cup {NoTrack}, model : Models] /\ mic \in Tracks \cup {NoTrack} /\ model \in Models
  BY DEF FilterTypeOK
<1>5. filter' \in [Tracks -> Models \cup {"none"}]
  BY <1>4 DEF FilterTypeOK, SkipDisposed, StartSync, StopFilter, LoadModel, SetProcessor, TakeOff, Dispose, NoFilter
<1>6. watcher' \in W /\ watcher'.id = watcher.id /\ (watcher'.failed => watcher.failed /\ watcher' = watcher)
  <2>1. CASE StartSync
    <3>1. watcher' = watcher \/ watcher' = [watcher EXCEPT !.track = mic, !.failed = FALSE]
      BY <2>1 DEF StartSync
    <3>2. CASE watcher' = [watcher EXCEPT !.track = mic, !.failed = FALSE]
      <4>1. watcher' \in W /\ watcher'.id = watcher.id /\ watcher'.failed = FALSE
        BY <1>4, <3>2, WatcherIs
      <4>. QED  BY <4>1
    <3>. QED  BY <1>4, <3>1, <3>2
  <2>. QED  BY <1>4, <2>1 DEF SkipDisposed, StopFilter, LoadModel, SetProcessor, TakeOff, Dispose
<1>7. job' \in [track : Tracks \cup {NoTrack}, model : Models]
  BY <1>4 DEF SkipDisposed, StartSync, StopFilter, LoadModel, SetProcessor, TakeOff, Dispose
<1>8. pc' \in {"start", "stop", "replace", "load", "set", "undo"} /\ (pc' # "start" => queue' # <<>>)
  BY <1>1 DEF SkipDisposed, StartSync, StopFilter, LoadModel, SetProcessor, TakeOff, Dispose, Finished
<1>9. status' \in {"idle", "loading", "active", "off", "error"}
  BY DEF FilterTypeOK, SkipDisposed, StartSync, StopFilter, LoadModel, SetProcessor, TakeOff, Dispose, Report
<1>10. FailedIsShown'
  BY <1>6 DEF FilterInv, FailedIsShown, FilterTypeOK, SkipDisposed, StartSync, StopFilter, LoadModel, SetProcessor, TakeOff, Dispose, Report
<1>. QED  BY <1>1, <1>2, <1>3, <1>4, <1>5, <1>6, <1>7, <1>8, <1>9, <1>10 DEF FilterTypeOK

\* While it goes on, the last task keeps what it saw.
LEMMA TaskGoesOn ==
  ASSUME FilterTypeOK, FilterInv, watcher.id # 0, queue # <<>>, UNCHANGED queue, watcher'.id = watcher.id,
         StartSync \/ StopFilter \/ LoadModel \/ SetProcessor
  PROVE  Watched'
<1>1. queue \in Seq(FilterTasks) /\ watcher.id \in Nat /\ mic \in Tracks \cup {NoTrack} /\ filter \in [Tracks -> Models \cup {"none"}]
  BY DEF FilterTypeOK
<1>2. LastIsMine' /\ CaughtUp'
  BY DEF FilterInv, Watched, LastIsMine, CaughtUp, Sync
<1>3. ASSUME Len(queue) = 1 PROVE Task = Sync(watcher.id) /\ Live(Task.of)
  <2>1. Task = Sync(watcher.id)
    BY <1>1, <1>3 DEF FilterInv, Watched, LastIsMine, Task
  <2>. QED  BY <1>1, <2>1, TasksAre DEF Live
<1>4. queue' # Tail(queue)
  BY <1>1, HeadTailProperties
<1>5. ASSUME Len(queue) = 1, pc' # "start" PROVE LastSawAll'
  <2>1. CASE StartSync
    <3>1. /\ watcher' \in {watcher, [watcher EXCEPT !.track = mic, !.failed = FALSE]} /\ watcher'.track = mic
      BY <1>1, <2>1 DEF StartSync, FilterTypeOK
    <3>. QED  BY <1>4, <2>1, <3>1 DEF StartSync, LastSawAll, Finished
  <2>2. CASE StopFilter
    BY <1>1, <1>4, <1>5, <2>2 DEF FilterInv, Watched, LastSawAll, StopFilter, NoFilter, Finished
  <2>3. CASE LoadModel
    BY <1>4, <1>5, <2>3 DEF FilterInv, Watched, LastSawAll, LoadModel, Wanted, Finished
  <2>4. CASE SetProcessor
    BY <1>3, <1>4, <1>5, <2>4 DEF FilterInv, Watched, LastSawAll, SetProcessor, Wanted, Finished
  <2>. QED  BY <2>1, <2>2, <2>3, <2>4
<1>. QED  BY <1>2, <1>5 DEF Watched, LastSawAll

\* The last task leaves the filter as asked.
LEMMA LastTaskLeaves ==
  ASSUME FilterTypeOK, FilterInv, watcher.id # 0, queue # <<>>, Len(queue) = 1, Task = Sync(watcher.id), Live(Task.of), Finished,
         SkipDisposed \/ StartSync \/ StopFilter \/ LoadModel \/ SetProcessor \/ TakeOff \/ Dispose
  PROVE  watcher'.track = mic' /\ AsAsked'
<1>1. Task.kind = "sync" /\ queue \in Seq(FilterTasks) /\ mic \in Tracks \cup {NoTrack} /\ filter \in [Tracks -> Models \cup {"none"}]
  BY TasksAre DEF FilterTypeOK
<1>2. /\ watcher \in [id : Nat, track : Tracks \cup {NoTrack}, failed : BOOLEAN]
      /\ pc \in {"start", "stop", "replace", "load", "set", "undo"}
  BY DEF FilterTypeOK
<1>3. queue' # queue
  BY <1>1, HeadTailProperties DEF Finished
<1>4. CASE StartSync
  <2>1. watcher'.track = mic /\ mic' = mic /\ filter' = filter /\ muted' = muted /\ model' = model /\ enabled' = enabled
    BY <1>2, <1>4 DEF StartSync
  <2>2. CASE mic # NoTrack
    BY <1>3, <1>4, <2>1, <2>2 DEF StartSync, AsAsked, FilterInv, FailedIsShown
  <2>. QED  BY <2>1, <2>2 DEF AsAsked
<1>5. CASE StopFilter \/ LoadModel \/ SetProcessor \/ TakeOff
  <2>1. pc # "start" /\ UNCHANGED <<mic, muted, enabled, model, watcher>>
    BY <1>5 DEF StopFilter, LoadModel, SetProcessor, TakeOff
  <2>2. LastSawAll
    BY DEF FilterInv, Watched
  <2>3. CASE StopFilter
    BY <1>1, <1>3, <2>1, <2>2, <2>3 DEF LastSawAll, StopFilter, NoFilter, Report, AsAsked, FilterInv, FailedIsShown
  <2>4. CASE LoadModel
    BY <1>3, <2>1, <2>2, <2>4 DEF LastSawAll, LoadModel, Wanted, Report, AsAsked, Finished
  <2>5. CASE SetProcessor
    BY <1>1, <1>3, <2>1, <2>2, <2>5 DEF LastSawAll, SetProcessor, Wanted, AsAsked, Finished
  <2>. QED  BY <1>5, <2>2, <2>3, <2>4, <2>5 DEF LastSawAll, TakeOff
<1>. QED  BY <1>1, <1>4, <1>5 DEF SkipDisposed, Dispose

LEMMA FilterInvariant == FilterSpec => [](FilterTypeOK /\ FilterInv)
<1>1. FilterInit => FilterTypeOK /\ FilterInv
  <2>. SUFFICES ASSUME FilterInit PROVE FilterTypeOK /\ FilterInv
    OBVIOUS
  <2>1. FilterTypeOK
    <3>1. watcher \in [id : Nat, track : Tracks \cup {NoTrack}, failed : BOOLEAN]
      BY WatcherIs DEF FilterInit
    <3>2. model \in Models /\ job \in [track : Tracks \cup {NoTrack}, model : Models]
      BY AudioAssumption DEF FilterInit
    <3>3. filter \in [Tracks -> Models \cup {"none"}] /\ queue \in Seq(FilterTasks)
      BY DEF FilterInit
    <3>. QED  BY <3>1, <3>2, <3>3 DEF FilterInit, FilterTypeOK
  <2>. QED  BY <2>1, WatcherIs DEF FilterInit, FilterInv, FailedIsShown
<1>2. FilterTypeOK /\ FilterInv /\ [FilterNext]_filterVars => FilterTypeOK' /\ FilterInv'
  <2>. SUFFICES ASSUME FilterTypeOK, FilterInv, [FilterNext]_filterVars PROVE FilterTypeOK' /\ FilterInv'
    OBVIOUS
  <2>1. CASE UNCHANGED filterVars
    BY <2>1 DEF filterVars, FilterTypeOK, FilterInv, FailedIsShown, Watched, LastIsMine, CaughtUp, AsAsked, LastSawAll, Sync
  <2>2. CASE SkipDisposed \/ StartSync \/ StopFilter \/ LoadModel \/ SetProcessor \/ TakeOff \/ Dispose
    <3>1. /\ FilterTypeOK' /\ FailedIsShown' /\ watcher'.id = watcher.id
          /\ queue # <<>> /\ (queue' = queue \/ Finished)
      BY <2>2, TaskKeepsTypes
    <3>2. ASSUME watcher.id # 0, Finished PROVE Watched'
      <4>1. LastIsMine' /\ LastSawAll'
        BY <3>1, <3>2, TaskDone DEF FilterInv, Watched
      <4>2. CaughtUp'
        BY <2>2, <3>1, <3>2, TaskDone, LastTaskLeaves DEF FilterInv, Watched, CaughtUp
      <4>. QED  BY <4>1, <4>2 DEF Watched
    <3>3. ASSUME watcher.id # 0, queue' = queue PROVE Watched'
      <4>1. CASE Finished
        BY <3>2, <3>3, <4>1
      <4>2. CASE ~Finished
        BY <2>2, <3>1, <3>3, <4>2, TaskGoesOn DEF SkipDisposed, TakeOff, Dispose
      <4>. QED  BY <4>1, <4>2
    <3>. QED  BY <3>1, <3>2, <3>3 DEF FilterInv
  <2>3. CASE \/ Watch \/ Unwatch \/ Unpublish \/ SetMuted \/ TrackEnded \/ FilterFails
             \/ \E t \in Tracks : Publish(t)
             \/ \E on \in BOOLEAN, m \in Models : ChangeSettings(on, m)
    BY <2>3, EventKeepsFilter
  <2>. QED  BY <2>1, <2>2, <2>3 DEF FilterNext
<1>. QED  BY <1>1, <1>2, PTL DEF FilterSpec

\* Whatever is switched, muted, replugged or fails while the tasks of the queue load
\* and install a filter, an empty queue leaves the microphone with what the settings
\* ask for (watchNoiseFilter in noiseFilter.ts).
THEOREM FilterAlwaysFollowsSettings == FilterSpec => []FilterFollowsSettings
<1>1. FilterTypeOK /\ FilterInv => FilterFollowsSettings
  BY DEF FilterInv, Watched, CaughtUp, AsAsked, FilterFollowsSettings
<1>. QED  BY <1>1, FilterInvariant, PTL

-----------------------------------------------------------------------------
(* The sinks of the remote tracks *)

SinkTypeOK ==
  /\ mounted \in [Sinks -> Nat] /\ attempt \in [Sinks -> Nat] /\ mounts \in Nat
  /\ plays \subseteq [key : Sinks, inst : Nat \ {0}, n : Nat]
  /\ sound \subseteq Sinks /\ blocked \subseteq Sinks

\* What plays is mounted and waits for no answer that would still count.
SoundIsSettled ==
  /\ \A k \in sound : mounted[k] # 0
  /\ \A p \in plays : IsCurrentPlay(p) => p.key \notin sound

SinkInv == SinkTypeOK /\ SoundIsSettled /\ BlockedIsSilent

LEMMA PlaysAre ==
  ASSUME NEW k \in Sinks, NEW i \in Nat \ {0}, NEW n \in Nat
  PROVE  /\ Play(k, i, n) \in [key : Sinks, inst : Nat \ {0}, n : Nat]
         /\ Play(k, i, n).key = k /\ Play(k, i, n).inst = i /\ Play(k, i, n).n = n
BY DEF Play

LEMMA SinkStep == SinkInv /\ [SinkNext]_sinkVars => SinkInv'
<1>. SUFFICES ASSUME SinkInv, [SinkNext]_sinkVars PROVE SinkInv'
  OBVIOUS
<1>. USE DEF SinkInv, SinkTypeOK, SoundIsSettled, BlockedIsSilent, IsCurrentPlay
<1>1. ASSUME NEW k \in Sinks, Mount(k) PROVE SinkInv'
  <2>1. mounts' \in Nat \ {0}
    BY <1>1 DEF Mount, Budget
  <2>2. PICK p : p = Play(k, mounts', 1)
    OBVIOUS
  <2>3. p \in [key : Sinks, inst : Nat \ {0}, n : Nat] /\ p.key = k /\ p.inst = mounts' /\ p.n = 1
    BY <2>1, <2>2, PlaysAre
  <2>4. plays' = plays \cup {p} /\ k \notin sound /\ k \notin blocked
    BY <1>1, <2>2 DEF Mount
  <2>5. SinkTypeOK'
    BY <1>1, <2>1, <2>3, <2>4 DEF Mount
  <2>6. SoundIsSettled'
    BY <1>1, <2>1, <2>3, <2>4 DEF Mount
  <2>7. BlockedIsSilent'
    BY <1>1, <2>1, <2>3, <2>4 DEF Mount
  <2>. QED  BY <2>5, <2>6, <2>7
<1>2. ASSUME NEW k \in Sinks, Unmount(k) PROVE SinkInv'
  BY <1>2 DEF Unmount
<1>3. ASSUME NEW k \in Sinks, Playing(k) PROVE SinkInv'
  BY <1>3 DEF Playing
<1>4. ASSUME NEW p \in plays, PlayRefused(p) PROVE SinkInv'
  BY <1>4 DEF PlayRefused
<1>5. CASE EnableAudio
  <2>. DEFINE Plays == [key : Sinks, inst : Nat \ {0}, n : Nat]
  <2>1. PICK n \in [Sinks -> Nat] : /\ attempt' = n
                                   /\ \A k \in Sinks \ blocked : n[k] = attempt[k]
    <3>1. \A k \in Sinks : attempt[k] + (IF k \in blocked THEN 1 ELSE 0) \in Nat
      OBVIOUS
    <3>2. \A k \in Sinks \ blocked : attempt[k] + (IF k \in blocked THEN 1 ELSE 0) = attempt[k]
      OBVIOUS
    <3>. QED  BY <1>5, <3>1, <3>2 DEF EnableAudio
  <2>2. plays' = plays \cup {Play(k, mounted[k], n[k]) : k \in blocked}
    BY <1>5, <2>1 DEF EnableAudio
  <2>3. ASSUME NEW k \in blocked PROVE Play(k, mounted[k], n[k]) \in Plays /\ Play(k, mounted[k], n[k]).key = k
    <3>1. k \in Sinks /\ mounted[k] \in Nat \ {0} /\ n[k] \in Nat
      BY <2>1
    <3>2. PICK i : i = mounted[k]
      OBVIOUS
    <3>3. PICK j : j = n[k]
      OBVIOUS
    <3>4. i \in Nat \ {0} /\ j \in Nat
      BY <3>1, <3>2, <3>3
    <3>5. Play(k, i, j) \in Plays /\ Play(k, i, j).key = k
      BY <3>1, <3>4, PlaysAre
    <3>. QED  BY <3>2, <3>3, <3>5, Zenon
  <2>4. plays' \subseteq Plays /\ \A p \in plays' : p \in plays \/ p.key \in blocked
    BY <2>2, <2>3
  <2>5. plays \subseteq plays' /\ mounts' \in Nat /\ UNCHANGED <<mounted, sound, blocked>>
    BY <1>5, <2>2 DEF EnableAudio, Budget
  <2>6. SinkTypeOK'
    BY <2>1, <2>4, <2>5
  <2>7. SoundIsSettled'
    <3>1. ASSUME NEW p \in plays', IsCurrentPlay(p)' PROVE p.key \notin sound'
      BY <2>1, <2>4, <2>5, <3>1
    <3>. QED  BY <2>5, <3>1
  <2>8. BlockedIsSilent'
    <3>1. ASSUME NEW k \in Sinks, mounted[k] # 0, k \notin blocked,
                 \A p \in plays' : p.key = k => ~IsCurrentPlay(p)'
          PROVE  k \in sound
      <4>1. ASSUME NEW p \in plays, p.key = k PROVE ~IsCurrentPlay(p)
        BY <2>1, <2>5, <3>1, <4>1
      <4>. QED  BY <3>1, <4>1
    <3>. QED  BY <2>5, <3>1
  <2>. QED  BY <2>6, <2>7, <2>8
<1>6. CASE UNCHANGED sinkVars
  BY <1>6 DEF sinkVars
<1>. QED  BY <1>1, <1>2, <1>3, <1>4, <1>5, <1>6 DEF SinkNext

\* Whatever attempts the browser answers late, and in whatever order, "Enable audio"
\* offers exactly the sinks that are silent with nothing under way (audioUnlock.ts).
THEOREM BannerIsTrue == SinkSpec => []BlockedIsSilent
<1>1. SinkInit => SinkInv
  BY DEF SinkInit, SinkInv, SinkTypeOK, SoundIsSettled, BlockedIsSilent
<1>2. SinkInv => BlockedIsSilent
  BY DEF SinkInv
<1>. QED  BY <1>1, <1>2, SinkStep, PTL DEF SinkSpec
=============================================================================
