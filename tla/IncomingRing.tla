---------------------------- MODULE IncomingRing ----------------------------
(***************************************************************************)
(* The ring of an incoming direct call (features/dm/hooks/                 *)
(* useIncomingDmRing.ts). An effect of the window's layout looks at the    *)
(* rooms with one other person in them, and starts or stops a tone, a      *)
(* toast with Open and Dismiss, and a timer of thirty seconds. The effect  *)
(* runs again whenever the rooms, the mutes, the open conversation or the  *)
(* call of this window change; between two runs the toast's buttons and    *)
(* the timer act on what the last run left.                                *)
(***************************************************************************)
EXTENDS Naturals, Sequences, SequencesExt, FiniteSets

CONSTANTS Partners,  \* people who may call; each names one room
          MaxToasts  \* bound: rings started

VARIABLES
  rooms,       \* the partners waiting in their rooms, in the order of the store
  mutedCallers,
  openDm,      \* {} or {the conversation on screen}
  inCall,      \* {} or {the partner this window is in a call with, or is joining}
  joiningDm,   \* whether that call is still being joined
  effectDue,   \* whether something the effect reads has changed since it ran
  ringing,     \* ringingRef: {} or {[room, toast]}
  dismissed,   \* dismissedRoomKeyRef: {} or {room}
  tones,       \* ids of rings whose tone is playing
  timers,      \* [room, toast] of running timers
  toasts,      \* [room, toast] of toasts on screen
  rings        \* rings started so far, which numbers them

ringVars == <<rooms, mutedCallers, openDm, inCall, joiningDm, effectDue, ringing, dismissed, tones,
              timers, toasts, rings>>
quietVars == <<ringing, dismissed, tones, timers, toasts, rings>>

RingInit ==
  /\ rooms = <<>> /\ mutedCallers = {} /\ openDm = {} /\ inCall = {} /\ joiningDm = FALSE
  /\ effectDue = FALSE
  /\ ringing = {} /\ dismissed = {} /\ tones = {} /\ timers = {} /\ toasts = {}
  /\ rings = 0

-----------------------------------------------------------------------------
\* What the effect depends on. A room is rebuilt, and the effect due, with any
\* change of any room.
Calls(p) ==
  /\ p \notin Range(rooms) /\ (p \in inCall => joiningDm)
  /\ rooms' = Append(rooms, p) /\ effectDue' = TRUE
  /\ UNCHANGED <<mutedCallers, openDm, inCall, joiningDm, quietVars>>

\* The caller gives up, or the call is answered on another device.
StopsCalling(p) ==
  /\ p \in Range(rooms)
  /\ rooms' = Remove(rooms, p) /\ effectDue' = TRUE
  /\ UNCHANGED <<mutedCallers, openDm, inCall, joiningDm, quietVars>>

ToggleMutedCaller(p) ==
  /\ mutedCallers' = IF p \in mutedCallers THEN mutedCallers \ {p} ELSE mutedCallers \cup {p}
  /\ effectDue' = TRUE
  /\ UNCHANGED <<rooms, openDm, inCall, joiningDm, quietVars>>

OpenDm(dm) ==
  /\ dm # openDm /\ openDm' = dm /\ effectDue' = TRUE
  /\ UNCHANGED <<rooms, mutedCallers, inCall, joiningDm, quietVars>>

\* A joined call holds this window's participant too, so its room no longer has one
\* person in it; leaving makes the partner who stays a caller again.
JoinCall(p) ==
  /\ inCall = {} /\ inCall' = {p} /\ joiningDm' = TRUE
  /\ effectDue' = TRUE
  /\ UNCHANGED <<rooms, mutedCallers, openDm, quietVars>>

JoinEnds(ok) ==
  /\ joiningDm /\ joiningDm' = FALSE /\ effectDue' = TRUE
  /\ inCall' = IF ok THEN inCall ELSE {}
  /\ rooms' = IF ok THEN SelectSeq(rooms, LAMBDA p : p \notin inCall) ELSE rooms
  /\ UNCHANGED <<mutedCallers, openDm, quietVars>>

LeaveCall(stays) ==
  /\ inCall # {} /\ ~joiningDm /\ inCall' = {}
  /\ rooms' = IF stays THEN rooms \o SetToSeq(inCall \ Range(rooms)) ELSE rooms
  /\ effectDue' = TRUE
  /\ UNCHANGED <<mutedCallers, openDm, joiningDm, quietVars>>

\* Another row of any room changes: the rooms are rebuilt as they were.
RoomsRebuilt ==
  /\ ~effectDue /\ rooms # <<>> /\ effectDue' = TRUE
  /\ UNCHANGED <<rooms, mutedCallers, openDm, inCall, joiningDm, quietVars>>

-----------------------------------------------------------------------------
\* findIncomingDmCall: the first room of the store that somebody else waits in.
Incoming == IF rooms = <<>> THEN {} ELSE {rooms[1]}

\* stopRingtone: whatever starts or ends a ring stops the tone that plays; and as if it
\* were left playing.
TonesKept == tones
StoppedTones == tones \ {r.toast : r \in ringing}

StillDismissed == IF Incoming = {} THEN {} ELSE dismissed

\* A call is silent while its caller is muted, its conversation is open, this window
\* is in a call with the caller, or is joining any call.
Silenced(p) == p \in mutedCallers \/ p \in openDm \cup inCall \/ joiningDm

RingSilently ==
  /\ effectDue /\ effectDue' = FALSE
  /\ Incoming = {} \/ \E p \in Incoming : Silenced(p)
  /\ tones' = StoppedTones
  /\ timers' = timers \ ringing
  /\ toasts' = toasts \ ringing
  /\ ringing' = {}
  /\ dismissed' = StillDismissed
  /\ UNCHANGED <<rooms, mutedCallers, openDm, inCall, joiningDm, rings>>

\* The call was dismissed, or rings already.
RingUnchanged ==
  /\ effectDue /\ effectDue' = FALSE
  /\ \E p \in Incoming : ~Silenced(p) /\ (p \in dismissed \/ \E r \in ringing : r.room = p)
  /\ UNCHANGED <<rooms, mutedCallers, openDm, inCall, joiningDm, quietVars>>

RingStarts ==
  /\ effectDue /\ effectDue' = FALSE /\ rings < MaxToasts
  /\ \E p \in Incoming :
       /\ ~Silenced(p) /\ p \notin dismissed /\ \A r \in ringing : r.room # p
       /\ LET next == [room |-> p, toast |-> rings + 1]
          IN /\ ringing' = {next}
             /\ tones' = StoppedTones \cup {next.toast}
             /\ timers' = (timers \ ringing) \cup {next}
             /\ toasts' = (toasts \ ringing) \cup {next}
  /\ rings' = rings + 1
  /\ UNCHANGED <<rooms, mutedCallers, openDm, inCall, joiningDm, dismissed>>

-----------------------------------------------------------------------------
\* Dismiss stops whatever rings, and remembers the room of its own toast.
Dismiss(t) ==
  /\ t \in toasts
  /\ tones' = StoppedTones
  /\ timers' = timers \ ringing
  /\ toasts' = (toasts \ ringing) \ {t}
  /\ ringing' = {}
  /\ dismissed' = {t.room}
  /\ UNCHANGED <<rooms, mutedCallers, openDm, inCall, joiningDm, effectDue, rings>>

\* Open leads to the conversation, and the toast goes away by itself.
OpenFromToast(t) ==
  /\ t \in toasts /\ toasts' = toasts \ {t}
  /\ openDm' = {t.room}
  /\ effectDue' = (effectDue \/ openDm # {t.room})
  /\ UNCHANGED <<rooms, mutedCallers, inCall, joiningDm, ringing, dismissed, tones, timers, rings>>

\* The timer stops a ring of its own room only.
TimerFires(t) ==
  /\ t \in timers
  /\ IF \E r \in ringing : r.room = t.room
     THEN /\ tones' = StoppedTones
          /\ toasts' = toasts \ {t} /\ ringing' = {}
     ELSE UNCHANGED <<tones, toasts, ringing>>
  /\ timers' = timers \ {t}
  /\ UNCHANGED <<rooms, mutedCallers, openDm, inCall, joiningDm, effectDue, dismissed, rings>>

RingNext ==
  \/ \E p \in Partners : Calls(p) \/ StopsCalling(p) \/ ToggleMutedCaller(p) \/ JoinCall(p)
  \/ \E dm \in {{}} \cup {{p} : p \in Partners} : OpenDm(dm)
  \/ \E ok \in BOOLEAN : JoinEnds(ok) \/ LeaveCall(ok)
  \/ RoomsRebuilt \/ RingSilently \/ RingUnchanged \/ RingStarts
  \/ \E t \in toasts : Dismiss(t) \/ OpenFromToast(t)
  \/ \E t \in timers : TimerFires(t)

RingSpec == RingInit /\ [][RingNext]_ringVars

-----------------------------------------------------------------------------
\* A tone that plays belongs to the ring the component knows of, whose timer is
\* running: nothing is left ringing that no button and no timer could stop. And once
\* the effect has run, it rings for the waiting call only, and never while that call
\* is to be silent; but when the call that remains was dismissed, the effect returns
\* before it stops the ring of the one that went.
ToneFollowsCall ==
  /\ tones = {r.toast : r \in ringing}
  /\ timers = ringing
  /\ ~effectDue /\ dismissed # Incoming =>
       \A r \in ringing : r.room \in Incoming /\ ~Silenced(r.room)

=============================================================================
