----------------------------- MODULE VideoPlayer -----------------------------
(***************************************************************************)
(* The one video player of the client.  It sits in the row of its message  *)
(* (docked to an anchor) or floats, follows the row as it is scrolled and  *)
(* unmounted, remembers where a video was left, and loads its source again *)
(* when the grant is about to end, when the streaming version is ready, or *)
(* when the user asks.  Effects after a render run a moment later, and so  *)
(* do the callbacks of the observers.                                      *)
(***************************************************************************)
EXTENDS Naturals, Sequences, SequencesExt

CONSTANTS
  Clips,  \* one row of the chat each
  Floats,  \* no anchor
  Length,  \* how long a video is, in places one can resume at
  MaxKept, \* remembered positions (100)
  MaxLoads \* bound: sources loaded by one player

ASSUME PlayerAssumption == Floats \notin Clips /\ {Length, MaxKept, MaxLoads} \subseteq Nat

VARIABLES
  player,    \* the video that plays and where it starts, or nothing
  anchor, visibleAnchor, autoFloating, \* of videoPlayerStore
  positions, \* where videos were left, the oldest first
  place,     \* of each row: not mounted, out of sight or in the view
  watched,   \* rows whose dock observer is installed
  media,     \* the video element
  inline,    \* InlineVideo: the run of its effect and what it shows
  loads      \* load() calls under way

playerVars == <<player, anchor, visibleAnchor, autoFloating, positions, place, watched, media, inline, loads>>

Nothing == [video |-> Floats, startAt |-> 0]

Playing == player.video # Floats

\* No source: a video element without one is paused, at 0.
Detached == [run |-> 0, startAt |-> 0, at |-> 0, loaded |-> FALSE, paused |-> TRUE]

NoInline == [run |-> 0, resume |-> 0, error |-> FALSE, original |-> FALSE, processing |-> FALSE]

PlayerInit ==
  /\ player = Nothing /\ anchor = Floats /\ visibleAnchor = Floats /\ autoFloating = FALSE
  /\ positions = <<>> /\ place = [v \in Clips |-> "unmounted"] /\ watched = {}
  /\ media = Detached /\ inline = NoInline /\ loads = {}

-----------------------------------------------------------------------------
(* InlineVideo.tsx, inlineVideoSession.ts *)

\* A run of the effect loads the source; the loads of the runs before it go on.
Run(f, from) ==
  /\ inline' = [f EXCEPT !.run = inline.run + 1, !.resume = from]
  /\ loads' = loads \cup {[run |-> inline.run + 1, from |-> from]}
  /\ media' = Detached
  /\ inline.run < MaxLoads

\* The cleanup of the effect: where to go on, unless nothing has been seen of the source.
ResumeAt == IF media.at > 0 THEN media.at ELSE inline.resume

Kept == UNCHANGED <<player, anchor, visibleAnchor, autoFloating, positions, place, watched>>

Rerun(f) == Kept /\ Run(f, ResumeAt)

RetryVideo == inline.error /\ Rerun(inline)

PlayOriginal == inline.error /\ ~inline.original /\ Rerun([inline EXCEPT !.original = TRUE])

Current(l) == l.run = inline.run

\* core-api's answer: a stream, the original while the stream is prepared, or the
\* original for good.
LoadAnswers(l) ==
  /\ loads' = loads \ {l}
  /\ IF Current(l)
     THEN \E processing \in IF inline.original THEN {FALSE} ELSE BOOLEAN :
            /\ inline' = [inline EXCEPT !.error = FALSE, !.processing = processing]
            /\ media' = [run |-> l.run, startAt |-> l.from, at |-> 0, loaded |-> FALSE, paused |-> TRUE]
     ELSE UNCHANGED <<inline, media>>
  /\ Kept

LoadFails(l) ==
  /\ loads' = loads \ {l}
  /\ inline' = IF l.run = inline.run THEN [inline EXCEPT !.error = TRUE] ELSE inline
  /\ Kept /\ UNCHANGED <<media>>

Attached == media.run # 0

\* The metadata is there: the session seeks.
Loaded ==
  /\ Attached /\ ~media.loaded
  /\ media' = [media EXCEPT !.loaded = TRUE, !.at = media.startAt]
  /\ Kept /\ UNCHANGED <<inline, loads>>

\* play() of the session, when the manifest is read, or of the user's controls.
Play ==
  /\ Attached /\ media.paused
  /\ media' = [media EXCEPT !.paused = FALSE]
  /\ inline' = [inline EXCEPT !.error = FALSE]
  /\ Kept /\ UNCHANGED <<loads>>

Pause ==
  /\ Attached /\ ~media.paused
  /\ media' = [media EXCEPT !.paused = TRUE]
  /\ Kept /\ UNCHANGED <<inline, loads>>

\* The video plays on, or the user seeks.
Advance ==
  /\ media.loaded /\ ~media.paused
  /\ \E at \in 0 .. Length - 1 : media' = [media EXCEPT !.at = at]
  /\ Kept /\ UNCHANGED <<inline, loads>>

MediaError ==
  /\ Attached
  /\ inline' = [inline EXCEPT !.error = TRUE]
  /\ Kept /\ UNCHANGED <<media, loads>>

\* The timer of 50 minutes, started when the source was attached: the old source
\* plays on until the new one is there.
Refresh ==
  /\ Attached /\ loads = {}
  /\ inline.run < MaxLoads
  /\ loads' = {[run |-> inline.run, from |-> media.at]}
  /\ Kept /\ UNCHANGED <<media, inline>>

\* Every 15 s while the streaming version is prepared.
StreamIsReady == inline.processing /\ ~inline.original /\ Rerun(inline)

StreamIsUnavailable ==
  /\ inline.processing /\ ~inline.original
  /\ inline' = [inline EXCEPT !.processing = FALSE]
  /\ Kept /\ UNCHANGED <<media, loads>>

-----------------------------------------------------------------------------
(* videoPlayerStore.ts, VideoPlayerHost.tsx *)

\* The host unmounts InlineVideo, whose load() calls find themselves disposed.
Inactive ==
  /\ player' = Nothing /\ anchor' = Floats /\ visibleAnchor' = Floats /\ autoFloating' = FALSE
  /\ media' = Detached /\ inline' = NoInline /\ loads' = {}

IndexOfVideo(v) == SelectInSeq(positions, LAMBDA p : p.video = v)

LeftAt(v) == IF IndexOfVideo(v) = 0 THEN 0 ELSE positions[IndexOfVideo(v)].at

Remembered(v, at) ==
  LET others == SelectSeq(positions, LAMBDA p : p.video # v)
  IN IF at > 0 THEN Append(others, [video |-> v, at |-> at]) ELSE others

\* at is remembered, but for 0.
Stop(at) ==
  LET kept == Remembered(player.video, at)
  IN /\ positions' = IF Len(kept) > MaxKept THEN Tail(kept) ELSE kept
     /\ Inactive

\* Open replaces a player without storing where it was.
Open(v, where) ==
  /\ player' = [video |-> v, startAt |-> LeftAt(v)]
  /\ anchor' = where /\ visibleAnchor' = where /\ autoFloating' = FALSE
  /\ inline' = [NoInline EXCEPT !.run = 1, !.resume = LeftAt(v)]
  /\ loads' = {[run |-> 1, from |-> LeftAt(v)]}
  /\ media' = Detached
  /\ UNCHANGED <<positions, place, watched>>

Float(focus) ==
  /\ anchor' = Floats /\ autoFloating' = ~focus
  /\ UNCHANGED <<player, positions, media, inline, loads>>

\* A playing video floats on when its row goes, a paused one stops.  One that is
\* still being prepared is paused, at 0.
ReleaseAnchor(v) ==
  IF anchor = v
  THEN IF ~media.paused
       THEN Float(FALSE) /\ visibleAnchor' = IF visibleAnchor = v THEN Floats ELSE visibleAnchor
       ELSE Stop(media.at)
  ELSE /\ visibleAnchor' = IF visibleAnchor = v THEN Floats ELSE visibleAnchor
       /\ UNCHANGED <<player, anchor, autoFloating, positions, media, inline, loads>>

\* Mutant: an observer of a row left by the player is heard.
OfSomePlayer(v) == Playing

OfThePlayer(v) == player.video = v

\* The callback of a row's observer.  A quarter of the row must show before the
\* player returns by itself.
SetVisibility(v) ==
  /\ v \in watched /\ OfThePlayer(v)
  /\ IF place[v] = "inside"
     THEN /\ visibleAnchor' = v
          /\ \E returns \in IF autoFloating THEN BOOLEAN ELSE {FALSE} :
               /\ anchor' = IF returns THEN v ELSE anchor
               /\ autoFloating' = (autoFloating /\ ~returns)
          /\ UNCHANGED <<player, positions, media, inline, loads>>
     ELSE ReleaseAnchor(v)
  /\ UNCHANGED <<place, watched>>

\* Close, or Escape: back into a row in sight, or stop.
Dismiss ==
  /\ Playing /\ anchor = Floats
  /\ IF visibleAnchor # Floats
     THEN /\ anchor' = visibleAnchor /\ autoFloating' = FALSE
          /\ UNCHANGED <<player, visibleAnchor, positions, media, inline, loads>>
     ELSE Stop(IF media.loaded \/ media.at > 0 THEN media.at ELSE player.startAt)
  /\ UNCHANGED <<place, watched>>

Ends ==
  /\ media.loaded /\ ~media.paused /\ media.at = Length - 1
  /\ Stop(0)
  /\ UNCHANGED <<place, watched>>

\* Another user: the positions go, too.
Close ==
  /\ Playing
  /\ Inactive /\ positions' = <<>>
  /\ UNCHANGED <<place, watched>>

-----------------------------------------------------------------------------
(* AttachmentListItem.tsx *)

MountRow(v) ==
  /\ place[v] = "unmounted"
  /\ place' = [place EXCEPT ![v] = "outside"]
  /\ UNCHANGED <<player, anchor, visibleAnchor, autoFloating, positions, watched, media, inline, loads>>

RowReleased(v) == ReleaseAnchor(v)

UnmountRow(v) ==
  /\ place[v] # "unmounted"
  /\ place' = [place EXCEPT ![v] = "unmounted"] /\ watched' = watched \ {v}
  /\ RowReleased(v)

Scroll(v) ==
  /\ place[v] # "unmounted"
  /\ \E p \in {"outside", "inside"} \ {place[v]} : place' = [place EXCEPT ![v] = p]
  /\ UNCHANGED <<player, anchor, visibleAnchor, autoFloating, positions, watched, media, inline, loads>>

\* The effect that observes the row of the player.
Effect(v) ==
  /\ place[v] # "unmounted" /\ (v \in watched) # (player.video = v)
  /\ watched' = IF player.video = v THEN watched \cup {v} ELSE watched \ {v}
  /\ UNCHANGED <<player, anchor, visibleAnchor, autoFloating, positions, place, media, inline, loads>>

\* The poster: play here, or fetch the floating player.
ClickPoster(v) ==
  /\ place[v] = "inside"
  /\ IF player.video = v
     THEN anchor # v /\ Float(TRUE) /\ UNCHANGED <<visibleAnchor, place, watched>>
     ELSE Open(v, v)

PopOut(v) ==
  /\ place[v] = "inside"
  /\ IF player.video = v THEN Float(TRUE) /\ UNCHANGED <<visibleAnchor, place, watched>> ELSE Open(v, Floats)

PlayerNext ==
  \/ \E v \in Clips : MountRow(v) \/ UnmountRow(v) \/ Scroll(v) \/ Effect(v) \/ SetVisibility(v) \/ ClickPoster(v) \/ PopOut(v)
  \/ Dismiss \/ Ends \/ Close
  \/ Playing /\ (RetryVideo \/ PlayOriginal \/ StreamIsReady \/ StreamIsUnavailable)
  \/ \E l \in loads : LoadAnswers(l) \/ LoadFails(l)
  \/ Loaded \/ Play \/ Pause \/ Advance \/ MediaError \/ Refresh

PlayerSpec == PlayerInit /\ [][PlayerNext]_playerVars

-----------------------------------------------------------------------------
(* Properties *)

\* The player is always somewhere to be seen: it floats, or it is docked to the row
\* of its own message, which is mounted.
PlayerHasAPlace ==
  Playing => /\ anchor = Floats \/ (anchor = player.video /\ place[anchor] # "unmounted")
             /\ visibleAnchor = Floats \/ (visibleAnchor = player.video /\ place[visibleAnchor] # "unmounted")

\* The element plays the source of the current run of the effect.
SourceIsCurrent == Attached => media.run = inline.run

=============================================================================
