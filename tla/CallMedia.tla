------------------------------ MODULE CallMedia ------------------------------
(***************************************************************************)
(* The media of one connected call, in three parts that share no state.    *)
(*                                                                         *)
(* The controls: buttons and device pickers.  Every button starts an       *)
(* asynchronous handler: it reads the user's own voice row as the view     *)
(* last rendered it, changes what LiveKit captures or plays, and then      *)
(* writes all four flags of the row from that old reading.  Buttons are    *)
(* not locked while a handler runs, and the call may end under any of      *)
(* them.                                                                   *)
(*                                                                         *)
(* The noise filter on the user's own microphone on its way out, as the    *)
(* application shell handles it, whichever view is open: watchNoiseFilter  *)
(* runs its work in one queue per room.  Settings, mute and track changes  *)
(* only append a task, and every task decides from what is true when it    *)
(* runs, again after each await.                                           *)
(*                                                                         *)
(* The sinks of the other participants' tracks on their way in.            *)
(***************************************************************************)
EXTENDS Integers, Sequences, FiniteSets

----------------------------------------------------------------------------
(* The controls *)

CONSTANTS
  Devices,       \* device ids of each kind; one of them is the runtime's default
  DefaultDevice,
  OutputSwitchable,  \* do the sinks have setSinkId?
  MaxClicks,     \* clicks of one call
  MaxHandlers,   \* handlers running at once
  MaxFaults      \* refused promises and tracks ended from outside

ASSUME ControlsAssumption == /\ DefaultDevice \in Devices /\ OutputSwitchable \in BOOLEAN
                             /\ {MaxClicks, MaxHandlers, MaxFaults} \subseteq Nat

\* What a row says and what LiveKit does, one flag per control.
Flags == {"mic", "ears", "camera", "screen"}
Kinds == {"mic", "ears", "camera"}

VARIABLES
  roomIs,       \* is the room still the active call's?
  voiceRow,     \* the user's voice row: microphone open, not deafened, sharing
  air,          \* what the room really captures and plays
  published,    \* does a camera publication exist, muted or not?
  stored,       \* useMediaDeviceStore: the chosen device of each kind
  chosen,       \* the device the room uses
  handlers,     \* click handlers that have not settled
  reducerCalls, \* their reducer calls, in the order sent
  clicks,
  faults

controlVars == <<roomIs, voiceRow, air, published, stored, chosen, handlers,
                 reducerCalls, clicks, faults>>

Off == [f \in Flags |-> FALSE]
JoinedFlags == [f \in Flags |-> f \in {"mic", "ears"}]

\* A joined call.  The room captures the default microphone and camera whatever
\* the user once chose; only the sinks are given the stored device.
ControlsInit ==
  /\ roomIs = "active"
  /\ voiceRow = JoinedFlags /\ air = JoinedFlags /\ published = FALSE
  /\ stored \in {s \in [Kinds -> Devices] : s["ears"] = DefaultDevice}
  /\ chosen = [k \in Kinds |-> IF k = "ears" THEN stored[k] ELSE DefaultDevice]
  /\ handlers = {} /\ reducerCalls = <<>> /\ clicks = 0 /\ faults = 0

-----------------------------------------------------------------------------
(* Handlers *)

Fault == faults < MaxFaults /\ faults' = faults + 1

Handler(of, pc, want) ==
  [id |-> clicks, of |-> of, pc |-> pc, want |-> want, self |-> voiceRow,
   form |-> "toggle", dev |-> IF of \in {"mic", "camera"} THEN stored[of] ELSE DefaultDevice,
   prev |-> DefaultDevice]

\* A click, with the row and the devices of the last render.
Begin(h) ==
  /\ roomIs = "active"
  /\ clicks < MaxClicks /\ clicks' = clicks + 1
  /\ Cardinality(handlers) < MaxHandlers
  /\ handlers' = handlers \cup {h}

MoveTo(h, pc) == handlers' = (handlers \ {h}) \cup {[h EXCEPT !.pc = pc]}
Settle(h) == handlers' = handlers \ {h}

\* An error the user is shown; the call card takes its early selection back.
Fail(h) ==
  /\ Settle(h)
  /\ stored' = IF h.form = "card" THEN [stored EXCEPT ![h.of] = h.prev] ELSE stored

\* Mutant: what an await has started after the hang-up keeps running.
RoomNotAsserted(captured) == captured

\* Every await is followed by this check: the room of an ended call is stopped
\* again, with whatever the await has just started.
AssertActiveCallRoom(captured) == IF roomIs = "over" THEN Off ELSE captured

\* An answer after the hang-up, perhaps with the capture that was asked for.
Cancelled(h) ==
  /\ roomIs = "over" /\ h.pc # "patch"
  /\ \E captured \in {air, [air EXCEPT ![h.of] = h.want]} : air' = AssertActiveCallRoom(captured)
  /\ Settle(h)
  /\ UNCHANGED <<roomIs, voiceRow, published, stored, chosen, reducerCalls, clicks, faults>>

-----------------------------------------------------------------------------
(* The buttons *)

ToggleMute ==
  /\ Begin(Handler("mic", IF voiceRow["mic"] THEN "media" ELSE "permission", ~voiceRow["mic"]))
  /\ UNCHANGED <<roomIs, voiceRow, air, published, stored, chosen, reducerCalls, faults>>

\* The volumes change at once; only the row is awaited.
ToggleDeafen ==
  LET h == Handler("ears", "patch", ~voiceRow["ears"])
  IN  /\ Begin([h EXCEPT !.self["ears"] = h.want])
      /\ air' = [air EXCEPT !["ears"] = h.want]
      /\ reducerCalls' = Append(reducerCalls, h.id)
      /\ UNCHANGED <<roomIs, voiceRow, published, stored, chosen, faults>>

ToggleCamera ==
  /\ Begin(Handler("camera", IF voiceRow["camera"] THEN "media" ELSE "switch", ~voiceRow["camera"]))
  /\ UNCHANGED <<roomIs, voiceRow, air, published, stored, chosen, reducerCalls, faults>>

\* The share menu is locked until the source it asked for is shared and patched.
Choosing == \E h \in handlers : h.of = "screen" /\ h.want

\* The one toggle that asks the room, and not the row, what is on.
ToggleScreenShare ==
  /\ ~Choosing
  /\ Begin(Handler("screen", "media", ~air["screen"]))
  /\ UNCHANGED <<roomIs, voiceRow, air, published, stored, chosen, reducerCalls, faults>>

Selection(k, d, form) == [Handler(k, "switch", voiceRow[k]) EXCEPT !.form = form, !.dev = d, !.prev = stored[k]]

\* Microphone and camera can always be picked, the output where sinks can move.
Pickable(k) == k # "ears" \/ OutputSwitchable

\* The call card shows a selection at once.
SelectInCard(k, d) ==
  /\ Pickable(k)
  /\ Begin(Selection(k, d, "card"))
  /\ stored' = [stored EXCEPT ![k] = d]
  /\ UNCHANGED <<roomIs, voiceRow, air, published, chosen, reducerCalls, faults>>

\* The call options store it at the end, and lock their pickers meanwhile.
SelectInOptions(k, d) ==
  /\ Pickable(k)
  /\ \A g \in handlers : g.form # "options"
  /\ Begin(Selection(k, d, "options"))
  /\ UNCHANGED <<roomIs, voiceRow, air, published, stored, chosen, reducerCalls, faults>>

-----------------------------------------------------------------------------
(* What the handlers await *)

Permission(h) ==
  /\ h.pc = "permission" /\ roomIs = "active"
  /\ \/ MoveTo(h, "switch") /\ UNCHANGED <<stored, faults>>
     \/ Fault /\ Fail(h)
  /\ UNCHANGED <<roomIs, voiceRow, air, published, chosen, reducerCalls, clicks>>

StoreSelection(h) ==
  stored' = IF h.form = "options" THEN [stored EXCEPT ![h.of] = h.dev] ELSE stored

\* switchRoomDevice.  A selection goes on to rebind a track that was on at the
\* click; a camera is started even when the switch was refused.
SwitchDevice(h) ==
  /\ h.pc = "switch" /\ roomIs = "active"
  /\ \/ /\ chosen' = [chosen EXCEPT ![h.of] = h.dev]
        /\ IF h.form # "toggle" /\ (h.of = "ears" \/ ~h.self[h.of])
             THEN Settle(h) /\ StoreSelection(h)
             ELSE /\ MoveTo(h, IF h.form # "toggle" /\ h.of = "mic" THEN "off" ELSE "media")
                  /\ UNCHANGED <<stored>>
        /\ UNCHANGED faults
     \/ /\ Fault
        /\ IF h.form = "toggle" /\ h.of = "camera"
             THEN MoveTo(h, "media") /\ UNCHANGED stored
             ELSE Fail(h)
        /\ UNCHANGED <<chosen>>
  /\ UNCHANGED <<roomIs, voiceRow, air, published, reducerCalls, clicks>>

\* A microphone is rebound by closing and opening it.
CloseMicrophone(h) ==
  /\ h.pc = "off" /\ roomIs = "active"
  /\ air' = [air EXCEPT !["mic"] = FALSE]
  /\ MoveTo(h, "media")
  /\ UNCHANGED <<roomIs, voiceRow, published, stored, chosen, reducerCalls, clicks, faults>>

\* The room did what was asked, or the handler believes so: a selection is
\* finished, a toggle patches the row with its old reading of the other flags.
Changed(h) ==
  IF h.form # "toggle"
    THEN Settle(h) /\ StoreSelection(h) /\ UNCHANGED reducerCalls
    ELSE /\ handlers' = (handlers \ {h}) \cup
              {[h EXCEPT !.pc = "patch", !.dev = DefaultDevice,
                         !.self[h.of] = IF h.of = "screen" THEN air'["screen"] ELSE h.want]}
         /\ reducerCalls' = Append(reducerCalls, h.id)
         /\ UNCHANGED <<stored>>

\* setMicrophoneEnabled, setScreenShareEnabled and the first camera attempts.  A
\* camera that does not start passes for started when an earlier publication,
\* muted by "Stop camera", still has its track.  A refused selection leaves the
\* room on the new device and a microphone closed.
Media(h) ==
  /\ h.pc = "media" /\ roomIs = "active"
  /\ \/ /\ air' = [air EXCEPT ![h.of] = h.want]
        /\ published' = (published \/ h.of = "camera")
        /\ Changed(h)
        /\ UNCHANGED faults
     \/ /\ h.of # "camera" \/ ~h.want \/ published
        /\ Fault
        /\ UNCHANGED <<air, published>>
        /\ IF h.of = "camera" /\ h.want THEN Changed(h) ELSE Fail(h) /\ UNCHANGED reducerCalls
     \/ /\ h.of = "camera" /\ h.want /\ ~published
        /\ MoveTo(h, "manual")
        /\ UNCHANGED <<air, published, stored, reducerCalls, faults>>
  /\ UNCHANGED <<roomIs, voiceRow, chosen, clicks>>

\* publishManualCameraTrack: an old publication goes before the new one comes.
ManualCamera(h) ==
  /\ h.pc = "manual" /\ roomIs = "active"
  /\ \/ /\ air' = [air EXCEPT !["camera"] = TRUE]
        /\ published' = TRUE
        /\ Changed(h)
        /\ UNCHANGED faults
     \/ /\ Fault
        /\ \E unpublished \in {FALSE, published} :
             /\ published' = (published /\ ~unpublished)
             /\ air' = [air EXCEPT !["camera"] = @ /\ ~unpublished]
        /\ Fail(h)
        /\ UNCHANGED reducerCalls
  /\ UNCHANGED <<roomIs, voiceRow, chosen, clicks>>

\* The module executes the calls of a socket in order.  The new row reaches the
\* sinks' volume effect when it changes the deafened flag.
Patched(h) ==
  /\ h.pc = "patch" /\ reducerCalls # <<>> /\ h.id = Head(reducerCalls)
  /\ reducerCalls' = Tail(reducerCalls)
  /\ \/ /\ roomIs = "active"
        /\ voiceRow' = h.self
        /\ air' = IF voiceRow'["ears"] # voiceRow["ears"] THEN [air EXCEPT !["ears"] = voiceRow'["ears"]] ELSE air
        /\ Settle(h)
        /\ UNCHANGED faults
     \/ /\ Fault
        /\ Settle(h)
        /\ UNCHANGED <<voiceRow, air>>
     \/ /\ roomIs = "over"
        /\ Settle(h)
        /\ UNCHANGED <<voiceRow, air, faults>>
  /\ UNCHANGED <<roomIs, published, stored, chosen, clicks>>

-----------------------------------------------------------------------------
(* What happens around them *)

\* The browser's own "Stop sharing", an unplugged camera.
TrackEnds(f) ==
  /\ Fault
  /\ f \in {"camera", "screen"} /\ air[f] /\ roomIs = "active"
  /\ air' = [air EXCEPT ![f] = FALSE]
  /\ UNCHANGED <<roomIs, voiceRow, published, stored, chosen, handlers, reducerCalls, clicks>>

\* A mounted call view sets every remote volume again on the room's next event.
VolumesFollowRow ==
  /\ roomIs = "active" /\ air["ears"] # voiceRow["ears"]
  /\ air' = [air EXCEPT !["ears"] = voiceRow["ears"]]
  /\ UNCHANGED <<roomIs, voiceRow, published, stored, chosen, handlers, reducerCalls, clicks, faults>>

\* endCall: capture stops synchronously, before any cleanup is awaited.
Leave ==
  /\ roomIs = "active"
  /\ roomIs' = "over"
  /\ air' = Off
  /\ UNCHANGED <<voiceRow, published, stored, chosen, handlers, reducerCalls, clicks, faults>>

Step(h) ==
  \/ Permission(h) \/ SwitchDevice(h) \/ CloseMicrophone(h) \/ Media(h) \/ ManualCamera(h)
  \/ Patched(h) \/ Cancelled(h)

ControlsNext ==
  \/ ToggleMute \/ ToggleDeafen \/ ToggleCamera \/ ToggleScreenShare
  \/ \E k \in Kinds, d \in Devices : SelectInCard(k, d) \/ SelectInOptions(k, d)
  \/ \E h \in handlers : Step(h)
  \/ \E f \in Flags : TrackEnds(f)
  \/ VolumesFollowRow
  \/ Leave

ControlsSpec == ControlsInit /\ [][ControlsNext]_controlVars

-----------------------------------------------------------------------------
(* Properties *)

ControlsTypeOK ==
  /\ roomIs \in {"active", "over"} /\ published \in BOOLEAN
  /\ {voiceRow, air} \subseteq [Flags -> BOOLEAN]
  /\ {stored, chosen} \subseteq [Kinds -> Devices]
  /\ \A h \in handlers : h.of \in Flags /\ h.self \in [Flags -> BOOLEAN]
  /\ {reducerCalls[i] : i \in 1 .. Len(reducerCalls)} = {h.id : h \in {g \in handlers : g.pc = "patch"}}

\* Once the call is over and its handlers have settled nothing is captured or
\* played, whatever they were waiting for at the hang-up (assertActiveCallRoom).
HungUpIsSilent == roomIs = "over" /\ handlers = {} => air = Off

-----------------------------------------------------------------------------
(* The noise filter, and the sinks *)

CONSTANTS
  Tracks, NoTrack,  \* microphone tracks
  Models,           \* noise filters
  DefaultModel,     \* the one an untouched preference names
  Sinks,            \* playback keys of remote tracks
  MaxEvents,        \* changes around the filter
  MaxMounts         \* mounts and play attempts of the sinks

ASSUME AudioAssumption == NoTrack \notin Tracks /\ DefaultModel \in Models /\ {MaxEvents, MaxMounts} \subseteq Nat

VARIABLES
  mic,      \* the room's microphone track, or NoTrack
  muted,
  filter,   \* the processor of each track: a model, or "none"
  enabled, model,  \* the saved preference
  watcher,  \* the live watcher: its number, what it follows, and has it failed?
  queue,    \* tasks of the room's queue, the running one first
  pc,       \* where that task waits
  job,      \* the track it looked at and the model it is starting
  status,   \* what the settings show
  events

filterVars == <<mic, muted, filter, enabled, model, watcher, queue, pc, job, status, events>>

NoWatcher == [id |-> 0, track |-> NoTrack, failed |-> FALSE]

FilterInit ==
  /\ mic = NoTrack /\ muted = FALSE
  /\ filter = [t \in Tracks |-> "none"]
  /\ enabled = TRUE /\ model = DefaultModel
  /\ watcher = NoWatcher
  /\ queue = <<>> /\ pc = "start" /\ job = [track |-> NoTrack, model |-> model]
  /\ status = "idle" /\ events = 0

Live(w) == w # 0 /\ watcher.id = w
Sync(w) == [kind |-> "sync", of |-> w]
Happens == events < MaxEvents /\ events' = events + 1

\* The tasks a listener adds, if the watcher still listens.
Enqueue(listens) == queue' = IF listens THEN Append(queue, Sync(watcher.id)) ELSE queue

-----------------------------------------------------------------------------
(* What happens around the filter *)

\* useNoiseFilter mounts for a room: listen, and look at once.
Watch ==
  /\ watcher.id = 0 /\ Happens
  /\ watcher' = [NoWatcher EXCEPT !.id = events + 1]
  /\ queue' = Append(queue, Sync(events + 1))
  /\ UNCHANGED <<mic, muted, filter, enabled, model, pc, job, status>>

\* Its cleanup: whatever the filter of the followed track is, it goes, behind
\* the tasks already waiting.
Unwatch ==
  /\ watcher.id # 0 /\ Happens
  /\ watcher' = NoWatcher
  /\ queue' = Append(queue, [kind |-> "dispose", of |-> watcher.track])
  /\ status' = "idle"
  /\ UNCHANGED <<mic, muted, filter, enabled, model, pc, job>>

Publish(t) ==
  /\ mic = NoTrack /\ filter[t] = "none" /\ Happens
  /\ mic' = t /\ muted' = FALSE
  /\ Enqueue(watcher.id # 0)
  /\ UNCHANGED <<filter, enabled, model, watcher, pc, job, status>>

\* An unpublished track is stopped, its processor destroyed with it.
Unpublish ==
  /\ mic # NoTrack /\ Happens
  /\ mic' = NoTrack
  /\ filter' = [filter EXCEPT ![mic] = "none"]
  /\ Enqueue(watcher.id # 0)
  /\ UNCHANGED <<muted, enabled, model, watcher, pc, job, status>>

\* Mute and unmute reach a watcher that follows this track.
SetMuted ==
  /\ mic # NoTrack /\ Happens
  /\ muted' = ~muted
  /\ Enqueue(watcher.id # 0 /\ watcher.track = mic)
  /\ UNCHANGED <<mic, filter, enabled, model, watcher, pc, job, status>>

\* A setting gives a failed filter another chance.
ChangeSettings(on, m) ==
  /\ <<on, m>> # <<enabled, model>> /\ Happens
  /\ enabled' = on /\ model' = m
  /\ Enqueue(watcher.id # 0)
  /\ watcher' = [watcher EXCEPT !.failed = FALSE]
  /\ status' = IF on /\ watcher.track # NoTrack /\ ~muted THEN "loading" ELSE status
  /\ UNCHANGED <<mic, muted, filter, pc, job>>

\* The capture of the followed track ends, a device unplugged.
TrackEnded ==
  /\ mic # NoTrack /\ watcher.track = mic /\ status # "idle" /\ Happens
  /\ status' = "idle"
  /\ UNCHANGED <<mic, muted, filter, enabled, model, watcher, queue, pc, job>>

-----------------------------------------------------------------------------
(* The queue *)

Task == Head(queue)
Finished == queue' = Tail(queue) /\ pc' = "start"
Report(w, s) == status' = IF Live(w) THEN s ELSE status

\* Does the task still want the filter it is starting, on the track it looked at?
Wanted == Live(Task.of) /\ mic = job.track /\ enabled /\ model = job.model

\* The worklet of the running or starting filter dies: the microphone is given
\* back raw by another task.
FilterFails ==
  /\ watcher.id # 0 /\ Happens
  /\ \/ pc = "set" /\ Wanted
     \/ /\ mic # NoTrack /\ watcher.track = mic /\ filter[mic] = model /\ enabled
        /\ \A i \in 1 .. Len(queue) : queue[i].kind # "dispose"
  /\ watcher' = [watcher EXCEPT !.failed = TRUE]
  /\ status' = "error"
  /\ Enqueue(TRUE)
  /\ UNCHANGED <<mic, muted, filter, enabled, model, pc, job>>

\* A task that finds its watcher gone has nothing to do.
SkipDisposed ==
  /\ queue # <<>> /\ pc = "start" /\ Task.kind = "sync" /\ ~Live(Task.of)
  /\ Finished
  /\ UNCHANGED <<mic, muted, filter, enabled, model, watcher, job, status, events>>

\* The look at the current track.  A new track forgets the last failure.
StartSync ==
  /\ queue # <<>> /\ pc = "start" /\ Task.kind = "sync" /\ Live(Task.of)
  /\ LET seen == IF mic = watcher.track THEN watcher
                 ELSE [watcher EXCEPT !.track = mic, !.failed = FALSE]
         running == IF mic = NoTrack THEN "none" ELSE filter[mic]
     IN  /\ watcher' = seen
         /\ job' = [track |-> mic, model |-> model]
         /\ \/ /\ ~enabled \/ seen.failed
               /\ IF running # "none"
                    THEN pc' = "stop" /\ UNCHANGED <<queue, status>>
                    ELSE Finished /\ status' = IF seen.failed THEN status ELSE "off"
            \/ /\ enabled /\ ~seen.failed /\ (mic = NoTrack \/ muted)
               /\ Finished /\ status' = "idle"
            \/ /\ enabled /\ ~seen.failed /\ mic # NoTrack /\ ~muted /\ running = model
               /\ Finished /\ status' = "active"
            \/ /\ enabled /\ ~seen.failed /\ mic # NoTrack /\ ~muted /\ running # model
               /\ status' = "loading" /\ UNCHANGED queue
               /\ pc' = IF running = "none" THEN "load" ELSE "replace"
  /\ UNCHANGED <<mic, muted, filter, enabled, model, events>>

NoFilter(t) == filter' = IF t = NoTrack THEN filter ELSE [filter EXCEPT ![t] = "none"]

\* Mutant: the old model runs on until the new one is installed.
StopFilterOnlyWhenOff ==
  /\ pc \in {"stop", "replace"}
  /\ IF pc = "stop"
       THEN NoFilter(job.track) /\ Finished /\ Report(Task.of, IF watcher.failed THEN status ELSE "off")
       ELSE pc' = "load" /\ UNCHANGED <<filter, queue, status>>
  /\ UNCHANGED <<mic, muted, enabled, model, watcher, job, events>>

\* Restore raw audio: the setting is off, the filter failed, or another model is
\* about to be loaded.
StopFilter ==
  /\ pc \in {"stop", "replace"}
  /\ NoFilter(job.track)
  /\ IF pc = "stop"
       THEN Finished /\ Report(Task.of, IF watcher.failed THEN status ELSE "off")
       ELSE pc' = "load" /\ UNCHANGED <<queue, status>>
  /\ UNCHANGED <<mic, muted, enabled, model, watcher, job, events>>

\* The model's code arrives, or does not.
LoadModel ==
  /\ pc = "load"
  /\ \/ Wanted /\ pc' = "set" /\ UNCHANGED <<queue, status>>
     \/ ~Wanted /\ Finished /\ UNCHANGED status
     \/ Finished /\ Report(Task.of, "error")
  /\ UNCHANGED <<mic, muted, filter, enabled, model, watcher, job, events>>

\* setProcessor: refused, or installed; and then kept, or taken off again because
\* the world moved on while the filter started.
SetProcessor ==
  /\ pc = "set"
  /\ \/ /\ filter' = [filter EXCEPT ![job.track] = job.model]
        /\ IF Wanted /\ ~watcher.failed
             THEN Finished /\ status' = IF muted THEN "idle" ELSE "active"
             ELSE pc' = "undo" /\ UNCHANGED <<queue, status>>
     \/ /\ UNCHANGED filter
        /\ Finished /\ status' = IF Wanted THEN "error" ELSE status
  /\ UNCHANGED <<mic, muted, enabled, model, watcher, job, events>>

TakeOff ==
  /\ pc = "undo"
  /\ NoFilter(job.track)
  /\ Finished
  /\ UNCHANGED <<mic, muted, enabled, model, watcher, job, status, events>>

Dispose ==
  /\ queue # <<>> /\ pc = "start" /\ Task.kind = "dispose"
  /\ NoFilter(Task.of)
  /\ Finished
  /\ UNCHANGED <<mic, muted, enabled, model, watcher, job, status, events>>

FilterNext ==
  \/ Watch \/ Unwatch \/ Unpublish \/ SetMuted \/ TrackEnded \/ FilterFails
  \/ \E t \in Tracks : Publish(t)
  \/ \E on \in BOOLEAN, m \in Models : ChangeSettings(on, m)
  \/ SkipDisposed \/ StartSync \/ StopFilter \/ LoadModel \/ SetProcessor \/ TakeOff \/ Dispose

FilterSpec == FilterInit /\ [][FilterNext]_filterVars

-----------------------------------------------------------------------------
(* Properties of the filter *)

FilterTasks == [kind : {"sync"}, of : Nat] \cup [kind : {"dispose"}, of : Tracks \cup {NoTrack}]

FilterTypeOK ==
  /\ mic \in Tracks \cup {NoTrack} /\ muted \in BOOLEAN /\ enabled \in BOOLEAN
  /\ filter \in [Tracks -> Models \cup {"none"}] /\ model \in Models
  /\ watcher \in [id : Nat, track : Tracks \cup {NoTrack}, failed : BOOLEAN]
  /\ queue \in Seq(FilterTasks)
  /\ pc \in {"start", "stop", "replace", "load", "set", "undo"} /\ (pc # "start" => queue # <<>>)
  /\ job \in [track : Tracks \cup {NoTrack}, model : Models]
  /\ status \in {"idle", "loading", "active", "off", "error"}
  /\ events \in Nat

\* When the queue is empty the microphone has the filter the settings ask for: none
\* once it is off or has failed, never the other model while speaking, and the
\* status never claims a filter that is not running (noiseFilterStore.ts: a saved
\* preference is not proof that audio is filtered).
FilterFollowsSettings ==
  queue = <<>> /\ watcher.id # 0 /\ mic # NoTrack =>
    /\ ~enabled \/ watcher.failed => filter[mic] = "none"
    /\ enabled /\ ~muted => filter[mic] \in {model, "none"}
    /\ status = "active" => filter[mic] = model /\ ~muted
    /\ status # "loading"

-----------------------------------------------------------------------------
(* The sinks of the remote tracks *)

VARIABLES
  mounted,  \* the mounted instance of each sink, 0 for none
  attempt,  \* its counter of play attempts
  plays,    \* play() calls the browser has not answered
  sound,    \* sinks that are playing
  blocked,  \* sinks "Enable audio" offers to retry
  mounts

sinkVars == <<mounted, attempt, plays, sound, blocked, mounts>>

SinkInit ==
  /\ mounted = [k \in Sinks |-> 0] /\ attempt = [k \in Sinks |-> 0]
  /\ plays = {} /\ sound = {} /\ blocked = {} /\ mounts = 0

Budget == mounts < MaxMounts /\ mounts' = mounts + 1
Play(k, inst, n) == [key |-> k, inst |-> inst, n |-> n]

IsCurrentPlay(p) == mounted[p.key] = p.inst /\ attempt[p.key] = p.n

\* A sink appears in the application shell, for a track of somebody else, and
\* tries to play.
Mount(k) ==
  /\ mounted[k] = 0 /\ Budget
  /\ mounted' = [mounted EXCEPT ![k] = mounts']
  /\ attempt' = [attempt EXCEPT ![k] = 1]
  /\ plays' = plays \cup {Play(k, mounts', 1)}
  /\ UNCHANGED <<sound, blocked>>

\* The track goes, or is replaced: late answers no longer count.
Unmount(k) ==
  /\ mounted[k] # 0
  /\ mounted' = [mounted EXCEPT ![k] = 0]
  /\ sound' = sound \ {k} /\ blocked' = blocked \ {k}
  /\ UNCHANGED <<attempt, plays, mounts>>

\* The element plays: its "playing" event overtakes the attempts, then the browser
\* answers all of them.
Playing(k) ==
  /\ mounted[k] # 0 /\ k \notin sound
  /\ attempt' = [attempt EXCEPT ![k] = @ + 1]
  /\ plays' = {p \in plays : p.key # k \/ p.inst # mounted[k]}
  /\ sound' = sound \cup {k} /\ blocked' = blocked \ {k}
  /\ UNCHANGED <<mounted, mounts>>

\* The browser wants a gesture first.
PlayRefused(p) ==
  /\ plays' = plays \ {p}
  /\ blocked' = IF IsCurrentPlay(p) THEN blocked \cup {p.key} ELSE blocked
  /\ UNCHANGED <<mounted, attempt, sound, mounts>>

\* One click retries every blocked sink, inside the gesture.
EnableAudio ==
  /\ blocked # {} /\ Budget
  /\ attempt' = [k \in Sinks |-> attempt[k] + IF k \in blocked THEN 1 ELSE 0]
  /\ plays' = plays \cup {Play(k, mounted[k], attempt'[k]) : k \in blocked}
  /\ UNCHANGED <<mounted, sound, blocked>>

SinkNext ==
  \/ \E k \in Sinks : Mount(k) \/ Unmount(k) \/ Playing(k)
  \/ \E p \in plays : PlayRefused(p)
  \/ EnableAudio

SinkSpec == SinkInit /\ [][SinkNext]_sinkVars

\* The banner is true: it offers sinks that are there and silent, and every silent
\* sink with no attempt under way is in it (watchAudioPlayback's attempt counter).
BlockedIsSilent ==
  /\ \A k \in blocked : mounted[k] # 0 /\ k \notin sound
  /\ \A k \in Sinks : mounted[k] # 0 /\ (\A p \in plays : p.key = k => ~IsCurrentPlay(p)) => k \in sound \cup blocked

=============================================================================
