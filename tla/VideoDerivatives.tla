-------------------------- MODULE VideoDerivatives --------------------------
(***************************************************************************)
(* Posters and HLS segments that core-api derives from confirmed videos.   *)
(* Three background loops touch a video's ConfirmedUploads row and its     *)
(* derived objects without a common transaction: the thumbnail worker (no  *)
(* row lock), the playback worker (an advisory lock, so one in the whole   *)
(* deployment; a row lock only while it reserves and publishes) and the    *)
(* lifecycle collector (row lock from first read to commit).               *)
(***************************************************************************)
EXTENDS Naturals, FiniteSets

CONSTANTS Videos, NoVideo,
          MaxAttempts  \* both workers give up after three

ASSUME VideoAssumption ==
    /\ NoVideo \notin Videos
    /\ MaxAttempts \in Nat \ {0}

VARIABLES
    row,        \* [Videos -> BOOLEAN]: the ConfirmedUploads row exists
    claimed,    \* [Videos -> BOOLEAN]: the chat database has given the video up
    thumb,      \* [Videos -> {"pending", "done", "failed"}]: ThumbnailState
    thumbTries, \* [Videos -> 0..MaxAttempts]: ThumbnailAttempts
    video,      \* [Videos -> {"pending", "done", "failed"}]: VideoState
    videoTries, \* [Videos -> 0..MaxAttempts]: VideoAttempts
    charged,    \* [Videos -> BOOLEAN]: VideoBytes > 0
    poster,     \* [Videos -> BOOLEAN]: {videoKey}.thumb.jpg is in the bucket
    segments,   \* [Videos -> {"none", "some", "all"}]: derived/hls/... in the bucket
    lock,       \* [Videos -> {"free", "playback", "collector"}]: FOR UPDATE on the row
    tpc, tjob,  \* thumbnail worker
    cut,        \* [Videos -> BOOLEAN]: history, it stopped with a poster unsaved
    vpc, vjob,  \* playback worker
    cpc, cjob   \* collector

rowVars    == <<row, claimed, thumb, thumbTries, video, videoTries, charged>>
objectVars == <<poster, segments>>
thumbVars  == <<tpc, tjob, cut>>
videoVars  == <<vpc, vjob>>
collectVars == <<cpc, cjob>>
derivativeVars == <<rowVars, objectVars, lock, thumbVars, videoVars, collectVars>>

VideoInit ==
    /\ row        = [v \in Videos |-> TRUE]
    /\ claimed    = [v \in Videos |-> FALSE]
    /\ thumb      = [v \in Videos |-> "pending"]
    /\ thumbTries = [v \in Videos |-> 0]
    /\ video      = [v \in Videos |-> "pending"]
    /\ videoTries = [v \in Videos |-> 0]
    /\ charged    = [v \in Videos |-> FALSE]
    /\ poster     = [v \in Videos |-> FALSE]
    /\ segments   = [v \in Videos |-> "none"]
    /\ lock       = [v \in Videos |-> "free"]
    /\ tpc = "idle" /\ tjob = NoVideo
    /\ cut        = [v \in Videos |-> FALSE]
    /\ vpc = "idle" /\ vjob = NoVideo
    /\ cpc = "idle" /\ cjob = NoVideo

\* Fresh jobs before retries.
Oldest(state, tries) ==
    LET jobs == {v \in Videos : row[v] /\ state[v] = "pending"}
    IN  {v \in jobs : \A w \in jobs : tries[v] <= tries[w]}

----------------------------------------------------------------------------
(* VideoThumbnailWorker.RunOnceAsync *)

ThumbPick(v) ==
    /\ tpc = "idle"
    /\ v \in Oldest(thumb, thumbTries)
    /\ tpc' = "render"
    /\ tjob' = v
    /\ UNCHANGED <<rowVars, objectVars, lock, cut, videoVars, collectVars>>

ThumbPut ==
    /\ tpc = "render"
    /\ poster' = [poster EXCEPT ![tjob] = TRUE]
    /\ tpc' = "save"
    /\ UNCHANGED <<rowVars, segments, lock, tjob, cut, videoVars, collectVars>>

\* ffmpeg produced nothing: the attempt is only counted by the save.
ThumbRenderFails ==
    /\ tpc = "render"
    /\ tpc' = "count"
    /\ UNCHANGED <<rowVars, objectVars, lock, tjob, cut, videoVars, collectVars>>

ThumbIdle == tpc' = "idle" /\ tjob' = NoVideo

\* UPDATE waits for the row lock; no row left to update means the collector was
\* here, and the poster is deleted again.
ThumbSave ==
    /\ tpc = "save"
    /\ lock[tjob] = "free"
    /\ \/ /\ row[tjob]
          /\ thumb' = [thumb EXCEPT ![tjob] = "done"]
          /\ UNCHANGED poster
       \/ /\ ~row[tjob]
          /\ poster' = [poster EXCEPT ![tjob] = FALSE]
          /\ UNCHANGED thumb
    /\ ThumbIdle
    /\ UNCHANGED <<row, claimed, thumbTries, video, videoTries, charged,
                   segments, lock, cut, videoVars, collectVars>>

ThumbCount ==
    /\ tpc = "count"
    /\ lock[tjob] = "free"
    /\ \/ /\ row[tjob]
          /\ thumbTries' = [thumbTries EXCEPT ![tjob] = @ + 1]
          /\ thumb' = [thumb EXCEPT ![tjob] =
                IF thumbTries[tjob] + 1 >= MaxAttempts THEN "failed" ELSE @]
       \/ ~row[tjob] /\ UNCHANGED <<thumb, thumbTries>>
    /\ ThumbIdle
    /\ UNCHANGED <<row, claimed, video, videoTries, charged,
                   objectVars, lock, cut, videoVars, collectVars>>

\* A restart, or a storage call that throws, abandons the job where it is.
ThumbStops ==
    /\ tpc # "idle"
    /\ ThumbIdle
    /\ cut' = [cut EXCEPT ![tjob] = @ \/ tpc = "save"]
    /\ UNCHANGED <<rowVars, objectVars, lock, videoVars, collectVars>>

----------------------------------------------------------------------------
(* VideoPlaybackWorker.RunOnceAsync *)

PlayPick(v) ==
    /\ vpc = "idle"
    /\ v \in Oldest(video, videoTries)
    /\ vpc' = "clear"
    /\ vjob' = v
    /\ UNCHANGED <<rowVars, objectVars, lock, thumbVars, collectVars>>

\* What a crashed publication left is removed before its charge is released.
PlayClear ==
    /\ vpc = "clear"
    /\ segments' = [segments EXCEPT ![vjob] = "none"]
    /\ vpc' = "attempt"
    /\ UNCHANGED <<rowVars, poster, lock, vjob, thumbVars, collectVars>>

PlayIdle == vpc' = "idle" /\ vjob' = NoVideo

\* The attempt is counted before anything that can crash.
PlayAttempt ==
    /\ vpc = "attempt"
    /\ lock[vjob] = "free"
    /\ \/ ~row[vjob] /\ PlayIdle /\ UNCHANGED <<video, videoTries, charged>>
       \/ /\ row[vjob]
          /\ charged' = [charged EXCEPT ![vjob] = FALSE]
          /\ \/ /\ videoTries[vjob] >= MaxAttempts
                /\ video' = [video EXCEPT ![vjob] = "failed"]
                /\ PlayIdle
                /\ UNCHANGED videoTries
             \/ /\ videoTries[vjob] < MaxAttempts
                /\ videoTries' = [videoTries EXCEPT ![vjob] = @ + 1]
                /\ vpc' = "encode"
                /\ UNCHANGED <<video, vjob>>
    /\ UNCHANGED <<row, claimed, thumb, thumbTries, objectVars, lock, thumbVars, collectVars>>

PlayEncode ==
    /\ vpc = "encode"
    /\ vpc' = "reserve"
    /\ UNCHANGED <<rowVars, objectVars, lock, vjob, thumbVars, collectVars>>

\* One transaction: charge the bytes, or fail the video when they do not fit.
PlayReserve ==
    /\ vpc = "reserve"
    /\ lock[vjob] = "free"
    /\ \/ ~row[vjob] /\ PlayIdle /\ UNCHANGED <<video, charged>>
       \/ /\ row[vjob]
          /\ charged' = [charged EXCEPT ![vjob] = TRUE]
          /\ vpc' = "lock"
          /\ UNCHANGED <<video, vjob>>
       \/ /\ row[vjob]
          /\ video' = [video EXCEPT ![vjob] = "failed"]
          /\ PlayIdle
          /\ UNCHANGED charged
    /\ UNCHANGED <<row, claimed, thumb, thumbTries, videoTries,
                   objectVars, lock, thumbVars, collectVars>>

\* Plausible bug: publication does not serialise with lifecycle deletion.
PlayPublishUnlocked ==
    /\ vpc = "lock"
    /\ IF row[vjob] THEN vpc' = "publish" /\ UNCHANGED vjob ELSE PlayIdle
    /\ UNCHANGED <<rowVars, objectVars, lock, thumbVars, collectVars>>

PlayLock ==
    /\ vpc = "lock"
    /\ lock[vjob] = "free"
    /\ IF row[vjob]
       THEN /\ lock' = [lock EXCEPT ![vjob] = "playback"]
            /\ vpc' = "publish"
            /\ UNCHANGED vjob
       ELSE PlayIdle /\ UNCHANGED lock
    /\ UNCHANGED <<rowVars, objectVars, thumbVars, collectVars>>

PlayPut ==
    /\ vpc = "publish"
    /\ \E s \in {"some", "all"} : segments' = [segments EXCEPT ![vjob] = s]
    /\ segments[vjob] # "all"
    /\ UNCHANGED <<rowVars, poster, lock, videoVars, thumbVars, collectVars>>

Unlock(v, who) == lock' = [lock EXCEPT ![v] = IF @ = who THEN "free" ELSE @]

PlayCommit ==
    /\ vpc = "publish"
    /\ segments[vjob] = "all"
    /\ video' = [video EXCEPT ![vjob] = IF row[vjob] THEN "done" ELSE @]
    /\ Unlock(vjob, "playback")
    /\ PlayIdle
    /\ UNCHANGED <<row, claimed, thumb, thumbTries, videoTries, charged,
                   objectVars, thumbVars, collectVars>>

\* Deadline, failed call, crash or restart: the transaction rolls back.
PlayStops ==
    /\ vpc # "idle"
    /\ Unlock(vjob, "playback")
    /\ PlayIdle
    /\ UNCHANGED <<rowVars, objectVars, thumbVars, collectVars>>

----------------------------------------------------------------------------
(* The collector's deletion of one claimed upload *)

GiveUp(v) ==
    /\ row[v] /\ ~claimed[v]
    /\ claimed' = [claimed EXCEPT ![v] = TRUE]
    /\ UNCHANGED <<row, thumb, thumbTries, video, videoTries, charged,
                   objectVars, lock, thumbVars, videoVars, collectVars>>

CollectLock(v) ==
    /\ cpc = "idle"
    /\ row[v] /\ claimed[v]
    /\ lock[v] = "free"
    /\ lock' = [lock EXCEPT ![v] = "collector"]
    /\ cpc' = "poster"
    /\ cjob' = v
    /\ UNCHANGED <<rowVars, objectVars, thumbVars, videoVars>>

CollectPoster ==
    /\ cpc = "poster"
    /\ poster' = [poster EXCEPT ![cjob] = FALSE]
    /\ cpc' = "segments"
    /\ UNCHANGED <<rowVars, segments, lock, cjob, thumbVars, videoVars>>

CollectSegments ==
    /\ cpc = "segments"
    /\ segments' = [segments EXCEPT ![cjob] = "none"]
    /\ cpc' = "row"
    /\ UNCHANGED <<rowVars, poster, lock, cjob, thumbVars, videoVars>>

CollectIdle == cpc' = "idle" /\ cjob' = NoVideo

CollectRow ==
    /\ cpc = "row"
    /\ row'     = [row EXCEPT ![cjob] = FALSE]
    /\ charged' = [charged EXCEPT ![cjob] = FALSE]
    /\ Unlock(cjob, "collector")
    /\ CollectIdle
    /\ UNCHANGED <<claimed, thumb, thumbTries, video, videoTries,
                   objectVars, thumbVars, videoVars>>

\* The rest waits for a later sweep.
CollectStops ==
    /\ cpc # "idle"
    /\ Unlock(cjob, "collector")
    /\ CollectIdle
    /\ UNCHANGED <<rowVars, objectVars, thumbVars, videoVars>>

----------------------------------------------------------------------------

ThumbStep == (\E v \in Videos : ThumbPick(v)) \/ ThumbPut \/ ThumbRenderFails
             \/ ThumbSave \/ ThumbCount

PlayStep == (\E v \in Videos : PlayPick(v)) \/ PlayClear \/ PlayAttempt \/ PlayEncode
            \/ PlayReserve \/ PlayLock \/ PlayPut \/ PlayCommit

CollectStep == (\E v \in Videos : CollectLock(v)) \/ CollectPoster \/ CollectSegments
               \/ CollectRow

VideoNext ==
    \/ ThumbStep \/ ThumbStops
    \/ PlayStep \/ PlayStops
    \/ CollectStep \/ CollectStops
    \/ \E v \in Videos : GiveUp(v)

\* The loops keep running; however often the process stops, the playback worker
\* now and then lives long enough to clear up and to record an attempt, and the
\* collector to finish a deletion; and a row lock goes to whoever waits for it.
Fairness ==
    /\ WF_derivativeVars(PlayStep)
    /\ SF_derivativeVars(PlayClear)
    /\ SF_derivativeVars(PlayAttempt)
    /\ SF_derivativeVars(PlayReserve)
    /\ SF_derivativeVars(PlayLock)
    /\ WF_derivativeVars(CollectStep)
    /\ SF_derivativeVars(CollectPoster)
    /\ SF_derivativeVars(CollectSegments)
    /\ SF_derivativeVars(CollectRow)

VideoSpec == VideoInit /\ [][VideoNext]_derivativeVars /\ Fairness

----------------------------------------------------------------------------
(* Properties *)

\* "Retained or reserved derived bytes, charged until deletion succeeds": HLS
\* segments never outlive the charge or the row they are charged to.
SegmentsAreCharged ==
    \A v \in Videos : segments[v] # "none" => row[v] /\ charged[v]

\* The one way to a poster without a video is the thumbnail worker stopping, or
\* failing to delete it, between storing and saving it: a collection that meets
\* the worker anywhere else leaves no poster (VideoThumbnailWorker.cs:97-101).
OnlyCutOffPostersStay ==
    \A v \in Videos : poster[v] /\ ~row[v] => cut[v] \/ (tpc = "save" /\ tjob = v)

=============================================================================
