------------------------------- MODULE MCFiles -------------------------------
(***************************************************************************)
(* Files from their upload to the screen: the quotas, what is derived from *)
(* a confirmed video, the links attachments are shown with, and the video  *)
(* player.  These share no state here, so a behaviour exercises one of     *)
(* them and leaves the others as they start.                               *)
(*                                                                         *)
(* Of quotas: two users, one with two uploads of which one was reserved by *)
(* an older deployment; the limits are tight enough for every refusal to   *)
(* happen.  Of derivatives: one video, on whose row the three loops meet   *)
(* in every pair.  Of links: one object, shown by two messages.  Of the    *)
(* player: two videos.                                                     *)
(***************************************************************************)
EXTENDS UploadQuota, VideoDerivatives, AttachmentLinks, VideoPlayer, TLC

CONSTANTS alice, bob, u1, u2, u3, w1, w2, v1, k1

MCUsers   == {alice, bob}
MCUploads == {u1, u2, u3}
MCOwner   == [u \in MCUploads |-> IF u = u3 THEN bob ELSE alice]
MCSize    == [u \in MCUploads |-> 1]
MCLimits  == {[daily |-> 1, user |-> 2, instance |-> 3], [daily |-> 2, user |-> 0, instance |-> 2]}
MCWorkers == {w1, w2}
MCLegacy  == {u1}
Symmetry  == Permutations(MCWorkers)
MCVideos  == {v1}

VARIABLE part  \* the one that is exercised

FilesInit ==
  /\ part \in {"quota", "derivatives", "links", "player"}
  /\ Init /\ VideoInit /\ LinksInit /\ PlayerInit
  /\ part # "quota" => limits.daily = 1

FilesNext ==
  /\ UNCHANGED part
  /\ \/ part = "quota" /\ Next /\ UNCHANGED <<derivativeVars, linkVars, playerVars>>
     \/ part = "derivatives" /\ VideoNext /\ UNCHANGED <<vars, linkVars, playerVars>>
     \/ part = "links" /\ LinksNext /\ UNCHANGED <<vars, derivativeVars, playerVars>>
     \/ part = "player" /\ PlayerNext /\ UNCHANGED <<vars, derivativeVars, linkVars>>

FilesSpec == FilesInit /\ [][FilesNext]_<<part, vars, derivativeVars, linkVars, playerVars>>
=============================================================================
