------------------------------ MODULE MCAttention ------------------------------
(***************************************************************************)
(* What asks for the user's attention: the rail of spaces, the ring of a   *)
(* call and the unread counts. They share no state, so a behaviour         *)
(* exercises one of them and leaves the other two as they start. Threads   *)
(* are interchangeable.                                                    *)
(***************************************************************************)
EXTENDS ServerRail, IncomingRing, ReadMarks, TLC

CONSTANTS s1, s2, s3, s4, c, p

Interchangeable == Permutations(Threads)

VARIABLE part  \* the one that is exercised

AttentionInit ==
  /\ part \in {"rail", "ring", "marks"}
  /\ RailInit /\ RingInit /\ MarksInit

\* A rail on which a space was dropped onto itself is not followed further.
AttentionNext ==
  /\ UNCHANGED part
  /\ \/ part = "rail" /\ ~twinned /\ RailNext /\ UNCHANGED <<ringVars, markVars>>
     \/ part = "ring" /\ RingNext /\ UNCHANGED <<railVars, markVars>>
     \/ part = "marks" /\ MarksNext /\ UNCHANGED <<railVars, ringVars>>

AttentionSpec ==
  AttentionInit /\ [][AttentionNext]_<<part, railVars, ringVars, markVars>>
=============================================================================
