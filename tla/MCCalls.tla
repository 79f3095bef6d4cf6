-------------------------------- MODULE MCCalls --------------------------------
(***************************************************************************)
(* Joining and leaving calls, and the controls, the noise filter and the   *)
(* sinks of one call.  They share no state, so interleaving them shows     *)
(* nothing new: a behaviour exercises one of them and leaves the others as *)
(* they start.  Of joining: a voice channel and a friend to call, two      *)
(* calls and two sockets, enough for a call that replaces one to the same  *)
(* or to another target, and for a row of the socket before.               *)
(***************************************************************************)
EXTENDS CallSession, CallMedia, TLC

CONSTANTS lounge, ben

MCSymmetry == Permutations(Targets)

\* Bound: two calls on the wire, one clean-up queued, and not a camera and a
\* round of the reconciler at once.
FewAtOnce ==
  /\ Len(wire[1]) + Len(wire[2]) <= 2
  /\ Len(SelectSeq(work, LAMBDA s : s.op = "cleanup")) <= 1
  /\ Cardinality(asking \cup capture) + Cardinality(seen) <= 1

VARIABLE part  \* the one that is exercised

CallsInit ==
  /\ part \in {"session", "controls", "filter", "sinks"}
  /\ Init /\ ControlsInit /\ FilterInit /\ SinkInit
  /\ part # "controls" => stored = [k \in Kinds |-> DefaultDevice]

CallsNext ==
  /\ UNCHANGED part
  /\ \/ part = "session" /\ Next /\ UNCHANGED <<controlVars, filterVars, sinkVars>>
     \/ part = "controls" /\ ControlsNext /\ UNCHANGED <<vars, filterVars, sinkVars>>
     \/ part = "filter" /\ FilterNext /\ UNCHANGED <<vars, controlVars, sinkVars>>
     \/ part = "sinks" /\ SinkNext /\ UNCHANGED <<vars, controlVars, filterVars>>

CallsSpec ==
  CallsInit /\ [][CallsNext]_<<part, vars, controlVars, filterVars, sinkVars>>
=============================================================================
