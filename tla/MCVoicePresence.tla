-------------------------- MODULE MCVoicePresence --------------------------
(* Two accounts and a limit of one fill a channel; two sockets let one     *)
(* account hold two devices, while the other acts through one-off calls or *)
(* over the socket that is left.                                           *)
EXTENDS VoicePresence, TLC

CONSTANTS ann, ben, lounge, stage, k1, k2

MCSymmetry ==
  Permutations(Accounts) \cup Permutations(Channels) \cup Permutations(Connections)

\* Bound: at most one account is kept out, silenced or waiting.
OneOutcast ==
  Cardinality(silenced \cup banned \cup {a \in Accounts : request[a] /= "none"}) <= 1
=============================================================================
