------------------------ MODULE MCArchiveReplication ------------------------
(* Two rows, two values, two credentials.                                  *)
EXTENDS ArchiveReplication, TLC

CONSTANT MaxQueue  \* bound: writes in the queue

MCSymmetry == Permutations(Keys) \cup Permutations(Values)

ShortQueue == Len(queue) <= MaxQueue
=============================================================================
