-------------------------- MODULE MCArchiveRestore --------------------------
(* A space, a channel message, a direct message and one row of the tables in *)
(* between; one key for each message.                                         *)
EXTENDS ArchiveRestore, TLC

CONSTANTS m1, d1, s1, c1, p1, k1, k2

MCMessages == {m1}
MCDirectMessages == {d1}
MCSpaces == {s1}
MCChannels == {c1}
MCKeys == {k1}
MCPlainRows == {p1}
MCChannelOf == m1 :> c1
MCSpaceOf == c1 :> s1
MCScope == [r \in Rows |-> IF r \in {m1, d1} THEN {k1} ELSE {}]
=============================================================================
