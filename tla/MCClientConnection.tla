------------------------ MODULE MCClientConnection ------------------------
(* Two accounts on one device.  Once a socket was left open, a session is  *)
(* followed only while no other is in use.                                 *)
EXTENDS ClientConnection, TLC

MCSymmetry == Permutations(Accounts)

FewLeftOpen ==
  NoneLeftOpen \/ Cardinality(FreeSockets(client)) >= Cardinality(Sockets) - 1
=============================================================================
