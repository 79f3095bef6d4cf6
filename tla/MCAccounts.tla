----------------------------- MODULE MCAccounts -----------------------------
(* One account, two requests at a time, two addresses.                       *)
EXTENDS Accounts, TLC

MCSymmetry == Permutations(Requests) \cup Permutations(Addresses)

Busy == {r \in Requests : request[r] # Free}

\* One kind of mishap at a time, at most two tokens; role changes in an
\* account that is active and whose password and address do not change; and
\* one request at a time, without a mishap, after the second such change.
OneTopic ==
  /\ Cardinality(mishaps) <= 1 /\ Cardinality(tokens) <= 2
  /\ role \/ grant \/ (\E r \in Requests : request[r].op = "role")
       => account # None /\ account.status = "active" /\ account.seal = 0 /\ links = {}
  /\ account # None /\ account.seal > 1 => mishaps = {} /\ Cardinality(Busy) <= 1
=============================================================================
