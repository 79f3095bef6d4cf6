------------------------------- MODULE MCSignIn -------------------------------
(***************************************************************************)
(* The sign-in screen, the pause between confirmation mails and the choice *)
(* of the instance are checked side by side: a behaviour exercises one of  *)
(* them and leaves the other two as they start.                            *)
(***************************************************************************)
EXTENDS SignIn, InstanceSwitch

CONSTANTS h1, h2, e1, e2, e3

\* h1 moves from e1 to a loopback address, which has another name; h2 stays at e1.
MCConfigs == {[host |-> h1, at |-> e1], [host |-> h1, at |-> e2], [host |-> h2, at |-> e1]}

VARIABLE part  \* the one that is exercised

\* The instance's registration setting, a first pause and the build differ only in
\* the part they matter to.
EntryInit ==
  /\ part \in {"screen", "mail", "instance"}
  /\ SignInInit /\ MailInit /\ InstanceInit
  /\ part # "screen" => ~required
  /\ part # "mail" => stored = 0
  /\ part # "instance" => ~hosted

EntryNext ==
  /\ UNCHANGED part
  /\ \/ part = "screen" /\ SignInNext /\ UNCHANGED <<mailVars, instanceVars>>
     \/ part = "mail" /\ MailNext /\ UNCHANGED <<signInVars, instanceVars>>
     \/ part = "instance" /\ InstanceNext /\ UNCHANGED <<signInVars, mailVars>>

EntrySpec == EntryInit /\ [][EntryNext]_<<part, signInVars, mailVars, instanceVars>>
=============================================================================
