--------------------------- MODULE ServicesProofs ---------------------------
(***************************************************************************)
(* What holds of the copies the services keep of each other.               *)
(*                                                                         *)
(* First, of an account and its copy in the chat database, for any number  *)
(* of requests at a time, any addresses and any number of changes.         *)
(*                                                                         *)
(* A request that may still save holds the row as it is, or knows that it  *)
(* does not (CopyOK).  No copy carries a generation that was not saved,    *)
(* and an account that a failed mail may still take back has no session,   *)
(* no chat row and nobody about to get one (GenerationOK): so the floor is *)
(* never ahead.  As long as no refused save went unnoticed, a session of   *)
(* the present generation was obtained with the present password, unless a *)
(* change of it is still to take the next generation (PasswordOK).  The    *)
(* role and the flag differ only while a request is about to push or to    *)
(* roll back (RoleOK).                                                     *)
(*                                                                         *)
(* Second, of the rows of the chat database and their copy in the archive, *)
(* for any rows, credentials and transactions on their way.  What draining *)
(* the queue leaves of a row the worker knows of is inductive by itself,   *)
(* as new writes come behind those that wait; that a wiped database's rows *)
(* stay needs that no view on its way allows deletions (FenceOK).          *)
(***************************************************************************)
EXTENDS Accounts, ArchiveReplication, FiniteSetTheorems, SequenceTheorems, TLAPS

Args  == BOOLEAN \cup Nat \cup Addresses \cup Statuses \cup {None}
Steps == {"free", "mail", "answer", "confirm", "advance", "flag", "password", "bump", "push",
          "address", "status", "role", "resync", "sync", "rollback", "restore"}
Ops   == {"free", "register", "resend", "confirm", "session", "link", "password", "address",
          "status", "enable", "role"}
RequestRows == [op : Ops, at : Steps, user : AccountRows \cup {None}, fresh : BOOLEAN, arg : Args]

\* A request on its way to an answer with a token.
Answering(q) == q.at \in {"answer", "flag"} \/ (q.at = "push" /\ q.op = "link")

\* What a request has loaded, by where it is.
Shape(q) ==
    /\ q \in RequestRows
    /\ q.at \in {"answer", "flag", "push", "bump", "mail", "status"} => q.user \in AccountRows
    /\ Answering(q) \/ q.at = "bump" => q.arg \in Nat
    /\ q.at \in {"role", "resync", "sync", "rollback", "restore"} => q.arg \in BOOLEAN
    /\ q.at = "address" => q.arg \in Addresses /\ q.op = "address"
    /\ q.at = "status" => q.arg \in Statuses /\ q.op # "link"

\* A copy that may still be saved is the row.
Held(q, row) == BeforeSave(q) /\ q.fresh => row # None /\ q.user = row

CopyOK ==
    /\ account \in AccountRows \cup {None}
    /\ request \in [Requests -> RequestRows]
    /\ \A r \in Requests : Shape(request[r]) /\ Held(request[r], account)

TypeInv ==
    /\ CopyOK
    /\ tokens \subseteq [gen : Nat, pw : Nat]
    /\ role \in BOOLEAN /\ grant \in BOOLEAN
    /\ chat \in ChatRows \cup {None}

----------------------------------------------------------------------------
(* Loading, continuing and saving *)

LEMMA FreeShape == Shape(Free) /\ ~BeforeSave(Free) /\ Free.user = None /\ Free.at = "free"
BY DEF Shape, Free, RequestRows, Ops, Steps, Args, BeforeSave, Answering

LEMMA NewRowIs ==
    ASSUME NEW a \in Addresses, NEW st \in Statuses
    PROVE  NewRow(a, st) \in AccountRows /\ NewRow(a, st).gen = 0 /\ NewRow(a, st).pw = 0 /\ NewRow(a, st).status = st
BY DEF NewRow, AccountRows

LEMMA OutdatedIs ==
    ASSUME NEW q, Shape(q)
    PROVE  /\ Shape(Outdated(q))
           /\ Outdated(q).op = q.op /\ Outdated(q).at = q.at /\ Outdated(q).arg = q.arg
           /\ ~BeforeSave(q) => Outdated(q) = q
           /\ ~(BeforeSave(Outdated(q)) /\ Outdated(q).fresh)
           /\ Outdated(q).user \in {q.user, None}
           /\ q.at \in {"mail", "bump", "status"} => Outdated(q).user = q.user
<1>1. CASE ~BeforeSave(q)
  BY <1>1 DEF Outdated
<1>2. CASE BeforeSave(q)
  <2> DEFINE u == IF q.at \in {"mail", "bump", "status"} THEN q.user ELSE None
  <2>1. Outdated(q) = [op |-> q.op, at |-> q.at, user |-> u, fresh |-> FALSE, arg |-> q.arg]
    BY <1>2 DEF Outdated, Shape, RequestRows
  <2> QED BY <1>2, <2>1 DEF Shape, RequestRows, BeforeSave, Answering
<1> QED BY <1>1, <1>2

LEMMA LoadKeeps ==
    ASSUME CopyOK, NEW r \in Requests, NEW op \in Ops, NEW at \in Steps, NEW arg \in Args,
           Load(r, op, at, arg), account' = account,
           Shape([op |-> op, at |-> at, user |-> account, fresh |-> TRUE, arg |-> arg])
    PROVE  CopyOK'
BY DEF CopyOK, Load, Held, RequestRows

LEMMA ContinueKeeps ==
    ASSUME CopyOK, NEW r \in Requests, NEW q, Shape(q), Held(q, account), Continue(r, q), account' = account
    PROVE  CopyOK'
BY DEF CopyOK, Continue, Shape

LEMMA FinishKeeps == ASSUME CopyOK, NEW r \in Requests, Finish(r), account' = account PROVE CopyOK'
BY FreeShape, ContinueKeeps DEF Finish, Held

\* UserManager.UpdateAsync: every other copy is out of date.
LEMMA SaveKeeps ==
    ASSUME CopyOK, NEW r \in Requests, NEW row \in AccountRows, NEW q, AccountsAssumption,
           Save(r, row, q), Shape(q), Held(q, row)
    PROVE  CopyOK'
<1>1. account' = row /\ row # None
  BY DEF Save, AccountsAssumption
<1>2. request' = [x \in Requests |-> IF x = r THEN q ELSE Outdated(request[x])]
  BY DEF Save
<1>3. \A x \in Requests : Shape(request'[x]) /\ Held(request'[x], account')
  BY <1>1, <1>2, OutdatedIs DEF CopyOK, Held
<1>4. request' \in [Requests -> RequestRows]
  BY <1>2, <1>3 DEF Shape
<1> QED BY <1>1, <1>3, <1>4 DEF CopyOK

----------------------------------------------------------------------------
(* Every step keeps the copies *)

LEMMA InitCopies == Init => TypeInv
BY FreeShape DEF Init, TypeInv, CopyOK, Held, Shape

LEMMA HandlerCopies ==
    ASSUME CopyOK, AccountsAssumption, tokens \subseteq [gen : Nat, pw : Nat], NEW r \in Requests, Handler(r)
    PROVE  CopyOK'
<1> USE DEF Args, Ops, Steps, Statuses
<1>1. ASSUME NEW a \in Addresses, NEW yes \in BOOLEAN, Register(r, a, yes) PROVE CopyOK'
  <2> DEFINE row == NewRow(a, IF yes THEN "registered" ELSE "active")
             q   == [op |-> "register", at |-> IF yes THEN "mail" ELSE "answer", user |-> row, fresh |-> TRUE, arg |-> row.pw]
  <2>1. row \in AccountRows /\ row.pw = 0
    BY NewRowIs
  <2>2. Shape(q)
    BY <2>1 DEF Shape, RequestRows, Answering
  <2>3. account = None /\ account' = row /\ Continue(r, q)
    BY <1>1 DEF Register
  <2>4. \A x \in Requests : ~(BeforeSave(request[x]) /\ request[x].fresh)
    BY <2>3 DEF CopyOK, Held
  <2> HIDE DEF row, q
  <2>5. Held(q, row)
    BY <2>1 DEF Held, AccountsAssumption, q
  <2> QED BY <2>1, <2>2, <2>3, <2>4, <2>5 DEF CopyOK, Continue, Held, Shape
<1>2. ASSUME NEW a \in Addresses, NEW yes \in BOOLEAN, CreateUser(r, a, yes) PROVE CopyOK'
  <2> DEFINE row == NewRow(a, "active")
             q   == IF yes THEN [op |-> "role", at |-> "role", user |-> row, fresh |-> TRUE, arg |-> TRUE] ELSE Free
  <2>1. row \in AccountRows
    BY NewRowIs
  <2>2. Shape(q)
    BY <2>1, FreeShape DEF Shape, RequestRows, Answering
  <2>3. account = None /\ account' = row /\ Continue(r, q)
    BY <1>2 DEF CreateUser
  <2>4. \A x \in Requests : ~(BeforeSave(request[x]) /\ request[x].fresh)
    BY <2>3 DEF CopyOK, Held
  <2>5. Held(q, row)
    BY <2>1, FreeShape DEF Held, AccountsAssumption
  <2> HIDE DEF row, q
  <2> QED BY <2>1, <2>2, <2>3, <2>4, <2>5 DEF CopyOK, Continue, Held, Shape
<1>3. ASSUME NEW op \in Ops, NEW at \in Steps, NEW arg \in Args, Load(r, op, at, arg), account' = account,
             Answering([op |-> op, at |-> at, user |-> account, fresh |-> TRUE, arg |-> arg]) \/ at = "bump" => arg \in Nat,
             at \in {"role", "resync", "sync", "rollback", "restore"} => arg \in BOOLEAN,
             at = "address" => arg \in Addresses /\ op = "address",
             at = "status" => arg \in Statuses /\ op # "link"
      PROVE  CopyOK'
  <2>1. account \in AccountRows
    BY <1>3 DEF Load, CopyOK
  <2>2. Shape([op |-> op, at |-> at, user |-> account, fresh |-> TRUE, arg |-> arg])
    BY <1>3, <2>1 DEF Shape, RequestRows
  <2> QED BY <1>3, <2>2, LoadKeeps
<1>4. ASSUME NEW a \in Addresses, ChangeAddress(r, a) PROVE CopyOK'
  BY <1>3, <1>4 DEF ChangeAddress, Answering
<1>5. ASSUME NEW l, ConfirmEmail(r, l) PROVE CopyOK'
  BY <1>3, <1>5 DEF ConfirmEmail, Answering
<1>6. ASSUME NEW t \in tokens, RenewSession(r, t) PROVE CopyOK'
  BY <1>3, <1>6 DEF RenewSession, Answering
<1>7. ASSUME NEW t, NEW yes \in BOOLEAN, ChangePassword(r, t, yes) PROVE CopyOK'
  BY <1>3, <1>7 DEF ChangePassword, Answering
<1>8. CASE ResendConfirmation(r)
  BY <1>3, <1>8 DEF ResendConfirmation, Answering
<1>9. CASE ResetPassword(r)
  BY <1>3, <1>9 DEF ResetPassword, Answering
<1>10. CASE Login(r)
  <2>1. account.pw \in Nat
    BY <1>10 DEF Login, CopyOK, AccountRows
  <2> QED BY <1>3, <1>10, <2>1 DEF Login, Answering
<1>11. ASSUME NEW op \in {"status", "enable"}, NEW status \in Statuses, SetStatus(r, op, status) PROVE CopyOK'
  BY <1>3, <1>11 DEF SetStatus, Answering
<1>12. ASSUME NEW want \in BOOLEAN, SetRole(r, want) PROVE CopyOK'
  BY <1>3, <1>12 DEF SetRole, Answering
<1> QED BY <1>1, <1>2, <1>4, <1>5, <1>6, <1>7, <1>8, <1>9, <1>10, <1>11, <1>12 DEF Handler

LEMMA AwaitCopies ==
    ASSUME CopyOK, AccountsAssumption, NEW r \in Requests, Await(r) PROVE CopyOK'
<1> USE AccountsAssumption
<1> DEFINE q == request[r]
<1>1. Shape(q) /\ Held(q, account) /\ q \in RequestRows /\ account \in AccountRows \cup {None}
  BY DEF CopyOK
<1>2. ASSUME NEW row \in AccountRows, NEW p, Save(r, row, p), Shape(p), Held(p, row) PROVE CopyOK'
  BY <1>2, SaveKeeps
<1>3. ASSUME NEW p, Shape(p), Held(p, account), Continue(r, p), account' = account PROVE CopyOK'
  BY <1>3, ContinueKeeps
<1>4. CASE Finish(r) /\ account' = account
  BY <1>4, FinishKeeps
<1>5. q.fresh /\ BeforeSave(q) => account \in AccountRows /\ q.user = account
  BY <1>1 DEF Held
<1>6. CASE MailSent(r)
  BY <1>4, <1>6 DEF MailSent
<1>7. CASE MailFails(r)
  <2>1. CASE request[r].op = "register" /\ request[r].fresh
    <3>1. account' = None /\ request' = [x \in Requests |-> IF x = r \/ At(x, "mail") THEN Free ELSE Outdated(request[x])]
      BY <1>7, <2>1 DEF MailFails
    <3>2. \A x \in Requests : Shape(request'[x]) /\ Held(request'[x], account')
      BY <3>1, OutdatedIs, FreeShape DEF CopyOK, Held
    <3>3. request' \in [Requests -> RequestRows]
      BY <3>1, <3>2 DEF Shape
    <3> QED BY <3>1, <3>2, <3>3 DEF CopyOK
  <2> QED BY <1>4, <1>7, <2>1 DEF MailFails
<1>8. CASE Answer(r)
  BY <1>4, <1>8 DEF Answer
<1>9. CASE SaveConfirmed(r)
  <2> DEFINE row == [q.user EXCEPT !.confirmed = TRUE]
             p   == IF row.status = "registered" THEN [q EXCEPT !.at = "advance", !.user = row] ELSE Free
  <2>1. CASE Save(r, row, p)
    <3>1. q.fresh /\ q.at = "confirm"
      BY <1>9, <2>1 DEF SaveConfirmed, Save, At
    <3>2. row \in AccountRows
      BY <1>5, <3>1 DEF BeforeSave, AccountRows
    <3>3. CASE p = Free
      <4>1. Shape(p) /\ Held(p, row)
        BY <3>3, FreeShape DEF Held
      <4> HIDE DEF row, p
      <4> QED BY <1>2, <2>1, <3>2, <4>1
    <3>4. CASE p = [q EXCEPT !.at = "advance", !.user = row]
      <4>1. p \in RequestRows /\ p.at = "advance" /\ p.user = row
        <5> HIDE DEF row
        <5> QED BY <1>1, <3>2, <3>4 DEF RequestRows, Steps
      <4>2. row # None
        BY <3>2 DEF AccountRows, AccountsAssumption
      <4> HIDE DEF row, p
      <4>3. Shape(p) /\ Held(p, row)
        BY <4>1, <4>2 DEF Shape, Answering, Held
      <4> QED BY <1>2, <2>1, <3>2, <4>3
    <3> QED BY <3>3, <3>4
  <2> QED BY <1>4, <1>9, <2>1 DEF SaveConfirmed
<1>10. CASE SavePassword(r)
  <2> DEFINE new == q.user.seal + 1
             row == [q.user EXCEPT !.pw = new, !.seal = new]
             p   == [q EXCEPT !.at = "bump", !.user = row, !.arg = new]
  <2>1. CASE Save(r, row, p)
    <3>1. q.fresh /\ q.at = "password"
      BY <1>10, <2>1 DEF SavePassword, Save, At
    <3>2. row \in AccountRows /\ new \in Nat
      <4>1. q.user \in AccountRows
        BY <1>5, <3>1 DEF BeforeSave
      <4>2. new \in Nat
        BY <4>1 DEF AccountRows
      <4> HIDE DEF new
      <4> QED BY <4>1, <4>2 DEF AccountRows
    <3> HIDE DEF row, new
    <3>3. Shape(p) /\ Held(p, row)
      BY <1>1, <3>1, <3>2 DEF Shape, RequestRows, Ops, Steps, Args, Answering, Held, AccountsAssumption
    <3> HIDE DEF row, p
    <3> QED BY <1>2, <2>1, <3>2, <3>3
  <2> QED BY <1>4, <1>10, <2>1 DEF SavePassword
<1>11. CASE RevokeTokens(r)
  <2> DEFINE row == [q.user EXCEPT !.gen = @ + 1]
             p   == [q EXCEPT !.at = "push", !.user = row]
             pl  == [q EXCEPT !.at = "answer", !.user = row]
  <2>1. q.at = "bump" /\ row \in AccountRows
    BY <1>1, <1>11 DEF RevokeTokens, At, Shape, AccountRows
  <2>2. Shape(p) /\ Held(p, row) /\ Shape(pl) /\ Held(pl, account)
    BY <1>1, <2>1 DEF Shape, RequestRows, Ops, Steps, Args, Answering, Held, AccountsAssumption, BeforeSave
  <2>3. \/ Save(r, row, p)
        \/ Continue(r, pl) /\ account' = account
        \/ Finish(r) /\ account' = account
    BY <1>11 DEF RevokeTokens, Finish
  <2> HIDE DEF row, p, pl
  <2> QED BY <1>2, <1>3, <1>4, <2>1, <2>2, <2>3
<1>12. CASE SaveAddress(r)
  <2> DEFINE row == [q.user EXCEPT !.address = q.arg, !.confirmed = FALSE, !.seal = q.user.seal + 1,
                                   !.gen = q.user.gen + 1,
                                   !.status = IF q.user.status = "email_verified" THEN "registered"
                                                                                  ELSE q.user.status]
             p   == [q EXCEPT !.at = "push", !.user = row]
  <2>1. CASE Save(r, row, p)
    <3>1. q.fresh /\ q.at = "address" /\ q.arg \in Addresses /\ q.op = "address"
      BY <1>1, <1>12, <2>1 DEF SaveAddress, Save, At, Shape
    <3>2. row \in AccountRows
      <4>1. q.user \in AccountRows
        BY <1>5, <3>1 DEF BeforeSave
      <4>2. q.user.seal + 1 \in Nat /\ q.user.gen + 1 \in Nat
            /\ (IF q.user.status = "email_verified" THEN "registered" ELSE q.user.status) \in Statuses
        BY <4>1 DEF AccountRows, Statuses
      <4> QED BY <3>1, <4>1, <4>2 DEF AccountRows
    <3>3. Shape(p) /\ Held(p, row)
      BY <1>1, <3>1, <3>2 DEF Shape, RequestRows, Ops, Steps, Args, Answering, Held, AccountsAssumption, BeforeSave
    <3> HIDE DEF row, p
    <3> QED BY <1>2, <2>1, <3>2, <3>3
  <2> QED BY <1>4, <1>12, <2>1 DEF SaveAddress
<1>13. CASE SaveStatus(r)
  <2> DEFINE row == [q.user EXCEPT !.status = q.arg]
             p   == [q EXCEPT !.at = "push", !.user = row]
  <2>1. q.at = "status" /\ row \in AccountRows
    BY <1>1, <1>13 DEF SaveStatus, At, Shape, AccountRows
  <2>2. Shape(p) /\ Held(p, row) /\ Held(p, account)
    BY <1>1, <2>1 DEF Shape, RequestRows, Ops, Steps, Args, Answering, Held, AccountsAssumption, BeforeSave
  <2>3. Save(r, row, p) \/ (Continue(r, p) /\ account' = account)
    BY <1>13 DEF SaveStatus
  <2> HIDE DEF row, p
  <2> QED BY <1>2, <1>3, <2>1, <2>2, <2>3
<1>14. CASE SaveRole(r)
  <2> DEFINE p == [q EXCEPT !.at = "sync"]
  <2>1. CASE Save(r, account, p)
    <3>1. q.fresh /\ q.at = "role"
      BY <1>14, <2>1 DEF SaveRole, Save, At
    <3>2. account \in AccountRows /\ q.user = account
      BY <1>5, <3>1 DEF BeforeSave
    <3>3. Shape(p) /\ Held(p, account)
      BY <1>1, <3>1, <3>2 DEF Shape, RequestRows, Ops, Steps, Args, Answering, Held, AccountsAssumption
    <3> HIDE DEF p
    <3> QED BY <1>2, <2>1, <3>2, <3>3
  <2> QED BY <1>4, <1>14, <2>1 DEF SaveRole
<1>15. CASE RollBackRole(r)
  <2> DEFINE p == [q EXCEPT !.at = "restore"]
  <2>1. CASE Save(r, account, p)
    <3>1. q.fresh /\ q.at = "rollback"
      BY <1>15, <2>1 DEF RollBackRole, Save, At
    <3>2. account \in AccountRows
      BY <1>5, <3>1 DEF BeforeSave
    <3>3. Shape(p) /\ Held(p, account)
      BY <1>1, <3>1, <3>2 DEF Shape, RequestRows, Ops, Steps, Args, Answering, Held, AccountsAssumption, BeforeSave
    <3> HIDE DEF p
    <3> QED BY <1>2, <2>1, <3>2, <3>3
  <2> QED BY <1>4, <1>15, <2>1 DEF RollBackRole
<1>16. ASSUME NEW yes \in BOOLEAN, Advance(r, yes) PROVE CopyOK'
  <2> DEFINE row == [q.user EXCEPT !.status = IF yes THEN "email_verified" ELSE "active"]
  <2>1. CASE Save(r, row, Free)
    <3>1. q.fresh /\ q.at = "advance"
      BY <1>16, <2>1 DEF Advance, Save, At
    <3>2. row \in AccountRows
      BY <1>5, <3>1 DEF BeforeSave, AccountRows, Statuses
    <3>3. Held(Free, row)
      BY FreeShape DEF Held
    <3> HIDE DEF row
    <3> QED BY <1>2, <2>1, <3>2, <3>3, FreeShape
  <2> QED BY <1>4, <1>16, <2>1 DEF Advance
<1>17. ASSUME NEW fails \in BOOLEAN, PushAccess(r, fails) PROVE CopyOK'
  <2>1. q.at = "push" /\ Continue(r, AfterPush(q)) /\ account' = account
    BY <1>17 DEF PushAccess, At
  <2>2. Shape(AfterPush(q)) /\ Held(AfterPush(q), account)
    <3>1. CASE q.op = "address"
      BY <1>1, <2>1, <3>1 DEF AfterPush, Shape, RequestRows, Ops, Steps, Args, Answering, Held, BeforeSave
    <3>2. CASE q.op = "link"
      BY <1>1, <2>1, <3>2 DEF AfterPush, Shape, RequestRows, Ops, Steps, Args, Answering, Held, BeforeSave
    <3>3. CASE q.op \notin {"address", "link"}
      BY <3>3, FreeShape DEF AfterPush, Held
    <3> QED BY <3>1, <3>2, <3>3
  <2> QED BY <1>3, <2>1, <2>2
<1>18. ASSUME NEW done \in BOOLEAN, SyncAdminFlag(r, done) PROVE CopyOK'
  <2> DEFINE p == [q EXCEPT !.at = "answer"]
  <2>1. q.at = "flag" /\ Continue(r, p) /\ account' = account
    BY <1>18 DEF SyncAdminFlag, At
  <2>2. Shape(p) /\ Held(p, account)
    BY <1>1, <2>1 DEF Shape, RequestRows, Ops, Steps, Args, Answering, Held, BeforeSave
  <2> HIDE DEF p
  <2> QED BY <1>3, <2>1, <2>2
<1>19. ASSUME NEW done \in BOOLEAN, NEW answered \in BOOLEAN, SyncRole(r, done, answered) PROVE CopyOK'
  <2> DEFINE p == [q EXCEPT !.at = "rollback"]
  <2>1. q.at \in {"sync", "resync"} /\ account' = account /\ (Finish(r) \/ (Continue(r, p) /\ q.at = "sync"))
    BY <1>19 DEF SyncRole, Finish, At
  <2>2. CASE q.at = "sync"
    <3>1. Shape(p) /\ Held(p, account)
      BY <1>1, <2>2 DEF Shape, RequestRows, Ops, Steps, Args, Answering, Held, BeforeSave
    <3> HIDE DEF p
    <3> QED BY <1>3, <1>4, <2>1, <3>1
  <2> QED BY <1>4, <2>1, <2>2
<1>20. ASSUME NEW done \in BOOLEAN, NEW answered \in BOOLEAN, RestoreFlag(r, done, answered) PROVE CopyOK'
  BY <1>4, <1>20 DEF RestoreFlag
<1> QED BY <1>6, <1>7, <1>8, <1>9, <1>10, <1>11, <1>12, <1>13, <1>14, <1>15, <1>16, <1>17, <1>18, <1>19, <1>20 DEF Await

----------------------------------------------------------------------------
(* Generations and passwords *)

Gen == IF account = None THEN 0 ELSE account.gen

\* A registration that its failed mail takes back.
Retractable(q) == q.op = "register" /\ q.at = "mail" /\ q.fresh
Unborn == account = None \/ \E r \in Requests : Retractable(request[r])

GenerationOK ==
    /\ \A r \in Requests :
         /\ request[r].user # None /\ request[r].at # "answer" => request[r].user.gen <= Gen
         /\ Retractable(request[r]) => request[r].user.gen = 0 /\ request[r].user.status = "registered"
    /\ Unborn => /\ tokens = {} /\ chat = None
                 /\ \A r \in Requests : request[r].at \notin {"answer", "flag"} /\ request[r].op # "link"
    /\ FloorNeverAhead

Changing == \E r \in Requests : request[r].at = "bump"

PasswordOK ==
    /\ \A r \in Requests : request[r].at = "bump" => request[r].arg = request[r].user.pw
    /\ "unsaved" \notin mishaps =>
         /\ \A t \in tokens : t.gen <= Gen
         /\ \A r \in Requests : request[r].at = "answer" => request[r].user.gen <= Gen
         /\ ~Changing =>
              /\ \A t \in tokens : t.gen >= Gen => t.pw = account.pw
              /\ \A r \in Requests : Answering(request[r]) /\ request[r].user.gen >= Gen
                                        => request[r].arg = account.pw

LEMMA GenIsNat == ASSUME CopyOK PROVE Gen \in Nat
BY DEF Gen, CopyOK, AccountRows

LEMMA CopyHasGen ==
    ASSUME CopyOK, NEW r \in Requests PROVE request[r].user # None => request[r].user.gen \in Nat /\ request[r].user.pw \in Nat
BY DEF CopyOK, RequestRows, AccountRows

\* A save by a request that was not taken back and does not lower the generation.
LEMMA SaveGenerations ==
    ASSUME TypeInv, CopyOK', GenerationOK, AccountsAssumption, NEW r \in Requests, NEW row \in AccountRows, NEW p,
           Save(r, row, p), row.gen >= Gen, account # None,
           p.user \in {row, request[r].user, None}, p.at \notin {"answer", "flag", "mail"},
           request[r].at # "answer", UNCHANGED <<tokens, chat>>
    PROVE  GenerationOK'
<1> USE DEF TypeInv
<1>1. account' = row /\ row # None /\ Gen' = row.gen /\ row.gen \in Nat
  BY DEF Save, AccountsAssumption, Gen, AccountRows
<1>2. request' = [x \in Requests |-> IF x = r THEN p ELSE Outdated(request[x])]
  BY DEF Save
<1>3. \A x \in Requests : ~Retractable(request'[x])
  <2>1. \A x \in Requests : x # r => ~(BeforeSave(request'[x]) /\ request'[x].fresh)
    BY <1>2, OutdatedIs DEF CopyOK
  <2> QED BY <1>2, <2>1 DEF Retractable, BeforeSave
<1>4. ASSUME NEW x \in Requests, request'[x].user # None, request'[x].at # "answer" PROVE request'[x].user.gen <= Gen'
  <2>1. CASE x = r
    BY <1>1, <1>2, <1>4, <2>1, CopyHasGen, GenIsNat DEF GenerationOK
  <2>2. CASE x # r
    <3>1. request'[x].user = request[x].user /\ request'[x].at = request[x].at
      BY <1>2, <1>4, <2>2, OutdatedIs DEF CopyOK
    <3> QED BY <1>1, <1>4, <3>1, CopyHasGen, GenIsNat DEF GenerationOK
  <2> QED BY <2>1, <2>2
<1>5. FloorNeverAhead'
  <2>1. CASE chat = None
    BY <2>1 DEF FloorNeverAhead
  <2>2. CASE chat # None
    <3>1. chat.floor <= Gen
      BY <2>2 DEF GenerationOK, FloorNeverAhead, Gen
    <3>2. chat.floor \in Nat /\ Gen \in Nat
      BY <2>2, GenIsNat DEF TypeInv, ChatRows
    <3> QED BY <1>1, <2>2, <3>1, <3>2 DEF FloorNeverAhead
  <2> QED BY <2>1, <2>2
<1> QED BY <1>1, <1>3, <1>4, <1>5 DEF GenerationOK, Unborn

\* A step that leaves the row alone.
LEMMA ContinueGenerations ==
    ASSUME TypeInv, TypeInv', GenerationOK, NEW r \in Requests, NEW p, Continue(r, p), account' = account,
           p.user = None \/ p.at = "answer" \/ p.user.gen <= Gen,
           Retractable(p) => FALSE,
           Unborn => tokens' = {} /\ chat' = None /\ p.at \notin {"answer", "flag"} /\ p.op # "link",
           chat' # None => account # None /\ chat'.floor <= Gen
    PROVE  GenerationOK'
<1>1. Gen' = Gen
  BY DEF Gen
<1>2. request' = [request EXCEPT ![r] = p] /\ request \in [Requests -> RequestRows]
  BY DEF Continue, TypeInv, CopyOK
<1>3. Unborn' => Unborn
  BY <1>2 DEF Unborn
<1>4. FloorNeverAhead'
  BY <1>1 DEF FloorNeverAhead, Gen
<1>5. \A x \in Requests :
         /\ request'[x].user # None /\ request'[x].at # "answer" => request'[x].user.gen <= Gen'
         /\ Retractable(request'[x]) => request'[x].user.gen = 0 /\ request'[x].user.status = "registered"
  BY <1>1, <1>2 DEF GenerationOK
<1>6. Unborn' => tokens' = {} /\ chat' = None /\ \A x \in Requests : request'[x].at \notin {"answer", "flag"} /\ request'[x].op # "link"
  BY <1>2, <1>3 DEF GenerationOK
<1> QED BY <1>4, <1>5, <1>6 DEF GenerationOK

LEMMA SavePasswords ==
    ASSUME TypeInv, CopyOK', GenerationOK, PasswordOK, AccountsAssumption, NEW r \in Requests, NEW row \in AccountRows,
           NEW p, Save(r, row, p), row.gen >= Gen, UNCHANGED <<tokens, mishaps>>, p.at \notin {"answer", "flag"},
           \/ p.at = "bump" /\ p.arg = p.user.pw
           \/ p.at # "bump" /\ row.gen > Gen /\ (Answering(p) => p.arg = row.pw)
           \/ p.at # "bump" /\ request[r].at # "bump" /\ row.pw = account.pw /\ ~Answering(p)
    PROVE  PasswordOK'
<1> USE DEF TypeInv
<1>1. account' = row /\ row # None /\ Gen' = row.gen /\ row.gen \in Nat /\ Gen \in Nat
  BY GenIsNat DEF Save, AccountsAssumption, Gen, AccountRows
<1>2. request' = [x \in Requests |-> IF x = r THEN p ELSE Outdated(request[x])]
  BY DEF Save
<1>3. \A x \in Requests \ {r} :
        /\ request'[x].at = request[x].at /\ request'[x].op = request[x].op /\ request'[x].arg = request[x].arg
        /\ (Answering(request[x]) \/ request[x].at = "bump") => request'[x].user = request[x].user
  BY <1>2, OutdatedIs DEF CopyOK, Answering, BeforeSave
<1>4. \A x \in Requests : request'[x].at = "bump" => request'[x].arg = request'[x].user.pw
  BY <1>2, <1>3 DEF PasswordOK
<1>5. ASSUME "unsaved" \notin mishaps'
      PROVE  /\ \A t \in tokens : t.gen \in Nat /\ t.gen <= Gen
             /\ \A x \in Requests \ {r} : Answering(request[x])
                    => request[x].user.gen \in Nat /\ request[x].user.gen <= Gen
  <2>1. \A t \in tokens : t.gen \in Nat /\ t.gen <= Gen
    BY <1>5 DEF PasswordOK
  <2>2. ASSUME NEW x \in Requests, Answering(request[x]) PROVE request[x].user.gen \in Nat /\ request[x].user.gen <= Gen
    <3>1. request[x].user # None
      BY <2>2 DEF CopyOK, Shape, Answering, AccountsAssumption
    <3> QED BY <1>5, <2>2, <3>1, CopyHasGen DEF PasswordOK, GenerationOK, Answering
  <2> QED BY <2>1, <2>2
<1>6. ASSUME "unsaved" \notin mishaps'
      PROVE  /\ \A t \in tokens : t.gen <= Gen'
             /\ \A x \in Requests : request'[x].at = "answer" => request'[x].user.gen <= Gen'
  <2>1. \A t \in tokens : t.gen <= Gen'
    BY <1>1, <1>5, <1>6
  <2>2. ASSUME NEW x \in Requests, request'[x].at = "answer" PROVE request'[x].user.gen <= Gen'
    <3>1. x # r /\ Answering(request[x]) /\ request'[x].user = request[x].user
      BY <1>2, <1>3, <2>2 DEF Answering
    <3> QED BY <1>1, <1>5, <1>6, <3>1
  <2> QED BY <2>1, <2>2
<1>7. ASSUME "unsaved" \notin mishaps', ~Changing'
      PROVE  /\ \A t \in tokens : t.gen >= Gen' => t.pw = account'.pw
             /\ \A x \in Requests : Answering(request'[x]) /\ request'[x].user.gen >= Gen' => request'[x].arg = account'.pw
  <2>1. p.at # "bump"
    BY <1>2, <1>7 DEF Changing
  <2>2. ASSUME NEW x \in Requests, x # r, Answering(request'[x]) PROVE Answering(request[x]) /\ request'[x].user = request[x].user
    BY <1>3, <2>2 DEF Answering
  <2>3. CASE row.gen > Gen /\ (Answering(p) => p.arg = row.pw)
    <3>1. \A t \in tokens : ~(t.gen >= Gen')
      BY <1>1, <1>5, <1>7, <2>3
    <3>2. ASSUME NEW x \in Requests, x # r, Answering(request'[x]) PROVE ~(request'[x].user.gen >= Gen')
      BY <1>1, <1>5, <1>7, <2>2, <2>3, <3>2
    <3> QED BY <1>1, <1>2, <2>3, <3>1, <3>2
  <2>4. CASE request[r].at # "bump" /\ row.pw = account.pw /\ ~Answering(p)
    <3>1. ~Changing
      BY <1>3, <1>7, <2>4 DEF Changing
    <3>2. \A t \in tokens : t.gen >= Gen' => t.pw = account'.pw
      BY <1>1, <1>5, <1>7, <2>4, <3>1 DEF PasswordOK
    <3>3. ASSUME NEW x \in Requests, Answering(request'[x]), request'[x].user.gen >= Gen' PROVE request'[x].arg = account'.pw
      <4>1. x # r
        BY <1>2, <2>4, <3>3
      <4>2. Answering(request[x]) /\ request'[x].user = request[x].user /\ request'[x].arg = request[x].arg
        BY <1>3, <2>2, <3>3, <4>1
      <4>3. request[x].user.gen \in Nat /\ request[x].user.gen >= Gen
        BY <1>1, <1>5, <1>7, <3>3, <4>1, <4>2
      <4> QED BY <1>1, <1>7, <2>4, <3>1, <4>2, <4>3 DEF PasswordOK
    <3> QED BY <3>2, <3>3
  <2> QED BY <2>1, <2>3, <2>4
<1> QED BY <1>4, <1>6, <1>7 DEF PasswordOK

LEMMA ContinuePasswords ==
    ASSUME TypeInv, GenerationOK, PasswordOK, NEW r \in Requests, NEW p, Continue(r, p), account' = account,
           mishaps \subseteq mishaps', p.at # "bump",
           request[r].at = "bump" => "unsaved" \in mishaps',
           \A t \in tokens' : \/ t \in tokens
                              \/ request[r].at = "answer" /\ t = [gen |-> request[r].user.gen, pw |-> request[r].arg],
           "unsaved" \notin mishaps' /\ p.at = "answer" => p.user.gen <= Gen,
           "unsaved" \notin mishaps' /\ ~Changing /\ Answering(p) /\ p.user.gen >= Gen => p.arg = account.pw
    PROVE  PasswordOK'
<1>1. Gen' = Gen
  BY DEF Gen
<1>2. request' = [request EXCEPT ![r] = p] /\ request \in [Requests -> RequestRows]
  BY DEF Continue, TypeInv, CopyOK
<1>3. \A x \in Requests : request'[x].at = "bump" => request'[x].arg = request'[x].user.pw
  BY <1>2 DEF PasswordOK
<1>4. ASSUME "unsaved" \notin mishaps'
      PROVE  /\ \A t \in tokens' : t.gen <= Gen'
             /\ \A x \in Requests : request'[x].at = "answer" => request'[x].user.gen <= Gen'
  BY <1>1, <1>2, <1>4 DEF PasswordOK
<1>5. ASSUME "unsaved" \notin mishaps', ~Changing'
      PROVE  /\ \A t \in tokens' : t.gen >= Gen' => t.pw = account'.pw
             /\ \A x \in Requests : Answering(request'[x]) /\ request'[x].user.gen >= Gen' => request'[x].arg = account'.pw
  <2>1. ~Changing
    BY <1>2, <1>5 DEF Changing
  <2>2. \A t \in tokens' : t.gen >= Gen' => t.pw = account'.pw
    BY <1>1, <1>5, <2>1 DEF PasswordOK, Answering
  <2>3. \A x \in Requests : Answering(request'[x]) /\ request'[x].user.gen >= Gen' => request'[x].arg = account'.pw
    BY <1>1, <1>2, <1>5, <2>1 DEF PasswordOK
  <2> QED BY <2>2, <2>3
<1> QED BY <1>3, <1>4, <1>5 DEF PasswordOK

----------------------------------------------------------------------------
(* The rest of the types *)

LEMMA StepTypes == ASSUME TypeInv, AccountsAssumption, Next PROVE TypeInv'
<1> USE AccountsAssumption
<1>1. CopyOK'
  <2>1. ASSUME NEW r \in Requests, Handler(r) PROVE CopyOK'
    BY <2>1, HandlerCopies DEF TypeInv
  <2>2. ASSUME NEW r \in Requests, Await(r) PROVE CopyOK'
    BY <2>2, AwaitCopies DEF TypeInv
  <2>3. CASE LoginFails
    <3>1. request' = [r \in Requests |-> Outdated(request[r])] /\ account' = account
      BY <2>3 DEF LoginFails
    <3>2. \A x \in Requests : Shape(request'[x]) /\ Held(request'[x], account')
      BY <3>1, OutdatedIs DEF TypeInv, CopyOK, Held
    <3> QED BY <3>1, <3>2 DEF TypeInv, CopyOK, Shape
  <2>4. CASE RegisterUser
    BY <2>4 DEF RegisterUser, TypeInv, CopyOK
  <2>5. CASE CoreApiStops
    <3>1. request' = [r \in Requests |-> Free] /\ account' = account
      BY <2>5 DEF CoreApiStops
    <3> QED BY <3>1, FreeShape DEF TypeInv, CopyOK, Held, Shape
  <2> QED BY <2>1, <2>2, <2>3, <2>4, <2>5 DEF Next
<1>2. tokens' \subseteq [gen : Nat, pw : Nat]
  <2>1. ASSUME NEW r \in Requests, Answer(r) PROVE tokens' \subseteq [gen : Nat, pw : Nat]
    <3>1. request[r].user \in AccountRows /\ request[r].arg \in Nat
      BY <2>1 DEF Answer, At, TypeInv, CopyOK, Shape, Answering
    <3> QED BY <2>1, <3>1 DEF Answer, TypeInv, AccountRows
  <2>2. ASSUME NEW r \in Requests, Await(r), ~Answer(r) PROVE tokens' = tokens
    BY <2>2 DEF Await, MailSent, MailFails, SaveConfirmed, SavePassword, RevokeTokens, SaveAddress, SaveStatus,
                SaveRole, RollBackRole, Advance, PushAccess, SyncAdminFlag, SyncRole, RestoreFlag
  <2>3. ASSUME NEW r \in Requests, Handler(r) PROVE tokens' = tokens
    BY <2>3 DEF Handler, Register, CreateUser, ChangeAddress, ConfirmEmail, RenewSession, ChangePassword,
                ResendConfirmation, ResetPassword, Login, SetStatus, SetRole
  <2> QED BY <2>1, <2>2, <2>3 DEF Next, LoginFails, RegisterUser, CoreApiStops, TypeInv
<1>3. role' \in BOOLEAN
  <2>1. ASSUME NEW r \in Requests, SaveRole(r) \/ RollBackRole(r) PROVE role' \in BOOLEAN
    BY <2>1 DEF SaveRole, RollBackRole, At, TypeInv, CopyOK, Shape
  <2>2. ASSUME NEW r \in Requests, Await(r), ~(SaveRole(r) \/ RollBackRole(r)) PROVE role' = role
    BY <2>2 DEF Await, MailSent, MailFails, Answer, SaveConfirmed, SavePassword, RevokeTokens, SaveAddress, SaveStatus,
                Advance, PushAccess, SyncAdminFlag, SyncRole, RestoreFlag
  <2>3. ASSUME NEW r \in Requests, Handler(r) PROVE role' = role
    BY <2>3 DEF Handler, Register, CreateUser, ChangeAddress, ConfirmEmail, RenewSession, ChangePassword,
                ResendConfirmation, ResetPassword, Login, SetStatus, SetRole
  <2> QED BY <2>1, <2>2, <2>3 DEF Next, LoginFails, RegisterUser, CoreApiStops, TypeInv
<1>4. grant' \in BOOLEAN /\ chat' \in ChatRows \cup {None}
  <2>1. ASSUME NEW isAdmin \in BOOLEAN, NEW done, NEW also, PushRole(isAdmin, done, also)
        PROVE  grant' \in BOOLEAN /\ chat' \in ChatRows \cup {None}
    BY <2>1 DEF PushRole, SetUserAdmin, TypeInv, ChatRows
  <2>2. ASSUME NEW r \in Requests, NEW done, SyncAdminFlag(r, done) PROVE grant' \in BOOLEAN /\ chat' \in ChatRows \cup {None}
    BY <2>1, <2>2 DEF SyncAdminFlag
  <2>3. ASSUME NEW r \in Requests, NEW done, NEW answered, SyncRole(r, done, answered)
        PROVE  grant' \in BOOLEAN /\ chat' \in ChatRows \cup {None}
    <3>1. request[r].arg \in BOOLEAN
      BY <2>3 DEF SyncRole, TypeInv, CopyOK, Shape
    <3> QED BY <2>1, <2>3, <3>1 DEF SyncRole
  <2>4. ASSUME NEW r \in Requests, NEW done, NEW answered, RestoreFlag(r, done, answered)
        PROVE  grant' \in BOOLEAN /\ chat' \in ChatRows \cup {None}
    <3>1. (~request[r].arg) \in BOOLEAN
      BY <2>4 DEF RestoreFlag, At, TypeInv, CopyOK, Shape
    <3> QED BY <2>1, <2>4, <3>1 DEF RestoreFlag
  <2>5. ASSUME NEW r \in Requests, NEW fails, PushAccess(r, fails) PROVE grant' \in BOOLEAN /\ chat' \in ChatRows \cup {None}
    <3> DEFINE row == request[r].user
    <3>1. row \in AccountRows
      BY <2>5 DEF PushAccess, At, TypeInv, CopyOK, Shape
    <3>2. grant' = grant /\ (chat' = chat \/ SetAccountAccess(row))
      BY <2>5 DEF PushAccess
    <3>3. CASE chat # None /\ SetAccountAccess(row)
      <4>1. chat \in ChatRows /\ row.gen \in Nat /\ Suspended(row) \in BOOLEAN
        BY <3>1, <3>3 DEF TypeInv, AccountRows, Suspended
      <4>2. (IF chat.floor < row.gen THEN row.gen ELSE chat.floor) \in Nat
        BY <4>1 DEF ChatRows
      <4> HIDE DEF row
      <4> QED BY <3>2, <3>3, <4>1, <4>2 DEF SetAccountAccess, ChatRows, TypeInv
    <3> QED BY <3>2, <3>3 DEF SetAccountAccess, TypeInv
  <2>6. CASE RegisterUser
    BY <2>6 DEF RegisterUser, TypeInv, ChatRows
  <2>7. ASSUME NEW r \in Requests,
               \/ MailSent(r) \/ MailFails(r) \/ Answer(r) \/ SaveConfirmed(r) \/ SavePassword(r) \/ RevokeTokens(r)
               \/ SaveAddress(r) \/ SaveStatus(r) \/ SaveRole(r) \/ RollBackRole(r)
               \/ \E yes \in BOOLEAN : Advance(r, yes)
        PROVE  UNCHANGED <<chat, grant>>
    BY <2>7 DEF MailSent, MailFails, Answer, SaveConfirmed, SavePassword, RevokeTokens, SaveAddress, SaveStatus,
                SaveRole, RollBackRole, Advance
  <2>8. ASSUME NEW r \in Requests, Handler(r) PROVE UNCHANGED <<chat, grant>>
    BY <2>8 DEF Handler, Register, CreateUser, ChangeAddress, ConfirmEmail, RenewSession, ChangePassword,
                ResendConfirmation, ResetPassword, Login, SetStatus, SetRole
  <2> QED BY <2>2, <2>3, <2>4, <2>5, <2>6, <2>7, <2>8 DEF Next, Await, LoginFails, CoreApiStops, TypeInv
<1> QED BY <1>1, <1>2, <1>3, <1>4 DEF TypeInv

----------------------------------------------------------------------------
(* Every step keeps generations and passwords *)

Sound == GenerationOK /\ PasswordOK

LEMMA InitSound == Init => Sound
BY FreeShape DEF Init, Sound, GenerationOK, PasswordOK, FloorNeverAhead, Retractable, Answering, Free, Gen

LEMMA HandlerSound ==
    ASSUME TypeInv, TypeInv', AccountsAssumption, Sound, NEW r \in Requests, Handler(r) PROVE Sound'
<1> USE AccountsAssumption DEF Sound
<1>1. Gen \in Nat /\ (account # None => Gen = account.gen)
  BY GenIsNat DEF Gen, TypeInv
<1>2. account = None => \A x \in Requests : ~Answering(request[x]) /\ ~Retractable(request[x])
  <2>1. ASSUME account = None, NEW x \in Requests PROVE ~(BeforeSave(request[x]) /\ request[x].fresh)
    BY <2>1 DEF TypeInv, CopyOK, Held
  <2> QED BY <2>1 DEF GenerationOK, Unborn, Answering, Retractable, BeforeSave
<1>3. ASSUME NEW row \in AccountRows, NEW p, account = None, account' = row, Continue(r, p), UNCHANGED <<tokens, chat, mishaps>>,
             row.gen = 0, p.user \in {row, None}, p.op # "link", p.at \in {"free", "mail", "role", "answer"},
             Retractable(p) => p.user = row /\ row.status = "registered",
             p.at = "answer" => p.user = row /\ p.arg = row.pw
      PROVE  Sound'
  <2>1. Gen' = 0 /\ Gen = 0 /\ row # None
    BY <1>3 DEF Gen, AccountsAssumption
  <2>2. request' = [request EXCEPT ![r] = p] /\ request \in [Requests -> RequestRows]
    BY <1>3 DEF Continue, TypeInv, CopyOK
  <2>3. tokens = {} /\ chat = None /\ \A x \in Requests : request[x].at \notin {"answer", "flag"} /\ request[x].op # "link"
    BY <1>3 DEF GenerationOK, Unborn
  <2>4. \A x \in Requests :
          /\ request'[x].user # None /\ request'[x].at # "answer" => request'[x].user.gen <= Gen'
          /\ Retractable(request'[x]) => request'[x].user.gen = 0 /\ request'[x].user.status = "registered"
    BY <1>2, <1>3, <2>1, <2>2 DEF GenerationOK
  <2>5. Unborn' => Retractable(p)
    BY <1>2, <1>3, <2>1, <2>2 DEF Unborn
  <2>6. GenerationOK'
    BY <1>3, <2>2, <2>3, <2>4, <2>5 DEF GenerationOK, FloorNeverAhead, Retractable
  <2>7. \A x \in Requests : request'[x].at = "bump" => request'[x].arg = request'[x].user.pw
    BY <1>3, <2>2 DEF PasswordOK
  <2>8. \A x \in Requests : Answering(request'[x]) => x = r /\ p.at = "answer"
    BY <1>2, <1>3, <2>2 DEF Answering
  <2>9. PasswordOK'
    BY <1>3, <2>1, <2>2, <2>3, <2>7, <2>8 DEF PasswordOK, Answering
  <2> QED BY <2>6, <2>9
<1>4. ASSUME NEW a \in Addresses, NEW yes \in BOOLEAN, Register(r, a, yes) \/ CreateUser(r, a, yes) PROVE Sound'
  <2>1. CASE Register(r, a, yes)
    <3> DEFINE row == NewRow(a, IF yes THEN "registered" ELSE "active")
               p   == [op |-> "register", at |-> IF yes THEN "mail" ELSE "answer", user |-> row, fresh |-> TRUE, arg |-> row.pw]
    <3>1. row \in AccountRows /\ row.gen = 0 /\ (yes => row.status = "registered")
      BY NewRowIs DEF Statuses
    <3>2. account = None /\ account' = row /\ Continue(r, p) /\ UNCHANGED <<tokens, chat, mishaps>>
      BY <2>1 DEF Register
    <3>3. p.user = row /\ p.op = "register" /\ p.at = (IF yes THEN "mail" ELSE "answer") /\ p.arg = row.pw
      OBVIOUS
    <3> HIDE DEF row, p
    <3> QED BY <1>3, <3>1, <3>2, <3>3 DEF Retractable
  <2>2. CASE CreateUser(r, a, yes)
    <3> DEFINE row == NewRow(a, "active")
               p   == IF yes THEN [op |-> "role", at |-> "role", user |-> row, fresh |-> TRUE, arg |-> TRUE] ELSE Free
    <3>1. row \in AccountRows /\ row.gen = 0
      BY NewRowIs DEF Statuses
    <3>2. account = None /\ account' = row /\ Continue(r, p) /\ UNCHANGED <<tokens, chat, mishaps>>
      BY <2>2 DEF CreateUser
    <3>3. p.user \in {row, None} /\ p.op \in {"role", "free"} /\ p.at \in {"role", "free"}
      BY DEF Free
    <3> HIDE DEF row, p
    <3> QED BY <1>3, <3>1, <3>2, <3>3 DEF Retractable
  <2> QED BY <1>4, <2>1, <2>2
<1>5. ASSUME NEW op, NEW at, NEW arg, Load(r, op, at, arg), UNCHANGED <<account, tokens, chat, mishaps>>,
             at # "bump", op # "register",
             at \in {"answer", "flag"} \/ op = "link" => ~Unborn,
             at \in {"answer", "flag"} \/ (at = "push" /\ op = "link") =>
                ("unsaved" \notin mishaps /\ ~Changing => arg = account.pw)
      PROVE  Sound'
  <2> DEFINE p == [op |-> op, at |-> at, user |-> account, fresh |-> TRUE, arg |-> arg]
  <2>1. Continue(r, p) /\ account # None /\ request[r] = Free
    BY <1>5 DEF Load, Continue
  <2>2. p.user = account /\ p.at = at /\ p.op = op /\ p.arg = arg /\ Gen <= Gen
    BY <1>1
  <2> HIDE DEF p
  <2>3. chat # None => chat.floor <= Gen
    BY <1>1, <2>1 DEF GenerationOK, FloorNeverAhead
  <2>4. GenerationOK'
    <3>1. Unborn => tokens = {} /\ chat = None
      BY DEF GenerationOK
    <3> QED BY <1>1, <1>5, <2>1, <2>2, <2>3, <3>1, ContinueGenerations DEF Retractable
  <2>5. PasswordOK'
    BY <1>1, <1>5, <2>1, <2>2, FreeShape, ContinuePasswords DEF Answering
  <2> QED BY <2>4, <2>5
<1>6. Unborn => tokens = {} /\ (account # None => ~Allowed(account))
  BY <1>2 DEF GenerationOK, Unborn, Allowed, TypeInv, CopyOK, Held, Retractable, BeforeSave
<1>7. ASSUME NEW a \in Addresses, ChangeAddress(r, a) PROVE Sound'
  BY <1>5, <1>7 DEF ChangeAddress
<1>8. ASSUME NEW l, ConfirmEmail(r, l) PROVE Sound'
  BY <1>5, <1>8 DEF ConfirmEmail
<1>9. ASSUME NEW t \in tokens, RenewSession(r, t) PROVE Sound'
  BY <1>1, <1>5, <1>6, <1>9 DEF RenewSession, Resolves, PasswordOK
<1>10. ASSUME NEW t \in tokens, NEW yes \in BOOLEAN, ChangePassword(r, t, yes) PROVE Sound'
  BY <1>5, <1>6, <1>10 DEF ChangePassword, Resolves
<1>11. CASE ResendConfirmation(r)
  BY <1>5, <1>11 DEF ResendConfirmation
<1>12. CASE ResetPassword(r)
  BY <1>5, <1>12 DEF ResetPassword
<1>13. CASE Login(r)
  BY <1>5, <1>6, <1>13 DEF Login
<1>14. ASSUME NEW op \in {"status", "enable"}, NEW status \in Statuses, SetStatus(r, op, status) PROVE Sound'
  BY <1>5, <1>14 DEF SetStatus
<1>15. ASSUME NEW want \in BOOLEAN, SetRole(r, want) PROVE Sound'
  BY <1>5, <1>15 DEF SetRole
<1> QED BY <1>4, <1>7, <1>8, <1>9, <1>10, <1>11, <1>12, <1>13, <1>14, <1>15 DEF Handler

LEMMA AwaitSound ==
    ASSUME TypeInv, TypeInv', AccountsAssumption, Sound, NEW r \in Requests, Await(r) PROVE Sound'
<1> USE AccountsAssumption DEF Sound
<1> DEFINE q == request[r]
<1>1. Gen \in Nat /\ (account # None => Gen = account.gen) /\ q \in RequestRows /\ Shape(q) /\ Held(q, account)
      /\ (q.user # None => q.user \in AccountRows)
  BY GenIsNat DEF Gen, TypeInv, CopyOK, RequestRows
<1>2. CopyOK'
  BY DEF TypeInv
<1>3. q.fresh /\ BeforeSave(q) => account \in AccountRows /\ account # None /\ q.user = account /\ Gen = account.gen
  BY <1>1 DEF Held, TypeInv, CopyOK
<1>4. ASSUME NEW row \in AccountRows, NEW p, Save(r, row, p), account # None, row.gen >= Gen,
             p.user \in {row, q.user, None}, p.at \notin {"answer", "flag", "mail"}, q.at # "answer",
             UNCHANGED <<tokens, chat, mishaps>>,
             \/ p.at = "bump" /\ p.arg = p.user.pw
             \/ p.at # "bump" /\ row.gen > Gen /\ (Answering(p) => p.arg = row.pw)
             \/ p.at # "bump" /\ q.at # "bump" /\ row.pw = account.pw /\ ~Answering(p)
      PROVE  Sound'
  BY <1>2, <1>4, SaveGenerations, SavePasswords
<1>5. chat # None => account # None /\ chat.floor <= Gen
  BY <1>1 DEF GenerationOK, FloorNeverAhead
<1>6. ASSUME NEW p, Continue(r, p), account' = account, mishaps \subseteq mishaps', UNCHANGED <<tokens, chat>>,
             p.user \in {q.user, None}, q.at # "answer", p.at \notin {"bump", "answer", "flag"}, ~Retractable(p), ~Answering(p),
             p.op \in {q.op, "free"}, q.at = "bump" => "unsaved" \in mishaps'
      PROVE  Sound'
  <2>1. p.user = None \/ p.at = "answer" \/ p.user.gen <= Gen
    BY <1>6 DEF GenerationOK
  <2>2. Unborn => tokens' = {} /\ chat' = None /\ p.at \notin {"answer", "flag"} /\ p.op # "link"
    BY <1>6 DEF GenerationOK
  <2>3. GenerationOK'
    BY <1>5, <1>6, <2>1, <2>2, ContinueGenerations
  <2>4. PasswordOK'
    BY <1>6, ContinuePasswords
  <2> QED BY <2>3, <2>4
<1>7. ASSUME Finish(r), account' = account, mishaps \subseteq mishaps', UNCHANGED <<tokens, chat>>, q.at # "answer",
             q.at = "bump" => "unsaved" \in mishaps'
      PROVE  Sound'
  <2>1. Free.user = None /\ Free.at = "free" /\ Free.op = "free" /\ ~Retractable(Free) /\ ~Answering(Free)
    BY DEF Free, Retractable, Answering
  <2> QED BY <1>6, <1>7, <2>1 DEF Finish
<1>8. CASE MailSent(r)
  BY <1>7, <1>8 DEF MailSent, At
<1>9. CASE Answer(r)
  <2>1. q.at = "answer" /\ Continue(r, Free) /\ UNCHANGED <<account, chat, mishaps>>
        /\ tokens' = tokens \cup {[gen |-> q.user.gen, pw |-> q.arg]}
    BY <1>9 DEF Answer, At, Finish
  <2>2. ~Unborn
    BY <2>1 DEF GenerationOK
  <2>3. Free.user = None /\ Free.at = "free" /\ Free.op = "free" /\ ~Retractable(Free) /\ ~Answering(Free)
    BY DEF Free, Retractable, Answering
  <2>4. GenerationOK'
    BY <1>5, <2>1, <2>2, <2>3, ContinueGenerations
  <2>5. PasswordOK'
    BY <2>1, <2>3, ContinuePasswords
  <2> QED BY <2>4, <2>5
<1>10. CASE SaveConfirmed(r)
  <2> DEFINE row == [q.user EXCEPT !.confirmed = TRUE]
             p   == IF row.status = "registered" THEN [q EXCEPT !.at = "advance", !.user = row] ELSE Free
  <2>1. q.at = "confirm" /\ UNCHANGED <<tokens, chat, mishaps>> /\ (Save(r, row, p) \/ (Finish(r) /\ account' = account))
    BY <1>10 DEF SaveConfirmed, At
  <2>2. CASE Save(r, row, p)
    <3>1. q.fresh /\ BeforeSave(q)
      BY <2>1, <2>2 DEF Save, BeforeSave
    <3>2. row \in AccountRows /\ row.gen = Gen /\ row.pw = account.pw
      BY <1>3, <3>1 DEF AccountRows
    <3>3. p.user \in {row, None} /\ p.at \in {"advance", "free"} /\ ~Answering(p)
      BY <1>1 DEF RequestRows, Free, Answering
    <3> HIDE DEF row, p
    <3> QED BY <1>1, <1>3, <1>4, <2>1, <2>2, <3>1, <3>2, <3>3
  <2> QED BY <1>7, <2>1, <2>2
<1>11. CASE SavePassword(r)
  <2> DEFINE new == q.user.seal + 1
             row == [q.user EXCEPT !.pw = new, !.seal = new]
             p   == [q EXCEPT !.at = "bump", !.user = row, !.arg = new]
  <2>1. q.at = "password" /\ UNCHANGED <<tokens, chat, mishaps>> /\ (Save(r, row, p) \/ (Finish(r) /\ account' = account))
    BY <1>11 DEF SavePassword, At
  <2>2. CASE Save(r, row, p)
    <3>1. q.fresh /\ BeforeSave(q)
      BY <2>1, <2>2 DEF Save, BeforeSave
    <3>2. new \in Nat /\ q.user \in AccountRows
      BY <1>3, <3>1 DEF AccountRows
    <3> HIDE DEF new
    <3>3. row \in AccountRows /\ row.gen = Gen /\ row.pw = new
      BY <1>3, <3>1, <3>2 DEF AccountRows
    <3> HIDE DEF row
    <3>4. p.user = row /\ p.at = "bump" /\ p.arg = new
      BY <1>1 DEF RequestRows
    <3> HIDE DEF p
    <3> QED BY <1>1, <1>3, <1>4, <2>1, <2>2, <3>1, <3>3, <3>4
  <2> QED BY <1>7, <2>1, <2>2
<1>12. CASE RevokeTokens(r)
  <2> DEFINE row == [q.user EXCEPT !.gen = @ + 1]
             p   == [q EXCEPT !.at = "push", !.user = row]
             pl  == [q EXCEPT !.at = "answer", !.user = row]
  <2>1. q.at = "bump" /\ UNCHANGED <<tokens, chat>> /\ q.user \in AccountRows /\ q.arg = q.user.pw
    BY <1>1, <1>12 DEF RevokeTokens, At, Shape, PasswordOK
  <2>2. CASE Save(r, row, p) /\ UNCHANGED mishaps
    <3>1. q.fresh /\ BeforeSave(q)
      BY <2>1, <2>2 DEF Save, BeforeSave
    <3>2. row \in AccountRows /\ row.gen = Gen + 1 /\ row.pw = q.user.pw
      BY <1>3, <2>1, <3>1 DEF AccountRows
    <3> HIDE DEF row
    <3>3. p.user = row /\ p.at = "push" /\ p.arg = q.arg
      BY <1>1 DEF RequestRows
    <3> HIDE DEF p
    <3> QED BY <1>1, <1>3, <1>4, <2>1, <2>2, <3>1, <3>2, <3>3
  <2>3. CASE q.op = "link" /\ Continue(r, pl) /\ account' = account /\ mishaps' = mishaps \cup {"unsaved"}
    <3>1. pl.at = "answer" /\ pl.op = "link"
      BY <1>1, <2>3 DEF RequestRows
    <3>2. ~Unborn
      BY <2>3 DEF GenerationOK
    <3> HIDE DEF pl
    <3>3. GenerationOK'
      BY <1>5, <2>1, <2>3, <3>1, <3>2, ContinueGenerations DEF Retractable
    <3>4. PasswordOK'
      BY <2>1, <2>3, <3>1, ContinuePasswords
    <3> QED BY <3>3, <3>4
  <2>4. CASE Finish(r) /\ account' = account /\ mishaps' = mishaps \cup {"unsaved"}
    BY <1>7, <2>1, <2>4
  <2>5. \/ Save(r, row, p) /\ UNCHANGED mishaps
        \/ q.op = "link" /\ Continue(r, pl) /\ account' = account /\ mishaps' = mishaps \cup {"unsaved"}
        \/ Finish(r) /\ account' = account /\ mishaps' = mishaps \cup {"unsaved"}
    BY <1>12 DEF RevokeTokens, Finish
  <2> QED BY <2>2, <2>3, <2>4, <2>5
<1>13. CASE SaveAddress(r)
  <2> DEFINE row == [q.user EXCEPT !.address = q.arg, !.confirmed = FALSE, !.seal = q.user.seal + 1,
                                   !.gen = q.user.gen + 1,
                                   !.status = IF q.user.status = "email_verified" THEN "registered"
                                                                                  ELSE q.user.status]
             p   == [q EXCEPT !.at = "push", !.user = row]
  <2>1. q.at = "address" /\ UNCHANGED <<tokens, chat, mishaps>> /\ (Save(r, row, p) \/ (Finish(r) /\ account' = account))
    BY <1>13 DEF SaveAddress, At
  <2>2. CASE Save(r, row, p)
    <3>1. q.fresh /\ BeforeSave(q) /\ q.op = "address" /\ q.arg \in Addresses
      BY <1>1, <2>1, <2>2 DEF Save, BeforeSave, Shape
    <3>2. q.user.seal + 1 \in Nat /\ q.user.gen + 1 \in Nat /\ q.user \in AccountRows
          /\ (IF q.user.status = "email_verified" THEN "registered" ELSE q.user.status) \in Statuses
      BY <1>3, <3>1 DEF AccountRows, Statuses
    <3>3. row \in AccountRows /\ row.gen = q.user.gen + 1 /\ row.pw = q.user.pw
      BY <3>1, <3>2 DEF AccountRows
    <3> HIDE DEF row
    <3>4. p.user = row /\ p.at = "push" /\ p.op = "address"
      BY <1>1, <3>1 DEF RequestRows
    <3> HIDE DEF p
    <3> QED BY <1>1, <1>3, <1>4, <2>1, <2>2, <3>1, <3>3, <3>4 DEF Answering
  <2> QED BY <1>7, <2>1, <2>2
<1>14. CASE SaveStatus(r)
  <2> DEFINE row == [q.user EXCEPT !.status = q.arg]
             p   == [q EXCEPT !.at = "push", !.user = row]
  <2>1. q.at = "status" /\ UNCHANGED <<tokens, chat>> /\ q.user \in AccountRows /\ q.op # "link" /\ q.arg \in Statuses
    BY <1>1, <1>14 DEF SaveStatus, At, Shape
  <2>2. row \in AccountRows /\ row.gen = q.user.gen /\ row.pw = q.user.pw
    BY <2>1 DEF AccountRows
  <2>3. (Save(r, row, p) /\ UNCHANGED mishaps) \/ (Continue(r, p) /\ account' = account /\ mishaps \subseteq mishaps')
    BY <1>14 DEF SaveStatus
  <2> HIDE DEF row
  <2>4. p.user = row /\ p.at = "push" /\ p.op = q.op
    BY <1>1 DEF RequestRows
  <2> HIDE DEF p
  <2>5. CASE Save(r, row, p) /\ UNCHANGED mishaps
    <3>1. q.fresh /\ BeforeSave(q)
      BY <2>1, <2>5 DEF Save, BeforeSave
    <3> QED BY <1>1, <1>3, <1>4, <2>1, <2>2, <2>4, <2>5, <3>1 DEF Answering
  <2>6. CASE Continue(r, p) /\ account' = account /\ mishaps \subseteq mishaps'
    <3>1. p.user.gen <= Gen
      BY <1>1, <2>1, <2>2, <2>4 DEF GenerationOK
    <3>2. Unborn => tokens' = {} /\ chat' = None /\ p.at \notin {"answer", "flag"} /\ p.op # "link"
      BY <2>1, <2>4 DEF GenerationOK
    <3>3. ~Retractable(p) /\ ~Answering(p)
      BY <2>1, <2>4 DEF Retractable, Answering
    <3>4. GenerationOK'
      BY <1>5, <2>1, <2>6, <3>1, <3>2, <3>3, ContinueGenerations
    <3>5. PasswordOK'
      BY <2>1, <2>4, <2>6, <3>3, ContinuePasswords
    <3> QED BY <3>4, <3>5
  <2> QED BY <2>3, <2>5, <2>6
<1>15. CASE SaveRole(r)
  <2> DEFINE p == [q EXCEPT !.at = "sync"]
  <2>1. q.at = "role" /\ UNCHANGED <<tokens, chat, mishaps>> /\ (Save(r, account, p) \/ (Finish(r) /\ account' = account))
    BY <1>15 DEF SaveRole, At
  <2>2. CASE Save(r, account, p)
    <3>1. q.fresh /\ BeforeSave(q)
      BY <2>1, <2>2 DEF Save, BeforeSave
    <3>2. p.user = q.user /\ p.at = "sync" /\ ~Answering(p)
      BY <1>1 DEF RequestRows, Answering
    <3> HIDE DEF p
    <3> QED BY <1>1, <1>3, <1>4, <2>1, <2>2, <3>1, <3>2
  <2> QED BY <1>7, <2>1, <2>2
<1>16. CASE RollBackRole(r)
  <2> DEFINE p == [q EXCEPT !.at = "restore"]
  <2>1. q.at = "rollback" /\ UNCHANGED <<tokens, chat>> /\ mishaps \subseteq mishaps'
        /\ ((Save(r, account, p) /\ UNCHANGED mishaps) \/ (Finish(r) /\ account' = account))
    BY <1>16 DEF RollBackRole, At
  <2>2. CASE Save(r, account, p) /\ UNCHANGED mishaps
    <3>1. q.fresh /\ BeforeSave(q)
      BY <2>1, <2>2 DEF Save, BeforeSave
    <3>2. p.user = q.user /\ p.at = "restore" /\ ~Answering(p)
      BY <1>1 DEF RequestRows, Answering
    <3> HIDE DEF p
    <3> QED BY <1>1, <1>3, <1>4, <2>1, <2>2, <3>1, <3>2
  <2> QED BY <1>7, <2>1, <2>2
<1>17. ASSUME NEW yes \in BOOLEAN, Advance(r, yes) PROVE Sound'
  <2> DEFINE row == [q.user EXCEPT !.status = IF yes THEN "email_verified" ELSE "active"]
  <2>1. q.at = "advance" /\ UNCHANGED <<tokens, chat, mishaps>> /\ (Save(r, row, Free) \/ (Finish(r) /\ account' = account))
    BY <1>17 DEF Advance, At
  <2>2. CASE Save(r, row, Free)
    <3>1. q.fresh /\ BeforeSave(q)
      BY <2>1, <2>2 DEF Save, BeforeSave
    <3>2. row \in AccountRows /\ row.gen = Gen /\ row.pw = account.pw
      BY <1>3, <3>1 DEF AccountRows, Statuses
    <3>3. Free.user = None /\ Free.at = "free" /\ ~Answering(Free)
      BY DEF Free, Answering
    <3> HIDE DEF row
    <3> QED BY <1>1, <1>3, <1>4, <2>1, <2>2, <3>1, <3>2, <3>3
  <2> QED BY <1>7, <2>1, <2>2
<1>18. ASSUME NEW fails \in BOOLEAN, PushAccess(r, fails) PROVE Sound'
  <2> DEFINE p == AfterPush(q)
  <2>1. q.at = "push" /\ Continue(r, p) /\ UNCHANGED <<account, tokens>> /\ mishaps \subseteq mishaps'
        /\ (chat' = chat \/ SetAccountAccess(q.user))
    BY <1>18 DEF PushAccess, At
  <2>2. q.user \in AccountRows /\ q.user.gen <= Gen /\ q.user # None
    BY <1>1, <2>1 DEF Shape, GenerationOK
  <2>3. chat' # None => chat # None /\ chat'.floor <= Gen
    <3>1. CASE chat # None /\ SetAccountAccess(q.user)
      <4> DEFINE f == IF chat.floor < q.user.gen THEN q.user.gen ELSE chat.floor
      <4>1. chat \in ChatRows /\ chat' = [chat EXCEPT !.suspended = Suspended(q.user), !.floor = f]
        BY <3>1 DEF SetAccountAccess, TypeInv
      <4>2. f <= Gen
        BY <1>5, <2>2, <3>1
      <4> HIDE DEF f
      <4>3. chat'.floor = f
        BY <4>1 DEF ChatRows
      <4> QED BY <3>1, <4>2, <4>3
    <3> QED BY <1>5, <2>1, <3>1 DEF SetAccountAccess
  <2>4. p.op \in {q.op, "free"} /\ p.user \in {q.user, None} /\ p.at \in {"mail", "answer", "free"} /\ ~Retractable(p)
        /\ (p.at = "answer" => q.op = "link" /\ p.user = q.user /\ p.arg = q.arg)
    <3>1. CASE q.op = "address"
      BY <1>1, <3>1 DEF AfterPush, RequestRows, Retractable
    <3>2. CASE q.op = "link"
      BY <1>1, <3>2 DEF AfterPush, RequestRows, Retractable
    <3>3. CASE q.op \notin {"address", "link"}
      BY <3>3 DEF AfterPush, Free, Retractable
    <3> QED BY <3>1, <3>2, <3>3
  <2> HIDE DEF p
  <2>5. GenerationOK'
    <3>1. Unborn => tokens' = {} /\ chat' = None /\ p.at \notin {"answer", "flag"} /\ p.op # "link"
      BY <2>1, <2>3, <2>4 DEF GenerationOK
    <3> QED BY <1>5, <2>1, <2>2, <2>3, <2>4, <3>1, ContinueGenerations
  <2>6. PasswordOK'
    <3>1. Answering(p) => p.at = "answer" /\ Answering(q)
      BY <2>1, <2>4 DEF Answering
    <3>2. "unsaved" \notin mishaps' /\ ~Changing /\ Answering(p) /\ p.user.gen >= Gen => p.arg = account.pw
      BY <2>1, <2>4, <3>1 DEF PasswordOK
    <3> QED BY <2>1, <2>2, <2>4, <3>2, ContinuePasswords
  <2> QED BY <2>5, <2>6
<1>19. ASSUME NEW isAdmin, NEW done, NEW also, PushRole(isAdmin, done, also)
       PROVE  chat' # None => chat # None /\ chat'.floor <= Gen
  <2>1. CASE chat # None /\ chat' = [chat EXCEPT !.admin = isAdmin]
    BY <1>5, <2>1 DEF TypeInv, ChatRows
  <2> QED BY <1>5, <1>19, <2>1 DEF PushRole, SetUserAdmin
<1>20. ASSUME NEW p, NEW isAdmin, NEW done, NEW also, PushRole(isAdmin, done, also), Continue(r, p), UNCHANGED <<account, tokens>>,
              p.op \in {q.op, "free"}, p.user \in {q.user, None}, p.at \in {"answer", "rollback", "free"}, q.at \notin {"bump", "answer"},
              p.at = "answer" => q.at = "flag" /\ p.user = q.user /\ p.arg = q.arg
       PROVE  Sound'
  <2>1. mishaps \subseteq mishaps'
    BY <1>20 DEF PushRole
  <2>2. chat' # None => chat # None /\ chat'.floor <= Gen
    BY <1>19, <1>20
  <2>3. p.user # None => p.user.gen <= Gen
    BY <1>20 DEF GenerationOK
  <2>4. GenerationOK'
    <3>1. Unborn => tokens' = {} /\ chat' = None /\ p.at \notin {"answer", "flag"} /\ p.op # "link"
      BY <1>20, <2>2 DEF GenerationOK
    <3> QED BY <1>5, <1>20, <2>2, <2>3, <3>1, ContinueGenerations DEF Retractable
  <2>5. PasswordOK'
    <3>1. Answering(p) => p.at = "answer" /\ Answering(q) /\ p.user # None
      BY <1>1, <1>20 DEF Answering, Shape
    <3>2. "unsaved" \notin mishaps' /\ ~Changing /\ Answering(p) /\ p.user.gen >= Gen => p.arg = account.pw
      BY <1>20, <2>1, <3>1 DEF PasswordOK
    <3>3. "unsaved" \notin mishaps' /\ p.at = "answer" => p.user.gen <= Gen
      BY <2>3, <3>1 DEF Answering
    <3> QED BY <1>20, <2>1, <3>2, <3>3, ContinuePasswords
  <2> QED BY <2>4, <2>5
<1>21. ASSUME NEW done \in BOOLEAN, SyncAdminFlag(r, done) PROVE Sound'
  <2> DEFINE p == [q EXCEPT !.at = "answer"]
  <2>1. q.at = "flag" /\ Continue(r, p) /\ PushRole(TRUE, done, {}) /\ UNCHANGED <<account, tokens>>
    BY <1>21 DEF SyncAdminFlag, At
  <2>2. p.op = q.op /\ p.user = q.user /\ p.at = "answer" /\ p.arg = q.arg
    BY <1>1 DEF RequestRows
  <2> HIDE DEF p
  <2> QED BY <1>20, <2>1, <2>2
<1>22. Free.op = "free" /\ Free.user = None /\ Free.at = "free"
  BY DEF Free
<1>23. ASSUME NEW done \in BOOLEAN, NEW answered \in BOOLEAN, SyncRole(r, done, answered) PROVE Sound'
  <2> DEFINE p == IF answered \/ At(r, "resync") THEN Free ELSE [q EXCEPT !.at = "rollback"]
  <2>1. q.at \in {"sync", "resync"} /\ Continue(r, p) /\ PushRole(q.arg, done, {}) /\ UNCHANGED <<account, tokens>>
    BY <1>23 DEF SyncRole
  <2>2. p.op \in {q.op, "free"} /\ p.user \in {q.user, None} /\ p.at \in {"rollback", "free"}
    BY <1>1, <1>22 DEF RequestRows
  <2> HIDE DEF p
  <2> QED BY <1>20, <2>1, <2>2
<1>24. ASSUME NEW done \in BOOLEAN, NEW answered \in BOOLEAN, RestoreFlag(r, done, answered) PROVE Sound'
  <2>1. q.at = "restore" /\ Continue(r, Free) /\ UNCHANGED <<account, tokens>>
        /\ PushRole(~q.arg, done, IF done THEN {} ELSE {"manual"})
    BY <1>24 DEF RestoreFlag, At, Finish
  <2> QED BY <1>20, <1>22, <2>1
<1>25. CASE MailFails(r)
  <2>1. CASE q.op = "register" /\ q.fresh
    <3>1. account' = None /\ UNCHANGED <<tokens, chat, mishaps>> /\ q.at = "mail"
          /\ request' = [x \in Requests |-> IF x = r \/ At(x, "mail") THEN Free ELSE Outdated(request[x])]
      BY <1>25, <2>1 DEF MailFails, At
    <3>2. Unborn /\ Gen = 0 /\ Gen' = 0
      BY <1>3, <2>1, <3>1 DEF Unborn, Retractable, GenerationOK, BeforeSave, Gen
    <3>3. \A x \in Requests : request'[x] = Free \/ request'[x] = Outdated(request[x])
      BY <3>1
    <3>4. \A x \in Requests : /\ ~Retractable(request'[x]) /\ request'[x].at \in {request[x].at, "free"}
                              /\ request'[x].op \in {request[x].op, "free"} /\ request'[x].user \in {request[x].user, None}
                              /\ request'[x].at = "bump" => request'[x].user = request[x].user /\ request'[x].arg = request[x].arg
      BY <1>22, <3>3, OutdatedIs DEF TypeInv, CopyOK, Retractable, BeforeSave
    <3>5. tokens = {} /\ chat = None /\ \A x \in Requests : request'[x].at \notin {"answer", "flag"} /\ request'[x].op # "link"
      BY <3>2, <3>4 DEF GenerationOK
    <3>6. \A x \in Requests : request'[x].user # None => request'[x].user.gen <= Gen'
      BY <3>2, <3>4, <3>5 DEF GenerationOK
    <3>7. GenerationOK'
      BY <3>1, <3>4, <3>5, <3>6 DEF GenerationOK, FloorNeverAhead
    <3>8. PasswordOK'
      BY <3>1, <3>4, <3>5 DEF PasswordOK, Answering
    <3> QED BY <3>7, <3>8
  <2> QED BY <1>7, <1>25, <2>1 DEF MailFails, At
<1> QED BY <1>8, <1>9, <1>10, <1>11, <1>12, <1>13, <1>14, <1>15, <1>16, <1>17, <1>18, <1>21, <1>23, <1>24, <1>25 DEF Await

LEMMA StepSound == ASSUME TypeInv, AccountsAssumption, Sound, Next PROVE Sound'
<1> USE AccountsAssumption DEF Sound
<1>1. TypeInv' /\ Gen \in Nat
  BY StepTypes, GenIsNat DEF TypeInv
<1>2. ASSUME NEW r \in Requests, Handler(r) \/ Await(r) PROVE Sound'
  BY <1>1, <1>2, HandlerSound, AwaitSound
<1>3. CASE LoginFails
  <2>1. request' = [r \in Requests |-> Outdated(request[r])] /\ account # None /\ UNCHANGED <<account, tokens, chat, mishaps>>
    BY <1>3 DEF LoginFails
  <2>2. \A x \in Requests :
          /\ ~Retractable(request'[x]) /\ request'[x].at = request[x].at /\ request'[x].op = request[x].op
          /\ request'[x].arg = request[x].arg /\ request'[x].user \in {request[x].user, None}
          /\ Answering(request[x]) \/ request[x].at = "bump" => request'[x].user = request[x].user
    BY <2>1, OutdatedIs DEF TypeInv, CopyOK, Retractable, BeforeSave, Answering
  <2>3. Gen' = Gen /\ ~Unborn'
    BY <2>1, <2>2 DEF Gen, Unborn
  <2>4. GenerationOK'
    BY <2>1, <2>2, <2>3 DEF GenerationOK, FloorNeverAhead
  <2>5. PasswordOK'
    BY <2>1, <2>2, <2>3 DEF PasswordOK, Answering, Changing
  <2> QED BY <2>4, <2>5
<1>4. CASE RegisterUser
  <2>1. UNCHANGED <<account, request, tokens, mishaps>> /\ tokens # {} /\ chat'.floor = 0
    BY <1>4 DEF RegisterUser
  <2>2. ~Unborn /\ Gen' = Gen /\ Unborn' = Unborn /\ account # None
    BY <2>1 DEF GenerationOK, Gen, Unborn
  <2>3. FloorNeverAhead'
    BY <1>1, <2>1, <2>2 DEF FloorNeverAhead, Gen
  <2>4. GenerationOK'
    BY <2>1, <2>2, <2>3 DEF GenerationOK
  <2>5. PasswordOK'
    BY <2>1, <2>2 DEF PasswordOK, Changing
  <2> QED BY <2>4, <2>5
<1>5. CASE CoreApiStops
  <2>1. request' = [r \in Requests |-> Free] /\ UNCHANGED <<account, tokens, chat>>
        /\ mishaps' = mishaps \cup UNION {Undone(request[r]) : r \in Requests}
    BY <1>5 DEF CoreApiStops
  <2>2. \A x \in Requests : request'[x] = Free
    BY <2>1
  <2>3. Free.user = None /\ Free.at = "free" /\ Free.op = "free" /\ ~Retractable(Free) /\ ~Answering(Free)
    BY DEF Free, Retractable, Answering
  <2>4. Gen' = Gen /\ (Unborn' => Unborn)
    BY <2>1, <2>2, <2>3 DEF Gen, Unborn
  <2>5. GenerationOK'
    BY <2>1, <2>2, <2>3, <2>4 DEF GenerationOK, FloorNeverAhead
  <2>6. Changing => "unsaved" \in mishaps'
    BY <2>1 DEF Changing, Undone
  <2>7. PasswordOK'
    BY <2>1, <2>2, <2>3, <2>4, <2>6 DEF PasswordOK, Changing
  <2> QED BY <2>5, <2>7
<1> QED BY <1>2, <1>3, <1>4, <1>5 DEF Next

LEMMA AccountInvariant == ASSUME AccountsAssumption PROVE Spec => [](TypeInv /\ Sound)
<1>1. ASSUME TypeInv, Sound, UNCHANGED vars PROVE TypeInv' /\ Sound'
  BY <1>1 DEF vars, TypeInv, CopyOK, Sound, GenerationOK, PasswordOK, FloorNeverAhead, Unborn, Gen, Changing
<1>2. TypeInv /\ Sound /\ [Next]_vars => TypeInv' /\ Sound'
  BY <1>1, StepTypes, StepSound
<1> QED BY <1>2, InitCopies, InitSound, PTL DEF Spec

\* The chat database never asks for a generation that core-api has not saved,
\* for any number of requests: neither a refused save, a crash, nor the
\* rollback of a registration leaves an account that no token of its own can
\* enter (AccountAccessService.cs, RevokeTokensAsync).
THEOREM FloorIsNeverAhead == ASSUME AccountsAssumption PROVE Spec => []FloorNeverAhead
<1>1. Sound => FloorNeverAhead
  BY DEF Sound, GenerationOK
<1> QED BY <1>1, AccountInvariant, PTL

\* Once every password change is through and no refused save went unnoticed,
\* the sessions core-api accepts were obtained with the present password
\* (AuthEndpoints.cs, ResetPassword, ChangePassword, LinkAccount).
THEOREM OnlyTheCurrentPassword == ASSUME AccountsAssumption PROVE Spec => []OnlyCurrentPassword
<1>1. TypeInv /\ Sound => OnlyCurrentPassword
  BY GenIsNat DEF Sound, PasswordOK, OnlyCurrentPassword, Resolves, At, Changing, Gen
<1> QED BY <1>1, AccountInvariant, PTL

----------------------------------------------------------------------------
(* The role and the flag *)

Flag == IF chat = None THEN grant ELSE chat.admin
Repairing == \E r \in Requests : request[r].at \in {"sync", "rollback", "restore"}
RoleOK == mishaps \cap {"manual", "crossed"} = {} => role = Flag \/ Repairing

LEMMA PushedIsRole ==
    ASSUME TypeInv, NEW isAdmin \in BOOLEAN, NEW done, NEW also, PushRole(isAdmin, done, also),
           AccountsAssumption, role' = role, RoleOK
    PROVE  /\ done /\ "crossed" \notin mishaps' => role' = Flag'
           /\ ~done => Flag' = Flag
           /\ mishaps \subseteq mishaps'
<1>1. mishaps' = mishaps \cup also \cup IF done /\ isAdmin # role THEN {"crossed"} ELSE {}
  BY DEF PushRole
<1>2. CASE done
  <2>1. Flag' = isAdmin
    <3>1. CASE chat = None
      BY <1>2, <3>1 DEF PushRole, SetUserAdmin, Flag
    <3>2. CASE chat # None
      <4>1. chat \in ChatRows /\ chat' = [chat EXCEPT !.admin = isAdmin]
        BY <1>2, <3>2 DEF PushRole, SetUserAdmin, TypeInv
      <4>2. chat' \in ChatRows /\ chat'.admin = isAdmin
        BY <4>1 DEF ChatRows
      <4> QED BY <4>2 DEF Flag, AccountsAssumption
    <3> QED BY <3>1, <3>2
  <2> QED BY <1>1, <1>2, <2>1
<1>3. CASE ~done
  BY <1>1, <1>3 DEF PushRole, Flag
<1> QED BY <1>1, <1>2, <1>3

LEMMA StepRole == ASSUME TypeInv, AccountsAssumption, RoleOK, Next PROVE RoleOK'
<1>1. request \in [Requests -> RequestRows] /\ \A x \in Requests : Shape(request[x])
  BY DEF TypeInv, CopyOK
<1>2. ASSUME UNCHANGED <<role, chat, grant>>, mishaps \subseteq mishaps',
             Repairing => Repairing' \/ "manual" \in mishaps'
      PROVE  RoleOK'
  BY <1>2 DEF RoleOK, Flag
<1>3. ASSUME NEW r \in Requests, NEW p, Continue(r, p), request[r].at \notin {"sync", "rollback", "restore"}
      PROVE  Repairing => Repairing'
  BY <1>1, <1>3 DEF Continue, Repairing
<1>4. ASSUME NEW r \in Requests, NEW row, NEW p, Save(r, row, p), request[r].at \notin {"sync", "rollback", "restore"}
      PROVE  Repairing => Repairing'
  BY <1>1, <1>4, OutdatedIs DEF Save, Repairing
<1>5. ASSUME NEW r \in Requests, Handler(r) PROVE RoleOK'
  <2>1. UNCHANGED <<role, chat, grant, mishaps>>
    BY <1>5 DEF Handler, Register, CreateUser, ChangeAddress, ConfirmEmail, RenewSession, ChangePassword,
                ResendConfirmation, ResetPassword, Login, SetStatus, SetRole
  <2>2. PICK p : Continue(r, p) /\ request[r] = Free
    BY <1>5 DEF Handler, Register, CreateUser, ChangeAddress, ConfirmEmail, RenewSession, ChangePassword,
                ResendConfirmation, ResetPassword, Login, SetStatus, SetRole, Load, Continue
  <2>3. request[r].at = "free"
    BY <2>2 DEF Free
  <2> QED BY <1>2, <1>3, <2>1, <2>2, <2>3
<1>6. ASSUME NEW r \in Requests, Await(r) PROVE RoleOK'
  <2> DEFINE q == request[r]
  <2>1. ASSUME \/ MailSent(r) \/ Answer(r) \/ SaveConfirmed(r) \/ SavePassword(r) \/ RevokeTokens(r)
               \/ SaveAddress(r) \/ SaveStatus(r) \/ \E yes \in BOOLEAN : Advance(r, yes)
        PROVE  RoleOK'
    <3>1. UNCHANGED <<role, chat, grant>> /\ mishaps \subseteq mishaps' /\ q.at \notin {"sync", "rollback", "restore"}
      BY <2>1 DEF MailSent, Answer, SaveConfirmed, SavePassword, RevokeTokens, SaveAddress, SaveStatus, Advance, At
    <3>2. (\E p : Continue(r, p)) \/ (\E row, p : Save(r, row, p))
      BY <2>1 DEF MailSent, Answer, SaveConfirmed, SavePassword, RevokeTokens, SaveAddress, SaveStatus, Advance, Finish
    <3> QED BY <1>2, <1>3, <1>4, <3>1, <3>2
  <2>2. CASE MailFails(r)
    <3>1. UNCHANGED <<role, chat, grant, mishaps>> /\ q.at = "mail"
      BY <2>2 DEF MailFails, At
    <3>2. Repairing => Repairing'
      <4>1. CASE q.op = "register" /\ q.fresh
        <5>1. \A x \in Requests : request[x].at # "mail" => request'[x].at = request[x].at
          BY <1>1, <2>2, <3>1, <4>1, OutdatedIs DEF MailFails, At
        <5> QED BY <5>1 DEF Repairing
      <4>2. CASE ~(q.op = "register" /\ q.fresh)
        BY <1>3, <2>2, <3>1, <4>2 DEF MailFails, Finish
      <4> QED BY <4>1, <4>2
    <3> QED BY <1>2, <3>1, <3>2
  <2>3. ASSUME NEW fails \in BOOLEAN, PushAccess(r, fails) PROVE RoleOK'
    <3>1. q.at = "push" /\ UNCHANGED <<role, grant>> /\ mishaps \subseteq mishaps' /\ Continue(r, AfterPush(q))
          /\ (chat' = chat \/ SetAccountAccess(q.user))
      BY <2>3 DEF PushAccess, At
    <3>2. Flag' = Flag
      <4>1. CASE chat # None /\ SetAccountAccess(q.user)
        <5>1. chat \in ChatRows /\ q.user \in AccountRows
          BY <1>1, <3>1, <4>1 DEF TypeInv, Shape
        <5>2. Suspended(q.user) \in BOOLEAN /\ (IF chat.floor < q.user.gen THEN q.user.gen ELSE chat.floor) \in Nat
          BY <5>1 DEF Suspended, ChatRows, AccountRows
        <5>3. chat' \in ChatRows /\ chat'.admin = chat.admin
          BY <4>1, <5>1, <5>2 DEF SetAccountAccess, ChatRows
        <5> QED BY <3>1, <4>1, <5>3 DEF Flag, AccountsAssumption
      <4> QED BY <3>1, <4>1 DEF Flag, SetAccountAccess
    <3>3. Repairing => Repairing'
      BY <1>3, <3>1
    <3> QED BY <3>1, <3>2, <3>3 DEF RoleOK
  <2>4. CASE SaveRole(r)
    <3>1. CASE Finish(r) /\ UNCHANGED role
      BY <1>2, <1>3, <2>4, <3>1 DEF SaveRole, At, Finish
    <3>2. CASE Save(r, account, [q EXCEPT !.at = "sync"])
      <4>1. request'[r] = [q EXCEPT !.at = "sync"] /\ q \in RequestRows
        BY <1>1, <3>2 DEF Save
      <4>2. Repairing'
        BY <4>1 DEF Repairing, RequestRows
      <4> QED BY <4>2 DEF RoleOK
    <3> QED BY <2>4, <3>1, <3>2 DEF SaveRole
  <2>5. CASE RollBackRole(r)
    <3>1. CASE "manual" \in mishaps'
      BY <3>1 DEF RoleOK
    <3>2. CASE Save(r, account, [q EXCEPT !.at = "restore"])
      <4>1. request'[r] = [q EXCEPT !.at = "restore"] /\ q \in RequestRows
        BY <1>1, <3>2 DEF Save
      <4>2. Repairing'
        BY <4>1 DEF Repairing, RequestRows
      <4> QED BY <4>2 DEF RoleOK
    <3> QED BY <2>5, <3>1, <3>2 DEF RollBackRole
  <2>6. ASSUME NEW done \in BOOLEAN, SyncAdminFlag(r, done) PROVE RoleOK'
    <3>1. PushRole(TRUE, done, {}) /\ role' = role /\ Continue(r, [q EXCEPT !.at = "answer"]) /\ q.at = "flag"
      BY <2>6 DEF SyncAdminFlag, At
    <3>2. Repairing => Repairing'
      BY <1>3, <3>1
    <3> QED BY <3>1, <3>2, PushedIsRole DEF RoleOK
  <2>7. ASSUME NEW done \in BOOLEAN, NEW answered \in BOOLEAN, SyncRole(r, done, answered) PROVE RoleOK'
    <3>1. PushRole(q.arg, done, {}) /\ role' = role /\ q.arg \in BOOLEAN /\ q.at \in {"sync", "resync"} /\ (answered => done)
          /\ Continue(r, IF answered \/ At(r, "resync") THEN Free ELSE [q EXCEPT !.at = "rollback"])
      BY <1>1, <2>7 DEF SyncRole, Shape
    <3>2. CASE done
      BY <3>1, <3>2, PushedIsRole DEF RoleOK
    <3>3. CASE ~done /\ q.at = "sync"
      <4>1. request'[r] = [q EXCEPT !.at = "rollback"] /\ q \in RequestRows
        BY <1>1, <3>1, <3>3 DEF Continue, At
      <4>2. Repairing'
        BY <4>1 DEF Repairing, RequestRows
      <4> QED BY <4>2 DEF RoleOK
    <3>4. CASE ~done /\ q.at = "resync"
      <4>1. Repairing => Repairing'
        BY <1>3, <3>1, <3>4
      <4> QED BY <3>1, <3>4, <4>1, PushedIsRole DEF RoleOK
    <3> QED BY <3>1, <3>2, <3>3, <3>4
  <2>8. ASSUME NEW done \in BOOLEAN, NEW answered \in BOOLEAN, RestoreFlag(r, done, answered) PROVE RoleOK'
    <3>1. PushRole(~q.arg, done, IF done THEN {} ELSE {"manual"}) /\ role' = role /\ (~q.arg) \in BOOLEAN
      BY <1>1, <2>8 DEF RestoreFlag, Shape, At
    <3>2. CASE done
      BY <3>1, <3>2, PushedIsRole DEF RoleOK
    <3>3. CASE ~done
      BY <3>1, <3>3 DEF PushRole, RoleOK
    <3> QED BY <3>2, <3>3
  <2> QED BY <1>6, <2>1, <2>2, <2>3, <2>4, <2>5, <2>6, <2>7, <2>8 DEF Await
<1>7. CASE LoginFails
  <2>1. \A x \in Requests : request'[x].at = request[x].at
    BY <1>1, <1>7, OutdatedIs DEF LoginFails
  <2>2. Repairing => Repairing'
    BY <2>1 DEF Repairing
  <2> QED BY <1>2, <1>7, <2>2 DEF LoginFails
<1>8. CASE RegisterUser
  <2>1. chat = None /\ chat' \in ChatRows /\ chat'.admin = grant /\ UNCHANGED <<role, request, mishaps>>
    BY <1>8 DEF RegisterUser, ChatRows, TypeInv
  <2>2. Flag' = Flag /\ Repairing' = Repairing
    BY <2>1 DEF Flag, Repairing, AccountsAssumption
  <2> QED BY <2>1, <2>2 DEF RoleOK
<1>9. CASE CoreApiStops
  <2>1. UNCHANGED <<role, chat, grant>> /\ mishaps' = mishaps \cup UNION {Undone(request[x]) : x \in Requests}
    BY <1>9 DEF CoreApiStops
  <2>2. ASSUME NEW x \in Requests, request[x].at \in {"sync", "rollback", "restore"} PROVE "manual" \in mishaps'
    <3>1. Undone(request[x]) = {"manual"}
      BY <2>2 DEF Undone
    <3> QED BY <2>1, <3>1
  <2> QED BY <1>2, <2>1, <2>2 DEF Repairing
<1> QED BY <1>5, <1>6, <1>7, <1>8, <1>9 DEF Next

\* Once nothing is under way, the Admin role and the module's flag (or the
\* grant that waits for the row) agree, whatever answers were lost and however
\* many changes, sign-ins and restarts ran into each other, unless the log
\* tells otherwise (AdminRoleService.cs, SetAsync).
THEOREM RoleStaysInStep == ASSUME AccountsAssumption PROVE Spec => []AdminInStep
<1>1. Init => RoleOK
  BY DEF Init, RoleOK, Flag
<1>2. TypeInv /\ RoleOK /\ [Next]_vars => RoleOK'
  <2>1. RoleOK /\ UNCHANGED vars => RoleOK'
    BY DEF vars, RoleOK, Flag, Repairing
  <2> QED BY <2>1, StepRole
<1>3. RoleOK => AdminInStep
  BY DEF RoleOK, AdminInStep, Settled, Flag, Repairing, Free
<1> QED BY <1>1, <1>2, <1>3, AccountInvariant, PTL DEF Spec

-----------------------------------------------------------------------------
(* The archive worker *)

Row == Values \cup {NoRow}
ViewType == [rows : [Keys -> Row], status : {"none", "no", "yes"}]
Write == [kind : {"upsert"}, key : Keys, value : Values]
           \cup [kind : {"delete"}, key : Keys]
           \cup [kind : {"reconcile"}, keys : SUBSET Keys]

ReplicationTypeOK ==
  /\ live \in [Keys -> Row] /\ archive \in [Keys -> Row]
  /\ ready \in BOOLEAN /\ wiped \in BOOLEAN /\ applied \in BOOLEAN /\ canDelete \in BOOLEAN
  /\ service \in Nat /\ identity \in Nat /\ cached \in Nat
  /\ link \in {"down", "registering", "subscribed"}
  /\ inbox \in Seq(ViewType) /\ cache \in ViewType
  /\ queue \in Seq(Write)

\* What the connection knows.
KnownOK ==
  /\ ~applied => cache = EmptyViews
  /\ canDelete <=> cache.status = "yes"

\* What core-api remembers to have registered is registered, or an admin chose another.
RegisteredOK ==
  /\ cached <= identity
  /\ link # "down" => identity # 0
  /\ cached = identity /\ identity # 0 => service \in {identity, Stranger}

\* While a rebuild is due no view on its way allows deletions, and no queued write removes
\* a row the archive must keep.
FenceOK ==
  wiped =>
    /\ ~ready /\ ~canDelete
    /\ \A i \in DOMAIN inbox : inbox[i].status # "yes"
    /\ owed \subseteq KeysOf(archive)
    /\ \A i \in DOMAIN queue, k \in owed : ~Removes(queue[i], k)

ReplicationInv ==
  ReplicationTypeOK /\ KnownOK /\ RegisteredOK /\ FenceOK /\ KnownRowsAreArchived /\ DeletionsAreArchived

\* A sequence of all elements of a finite set.
LEMMA SeqOfAll ==
  ASSUME NEW S, IsFiniteSet(S), NEW w \in SetToSeqs(S)
  PROVE  w \in Seq(S) /\ \A x \in S : \E i \in DOMAIN w : w[i] = x
<1> DEFINE n == Cardinality(S)
<1>1. n \in Nat BY FS_CardinalityType
<1> HIDE DEF n
<1>2. w \in [1..n -> S] /\ \A i, j \in 1..n : i # j => w[i] # w[j] BY DEF SetToSeqs, n
<1>3. w \in Seq(S) BY <1>1, <1>2
<1>4. w \in Injection(1..n, S) BY <1>2 DEF Injection, IsInjective
<1>5. IsFiniteSet(1..n) /\ Cardinality(1..n) = n BY <1>1, FS_Interval
<1>6. w \in Surjection(1..n, S) BY <1>4, <1>5, FS_Injection DEF n
<1>7. \A x \in S : \E i \in 1..n : w[i] = x BY <1>6 DEF Surjection
<1> QED BY <1>2, <1>3, <1>7

\* What a write does to a row.
LEMMA AppliedIs ==
  ASSUME NEW w \in Write, NEW rows \in [Keys -> Row]
  PROVE  /\ Applied(w, rows) \in [Keys -> Row]
         /\ \A k \in Keys : ~Touches(w, k) => Applied(w, rows)[k] = rows[k]
         /\ \A k \in Keys, v \in Row : Makes(w, k, v) => Applied(w, rows)[k] = v
<1>1. CASE w \in [kind : {"upsert"}, key : Keys, value : Values]
  <2>1. Applied(w, rows) = [rows EXCEPT ![w.key] = w.value] BY <1>1 DEF Applied
  <2> QED BY <1>1, <2>1 DEF Row, Touches, Makes, Removes, Upserts
<1>2. CASE w \in [kind : {"delete"}, key : Keys]
  <2>1. Applied(w, rows) = [rows EXCEPT ![w.key] = NoRow] BY <1>2 DEF Applied
  <2> QED BY <1>2, <2>1 DEF Row, Touches, Makes, Removes, Upserts
<1>3. CASE w \in [kind : {"reconcile"}, keys : SUBSET Keys]
  <2>1. Applied(w, rows) = [k \in Keys |-> IF k \in w.keys THEN rows[k] ELSE NoRow] BY <1>3 DEF Applied
  <2> QED BY <1>3, <2>1 DEF Row, Touches, Makes, Removes, Upserts
<1> QED BY <1>1, <1>2, <1>3 DEF Write

\* What the queue makes of a row is not changed by its first write's application...
LEMMA DrainsOnConsume ==
  ASSUME queue \in Seq(Write), archive \in [Keys -> Row], queue # <<>>,
         archive' = Applied(Head(queue), archive), queue' = Tail(queue),
         NEW k \in Keys, NEW v \in Row, DrainsTo(k, v)
  PROVE  DrainsTo(k, v)'
<1>1. Head(queue) \in Write /\ Head(queue) = queue[1] /\ Len(queue) \in Nat \ {0} /\ queue' \in Seq(Write)
      /\ Len(queue') = Len(queue) - 1 /\ \A i \in 1..Len(queue') : queue'[i] = queue[i + 1]
  OBVIOUS
<1>2. PICK i \in 0..Len(queue) :
        /\ IF i = 0 THEN archive[k] = v ELSE Makes(queue[i], k, v)
        /\ \A j \in i + 1..Len(queue) : Touches(queue[j], k) => Makes(queue[j], k, v)
  BY DEF DrainsTo
<1>3. PICK rows : rows = archive' OBVIOUS
<1>4. \A j \in 1..Len(queue') : j + 1 \in 1..Len(queue) BY <1>1
<1> SUFFICES \E m \in 0..Len(queue') :
        /\ IF m = 0 THEN rows[k] = v ELSE Makes(queue'[m], k, v)
        /\ \A j \in m + 1..Len(queue') : Touches(queue'[j], k) => Makes(queue'[j], k, v)
  BY <1>3 DEF DrainsTo, Touches, Makes, Removes, Upserts
<1>5. CASE i \in {0, 1}
  <2>1. rows[k] = v
    <3>1. CASE i = 0
      <4>1. archive[k] = v /\ (Touches(queue[1], k) => Makes(queue[1], k, v)) BY <1>1, <1>2, <3>1
      <4> QED BY <1>1, <1>3, <4>1, AppliedIs
    <3>2. CASE i = 1
      <4>1. Makes(queue[1], k, v) BY <1>2, <3>2
      <4> QED BY <1>1, <1>3, <4>1, AppliedIs
    <3> QED BY <1>5, <3>1, <3>2
  <2>2. \A j \in 1..Len(queue') : Touches(queue[j + 1], k) => Makes(queue[j + 1], k, v)
    BY <1>1, <1>2, <1>4, <1>5
  <2>3. \A j \in 1..Len(queue') : Touches(queue'[j], k) => Makes(queue'[j], k, v)
    BY <1>1, <2>2
  <2>4. \A j \in 0 + 1..Len(queue') : j \in 1..Len(queue') OBVIOUS
  <2> WITNESS 0 \in 0..Len(queue')
  <2> QED BY <2>1, <2>3, <2>4
<1>6. CASE i \notin {0, 1}
  <2> DEFINE m == i - 1
  <2>1. m \in 1..Len(queue') /\ m \in 0..Len(queue') /\ m # 0 /\ m + 1 = i BY <1>1, <1>6
  <2>2. Makes(queue'[m], k, v) BY <1>1, <1>2, <1>6, <2>1
  <2>3. ASSUME NEW j \in m + 1..Len(queue') PROVE Touches(queue'[j], k) => Makes(queue'[j], k, v)
    <3>1. j \in 1..Len(queue') /\ j + 1 \in i + 1..Len(queue) BY <1>1, <2>1
    <3>2. Touches(queue[j + 1], k) => Makes(queue[j + 1], k, v) BY <1>2, <3>1
    <3> QED BY <1>1, <3>1, <3>2
  <2> HIDE DEF m
  <2> QED BY <2>1, <2>2, <2>3
<1> QED BY <1>5, <1>6

\* ... nor by a reconciliation that fails halfway.
LEMMA DrainsOnFailure ==
  ASSUME queue \in Seq(Write), archive \in [Keys -> Row], queue # <<>>, queue' = queue,
         NEW x \in Keys, Head(queue).kind = "reconcile", x \notin Head(queue).keys,
         archive' = [archive EXCEPT ![x] = NoRow],
         NEW k \in Keys, NEW v \in Row, DrainsTo(k, v)
  PROVE  DrainsTo(k, v)'
<1>1. Head(queue) = queue[1] /\ Len(queue) \in Nat \ {0} OBVIOUS
<1>2. PICK i \in 0..Len(queue) :
        /\ IF i = 0 THEN archive[k] = v ELSE Makes(queue[i], k, v)
        /\ \A j \in i + 1..Len(queue) : Touches(queue[j], k) => Makes(queue[j], k, v)
  BY DEF DrainsTo
<1>3. PICK rows : rows = archive' OBVIOUS
<1> SUFFICES /\ IF i = 0 THEN rows[k] = v ELSE Makes(queue[i], k, v)
             /\ \A j \in i + 1..Len(queue) : Touches(queue[j], k) => Makes(queue[j], k, v)
  BY <1>3 DEF DrainsTo, Touches, Makes, Removes, Upserts
<1>4. i = 0 /\ k = x => Touches(queue[1], k) /\ Makes(queue[1], k, v) BY <1>1, <1>2 DEF Touches, Removes
<1>5. i = 0 /\ k = x => v = NoRow BY <1>1, <1>4 DEF Makes, Upserts
<1>6. i = 0 => rows[k] = v BY <1>2, <1>3, <1>5
<1> QED BY <1>2, <1>6

\* New writes decide a row they touch, in whatever order, and leave the others.
LEMMA DrainsOnAppend ==
  ASSUME queue \in Seq(Write), NEW S \in SUBSET Write, NEW w \in Seq(S), queue' = queue \o w, archive' = archive,
         NEW k \in Keys, NEW v \in Row,
         \A x \in S : Touches(x, k) => Makes(x, k, v),
         DrainsTo(k, v) \/ \E i \in DOMAIN w : Makes(w[i], k, v)
  PROVE  DrainsTo(k, v)'
<1> DEFINE n == Len(queue)
<1>1. n \in Nat /\ Len(w) \in Nat /\ Len(queue') = n + Len(w) /\ DOMAIN w = 1..Len(w)
      /\ \A i \in 1..n : queue'[i] = queue[i]
      /\ \A j \in 1..Len(w) : queue'[n + j] = w[j] /\ w[j] \in S
  OBVIOUS
<1> HIDE DEF n
<1>2. \A j \in n + 1..n + Len(w) : Touches(queue'[j], k) => Makes(queue'[j], k, v)
  <2> SUFFICES ASSUME NEW j \in n + 1..n + Len(w) PROVE queue'[j] \in S
    OBVIOUS
  <2>1. j - n \in 1..Len(w) /\ n + (j - n) = j BY <1>1
  <2> QED BY <1>1, <2>1
<1> SUFFICES \E m \in 0..n + Len(w) :
        /\ IF m = 0 THEN archive[k] = v ELSE Makes(queue'[m], k, v)
        /\ \A j \in m + 1..n + Len(w) : Touches(queue'[j], k) => Makes(queue'[j], k, v)
  BY <1>1 DEF DrainsTo, Touches, Makes, Removes, Upserts
<1>3. CASE DrainsTo(k, v)
  <2>1. PICK i \in 0..n :
        /\ IF i = 0 THEN archive[k] = v ELSE Makes(queue[i], k, v)
        /\ \A j \in i + 1..n : Touches(queue[j], k) => Makes(queue[j], k, v)
    BY <1>3 DEF DrainsTo, n
  <2>2. i \in 0..n + Len(w) BY <1>1
  <2>3. i # 0 => queue'[i] = queue[i] BY <1>1
  <2>4. \A j \in i + 1..n + Len(w) : j \in i + 1..n \/ j \in n + 1..n + Len(w) BY <1>1
  <2>5. \A j \in i + 1..n : queue'[j] = queue[j] BY <1>1
  <2> WITNESS i \in 0..n + Len(w)
  <2> QED BY <1>2, <2>1, <2>3, <2>4, <2>5
<1>4. CASE \E i \in DOMAIN w : Makes(w[i], k, v)
  <2>1. PICK i \in 1..Len(w) : Makes(w[i], k, v) BY <1>1, <1>4
  <2> DEFINE m == n + i
  <2>2. m \in 0..n + Len(w) /\ m # 0 /\ \A j \in m + 1..n + Len(w) : j \in n + 1..n + Len(w) BY <1>1
  <2>3. Makes(queue'[m], k, v) BY <1>1, <2>1
  <2> HIDE DEF m
  <2> QED BY <1>2, <2>2, <2>3
<1> QED BY <1>3, <1>4

\* The writes of a transaction: at most two for each key, and a reconciliation.
LEMMA WritesOf ==
  ASSUME ReplicationTypeOK, NEW new \in ViewType
  PROVE  /\ Inserted(cache, new) \subseteq Write /\ Deleted(cache, new) \subseteq Write
         /\ Reconciled(new) \subseteq Write
         /\ IsFiniteSet(Inserted(cache, new) \cup Deleted(cache, new)) /\ IsFiniteSet(Reconciled(new))
<1> DEFINE I == Inserted(cache, new)
           D == Deleted(cache, new)
<1>1. I \subseteq Write
  BY DEF Inserted, Write, KeysOf, ViewType, Row
<1>2. D \subseteq Write
  BY DEF Deleted, Write, KeysOf, ViewType, Row
<1>3. Reconciled(new) \subseteq Write
  BY DEF Reconciled, Write, KeysOf
<1>4. IsFiniteSet(I)
  <2> DEFINE f == [w \in I |-> w.key]
  <2>1. f \in Injection(I, Keys) BY DEF Injection, IsInjective, Inserted, KeysOf
  <2> QED BY <2>1, FS_Injection, ReplicationAssumption
<1>5. IsFiniteSet(D)
  <2> DEFINE f == [w \in D |-> w.key]
  <2>1. f \in Injection(D, Keys) BY DEF Injection, IsInjective, Deleted, KeysOf
  <2> QED BY <2>1, FS_Injection, ReplicationAssumption
<1>6. IsFiniteSet(Reconciled(new)) BY FS_EmptySet, FS_Singleton DEF Reconciled
<1> QED BY <1>1, <1>2, <1>3, <1>4, <1>5, <1>6, FS_Union

\* A transaction puts its writes behind those that wait.
LEMMA TransactionIs ==
  ASSUME ReplicationTypeOK, ApplyTransaction
  PROVE  LET new == Head(inbox)
             S == Inserted(cache, new) \cup Deleted(cache, new) \cup Reconciled(new)
         IN  /\ new \in ViewType /\ inbox # <<>> /\ inbox' = Tail(inbox)
             /\ cache' = new /\ applied' = TRUE /\ (canDelete' <=> new.status = "yes")
             /\ UNCHANGED <<database, identity, cached, link, archive, owed>>
             /\ S \subseteq Write
             /\ \E w \in Seq(S) : /\ queue' = queue \o w
                                  /\ \A x \in S : \E i \in DOMAIN w : w[i] = x
<1> DEFINE new == Head(inbox)
           R == Inserted(cache, new) \cup Deleted(cache, new)
           C == Reconciled(new)
           S == R \cup C
<1>1. /\ inbox # <<>> /\ inbox' = Tail(inbox) /\ cache' = new /\ applied' = TRUE
      /\ (canDelete' <=> new.status = "yes")
      /\ UNCHANGED <<database, identity, cached, link, archive, owed>>
  BY DEF ApplyTransaction, IsReady
<1>2. new \in ViewType BY <1>1 DEF ReplicationTypeOK
<1>3. S \subseteq Write /\ IsFiniteSet(R) /\ IsFiniteSet(C) BY <1>2, WritesOf
<1>4. \/ \E w \in SetToSeqs(S) : queue' = queue \o w
      \/ \E first \in SetToSeqs(R), last \in SetToSeqs(C) : queue' = queue \o first \o last
  BY DEF ApplyTransaction
<1> HIDE DEF R, C, new
<1>5. CASE \E w \in SetToSeqs(S) : queue' = queue \o w
  <2>1. PICK w \in SetToSeqs(S) : queue' = queue \o w BY <1>5
  <2>2. IsFiniteSet(S) BY <1>3, FS_Union
  <2> HIDE DEF S
  <2>3. w \in Seq(S) /\ \A x \in S : \E i \in DOMAIN w : w[i] = x BY <2>2, SeqOfAll
  <2>4. \E u \in Seq(S) : queue' = queue \o u /\ \A x \in S : \E i \in DOMAIN u : u[i] = x BY <2>1, <2>3
  <2> QED BY <1>1, <1>2, <1>3, <2>4 DEF S, R, C, new
<1>6. CASE \E first \in SetToSeqs(R), last \in SetToSeqs(C) : queue' = queue \o first \o last
  <2>1. PICK first \in SetToSeqs(R), last \in SetToSeqs(C) : queue' = queue \o first \o last BY <1>6
  <2>2. first \in Seq(R) /\ \A x \in R : \E i \in DOMAIN first : first[i] = x BY <1>3, SeqOfAll
  <2>3. last \in Seq(C) /\ \A x \in C : \E i \in DOMAIN last : last[i] = x BY <1>3, SeqOfAll
  <2> DEFINE w == first \o last
  <2>4. first \in Seq(S) /\ last \in Seq(S)
    <3>1. R \subseteq S /\ C \subseteq S OBVIOUS
    <3> HIDE DEF S
    <3> QED BY <2>2, <2>3, <3>1
  <2> HIDE DEF S
  <2>5. w \in Seq(S) /\ queue' = queue \o w
    <3>1. queue \in Seq(Write) /\ S \subseteq Write BY <1>3 DEF ReplicationTypeOK
    <3>2. first \in Seq(Write) /\ last \in Seq(Write) BY <2>4, <3>1
    <3> QED BY <2>1, <2>4, <3>1, <3>2
  <2>6. \A x \in S : \E i \in DOMAIN w : w[i] = x
    <3> SUFFICES ASSUME NEW x \in S PROVE \E i \in DOMAIN w : w[i] = x
      OBVIOUS
    <3>1. Len(first) \in Nat /\ Len(last) \in Nat /\ DOMAIN w = 1..Len(first) + Len(last)
          /\ DOMAIN first = 1..Len(first) /\ DOMAIN last = 1..Len(last)
      BY <2>4
    <3>2. CASE x \in R
      <4>1. PICK i \in DOMAIN first : first[i] = x BY <2>2, <3>2
      <4>2. i \in DOMAIN w /\ w[i] = x BY <2>4, <3>1, <4>1
      <4> QED BY <4>2
    <3>3. CASE x \in C
      <4>1. PICK i \in DOMAIN last : last[i] = x BY <2>3, <3>3
      <4>2. Len(first) + i \in DOMAIN w /\ w[Len(first) + i] = x BY <2>4, <3>1, <4>1
      <4> QED BY <4>2
    <3> QED BY <3>2, <3>3 DEF S
  <2>7. \E u \in Seq(S) : queue' = queue \o u /\ \A x \in S : \E i \in DOMAIN u : u[i] = x
    BY <2>5, <2>6
  <2> QED BY <1>1, <1>2, <1>3, <2>7 DEF S, R, C, new
<1> QED BY <1>4, <1>5, <1>6

LEMMA TransactionStep ==
  ASSUME ReplicationInv, ApplyTransaction
  PROVE  ReplicationInv'
<1>a. PICK new : new = Head(inbox) OBVIOUS
<1> DEFINE S == Inserted(cache, new) \cup Deleted(cache, new) \cup Reconciled(new)
<1>0. ReplicationTypeOK /\ KnownOK /\ RegisteredOK /\ FenceOK BY DEF ReplicationInv
<1>1. /\ new \in ViewType /\ inbox # <<>> /\ inbox' = Tail(inbox)
      /\ cache' = new /\ applied' = TRUE /\ (canDelete' <=> new.status = "yes")
      /\ UNCHANGED <<database, identity, cached, link, archive, owed>>
      /\ S \subseteq Write
  BY <1>0, <1>a, TransactionIs
<1>2. PICK w \in Seq(S) : queue' = queue \o w /\ \A x \in S : \E i \in DOMAIN w : w[i] = x
  BY <1>0, <1>a, TransactionIs
<1>3. queue \in Seq(Write) /\ w \in Seq(Write) /\ queue' \in Seq(Write)
  <2> HIDE DEF S
  <2>1. queue \in Seq(Write) BY <1>0 DEF ReplicationTypeOK
  <2>2. w \in Seq(Write) BY <1>1, <1>2
  <2> QED BY <1>2, <2>1, <2>2
<1>4. new = inbox[1] /\ 1 \in DOMAIN inbox BY <1>0, <1>1, <1>a DEF ReplicationTypeOK
<1>5. \A i \in DOMAIN inbox' : i + 1 \in DOMAIN inbox /\ inbox'[i] = inbox[i + 1] /\ inbox' \in Seq(ViewType)
  BY <1>0, <1>1 DEF ReplicationTypeOK
<1>6. ReplicationTypeOK'
  <2>1. inbox' \in Seq(ViewType) BY <1>0, <1>1 DEF ReplicationTypeOK
  <2>2. canDelete' \in BOOLEAN BY DEF ApplyTransaction, IsReady
  <2> QED BY <1>0, <1>1, <1>3, <2>1, <2>2 DEF ReplicationTypeOK, database
<1>7. KnownOK' BY <1>1 DEF KnownOK
<1>8. RegisteredOK' BY <1>0, <1>1 DEF RegisteredOK, database
<1>9. FenceOK'
  <2> SUFFICES ASSUME wiped PROVE FenceOK'
    BY <1>1 DEF FenceOK, database
  <2>1. new.status # "yes" BY <1>0, <1>4 DEF FenceOK
  <2>2. \A i \in DOMAIN inbox' : inbox'[i].status # "yes" BY <1>0, <1>5 DEF FenceOK
  <2>3. \A x \in S, k \in owed : ~Removes(x, k)
    BY <2>1 DEF Removes, Inserted, Deleted, Reconciled
  <2>4. \A i \in DOMAIN queue', k \in owed : ~Removes(queue'[i], k)
    <3> SUFFICES ASSUME NEW i \in DOMAIN queue', NEW k \in owed PROVE ~Removes(queue'[i], k)
      OBVIOUS
    <3> HIDE DEF S
    <3>1. Len(queue) \in Nat /\ Len(w) \in Nat /\ i \in 1..Len(queue) + Len(w) BY <1>2, <1>3
    <3>2. CASE i \in 1..Len(queue)
      <4>1. queue'[i] = queue[i] /\ i \in DOMAIN queue BY <1>2, <1>3, <3>2
      <4> QED BY <1>0, <4>1 DEF FenceOK
    <3>3. CASE i \notin 1..Len(queue)
      <4>1. queue'[i] = w[i - Len(queue)] /\ i - Len(queue) \in DOMAIN w BY <1>2, <1>3, <3>1, <3>3
      <4>2. queue'[i] \in S BY <1>2, <4>1
      <4> QED BY <2>3, <4>2
    <3> QED BY <3>2, <3>3
  <2>5. wiped' = wiped /\ ready' = ready /\ owed' = owed /\ archive' = archive /\ ~canDelete'
    BY <1>1, <2>1 DEF database
  <2>6. owed \subseteq KeysOf(archive) /\ ~ready BY <1>0 DEF FenceOK
  <2>7. KeysOf(archive') = KeysOf(archive) BY <2>5
  <2>8. \A i \in DOMAIN queue', k \in owed' : ~Removes(queue'[i], k) BY <2>4, <2>5
  <2>9. owed' \subseteq KeysOf(archive') BY <2>5, <2>6
  <2> QED BY <2>2, <2>5, <2>6, <2>8, <2>9 DEF FenceOK, Removes
<1>10. archive' = archive BY <1>1
<1>11. KnownRowsAreArchived'
  <2> SUFFICES ASSUME NEW k \in KeysOf(new.rows) PROVE DrainsTo(k, new.rows[k])'
    BY <1>1 DEF KnownRowsAreArchived
  <2>a. PICK v : v = new.rows[k] OBVIOUS
  <2>1. k \in Keys /\ v \in Row /\ v # NoRow BY <1>1, <2>a DEF KeysOf, ViewType
  <2>2. \A x \in S : Touches(x, k) => Makes(x, k, v)
    BY <2>1, <2>a DEF Inserted, Deleted, Reconciled, Touches, Makes, Removes, Upserts, KeysOf
  <2>3. DrainsTo(k, v) \/ \E x \in S : Makes(x, k, v)
    <3>1. CASE v = cache.rows[k]
      <4>1. applied BY <1>0, <2>1, <3>1 DEF KnownOK, EmptyViews, NoRows
      <4>2. k \in KeysOf(cache.rows) BY <2>1, <3>1 DEF KeysOf
      <4>3. DrainsTo(k, cache.rows[k]) BY <4>1, <4>2 DEF ReplicationInv, KnownRowsAreArchived
      <4> QED BY <3>1, <4>3
    <3>2. CASE v # cache.rows[k]
      <4> DEFINE x == [kind |-> "upsert", key |-> k, value |-> v]
      <4>1. x \in S BY <2>1, <2>a, <3>2 DEF Inserted, KeysOf
      <4>2. Makes(x, k, v) BY <2>1 DEF Makes, Upserts
      <4> QED BY <4>1, <4>2
    <3> QED BY <3>1, <3>2
  <2> HIDE DEF S
  <2>4. DrainsTo(k, v) \/ \E i \in DOMAIN w : Makes(w[i], k, v) BY <1>2, <2>3
  <2>5. DrainsTo(k, v)' BY <1>1, <1>2, <1>3, <1>10, <2>1, <2>2, <2>4, DrainsOnAppend
  <2> QED BY <2>5, <2>a
<1>12. DeletionsAreArchived'
  <2> SUFFICES ASSUME NEW k \in Keys, new.status = "yes", new.rows[k] = NoRow PROVE DrainsTo(k, NoRow)'
    BY <1>1 DEF DeletionsAreArchived
  <2>1. NoRow \in Row BY DEF Row
  <2>2. \A x \in S : Touches(x, k) => Makes(x, k, NoRow)
    BY DEF Inserted, Deleted, Reconciled, Touches, Makes, Removes, Upserts, KeysOf
  <2>3. DrainsTo(k, NoRow) \/ \E x \in S : Makes(x, k, NoRow)
    <3>1. CASE ~canDelete
      <4> DEFINE x == [kind |-> "reconcile", keys |-> KeysOf(new.rows)]
      <4>1. x \in S BY <3>1 DEF Reconciled
      <4>2. Makes(x, k, NoRow) BY DEF Makes, Removes, KeysOf
      <4> QED BY <4>1, <4>2
    <3>2. CASE canDelete /\ cache.rows[k] # NoRow
      <4> DEFINE x == [kind |-> "delete", key |-> k]
      <4>1. x \in S BY <3>2 DEF Deleted, KeysOf
      <4>2. Makes(x, k, NoRow) BY DEF Makes, Removes
      <4> QED BY <4>1, <4>2
    <3>3. CASE canDelete /\ cache.rows[k] = NoRow
      <4>1. cache.status = "yes" BY <1>0, <3>3 DEF KnownOK
      <4>2. applied BY <1>0, <4>1 DEF KnownOK, EmptyViews
      <4> QED BY <3>3, <4>1, <4>2 DEF ReplicationInv, DeletionsAreArchived
    <3> QED BY <3>1, <3>2, <3>3
  <2> HIDE DEF S
  <2>4. DrainsTo(k, NoRow) \/ \E i \in DOMAIN w : Makes(w[i], k, NoRow) BY <1>2, <2>3
  <2> QED BY <1>1, <1>2, <1>3, <1>10, <2>1, <2>2, <2>4, DrainsOnAppend
<1> QED BY <1>6, <1>7, <1>8, <1>9, <1>11, <1>12 DEF ReplicationInv

\* The consumer: what a drained queue holds stays, and no row that is owed goes.
LEMMA ConsumerStep ==
  ASSUME ReplicationInv, Consume \/ ReconcileFails
  PROVE  ReplicationInv'
<1>0. ReplicationTypeOK /\ KnownOK /\ RegisteredOK /\ FenceOK BY DEF ReplicationInv
<1>1. /\ queue # <<>> /\ UNCHANGED <<live, ready, service, wiped, identity, cached, link, cache, applied, canDelete, inbox, owed>>
  BY DEF Consume, ReconcileFails, database, worker
<1>2. Head(queue) \in Write /\ Head(queue) = queue[1] /\ 1 \in DOMAIN queue /\ queue \in Seq(Write)
      /\ archive \in [Keys -> Row]
  BY <1>0, <1>1 DEF ReplicationTypeOK
<1>3. /\ queue' \in Seq(Write) /\ archive' \in [Keys -> Row]
      /\ \A i \in DOMAIN queue' : \E j \in DOMAIN queue : queue'[i] = queue[j]
      /\ wiped => owed \subseteq KeysOf(archive')
      /\ \A k \in Keys, v \in Row : DrainsTo(k, v) => DrainsTo(k, v)'
  <2>1. CASE Consume
    <3>1. archive' = Applied(Head(queue), archive) /\ queue' = Tail(queue) BY <2>1 DEF Consume
    <3>2. \A i \in DOMAIN queue' : i + 1 \in DOMAIN queue /\ queue'[i] = queue[i + 1] BY <1>1, <1>2, <3>1
    <3>3. wiped => owed \subseteq KeysOf(archive')
      <4> SUFFICES ASSUME wiped, NEW k \in owed PROVE k \in Keys /\ archive'[k] # NoRow
        BY DEF KeysOf
      <4>1. k \in Keys /\ archive[k] # NoRow /\ ~Removes(Head(queue), k) BY <1>0, <1>2 DEF FenceOK, KeysOf
      <4>2. CASE ~Touches(Head(queue), k) BY <1>2, <3>1, <4>1, <4>2, AppliedIs
      <4>3. CASE Touches(Head(queue), k)
        <5> DEFINE v == Head(queue).value
        <5>1. Upserts(Head(queue), k, v) /\ v \in Values
          BY <1>2, <4>1, <4>3 DEF Touches, Upserts, Write
        <5>2. v # NoRow /\ v \in Row BY <5>1, ReplicationAssumption DEF Row
        <5> HIDE DEF v
        <5>3. Makes(Head(queue), k, v) BY <5>1, <5>2 DEF Makes
        <5>4. archive'[k] = v BY <1>2, <3>1, <4>1, <5>2, <5>3, AppliedIs
        <5> QED BY <4>1, <5>2, <5>4
      <4> QED BY <4>2, <4>3
    <3>4. \A k \in Keys, v \in Row : DrainsTo(k, v) => DrainsTo(k, v)' BY <1>1, <1>2, <3>1, DrainsOnConsume
    <3>5. queue' \in Seq(Write) /\ archive' \in [Keys -> Row] BY <1>1, <1>2, <3>1, AppliedIs
    <3> QED BY <3>2, <3>3, <3>4, <3>5
  <2>2. CASE ReconcileFails
    <3>1. PICK x \in Keys \ Head(queue).keys : archive' = [archive EXCEPT ![x] = NoRow]
      BY <2>2 DEF ReconcileFails
    <3>2. Head(queue).kind = "reconcile" /\ queue' = queue BY <2>2 DEF ReconcileFails
    <3>3. wiped => owed \subseteq KeysOf(archive')
      <4> SUFFICES ASSUME wiped, NEW k \in owed PROVE k \in Keys /\ archive'[k] # NoRow
        BY DEF KeysOf
      <4>1. k \in Keys /\ archive[k] # NoRow /\ ~Removes(Head(queue), k) BY <1>0, <1>2 DEF FenceOK, KeysOf
      <4>2. k # x BY <3>1, <3>2, <4>1 DEF Removes
      <4> QED BY <1>2, <3>1, <4>1, <4>2
    <3>4. \A k \in Keys, v \in Row : DrainsTo(k, v) => DrainsTo(k, v)'
      BY <1>1, <1>2, <3>1, <3>2, DrainsOnFailure
    <3>5. archive' \in [Keys -> Row] BY <1>2, <3>1 DEF Row
    <3> QED BY <1>2, <3>2, <3>3, <3>4, <3>5
  <2> QED BY <2>1, <2>2
<1>4. ReplicationTypeOK' BY <1>0, <1>1, <1>3 DEF ReplicationTypeOK
<1>5. KnownOK' /\ RegisteredOK' BY <1>0, <1>1 DEF KnownOK, RegisteredOK
<1>6. FenceOK'
  <2> SUFFICES ASSUME wiped PROVE FenceOK'
    BY <1>1 DEF FenceOK
  <2>1. \A i \in DOMAIN queue', k \in owed : ~Removes(queue'[i], k)
    <3> SUFFICES ASSUME NEW i \in DOMAIN queue', NEW k \in owed PROVE ~Removes(queue'[i], k)
      OBVIOUS
    <3>1. PICK j \in DOMAIN queue : queue'[i] = queue[j] BY <1>3
    <3> QED BY <1>0, <3>1 DEF FenceOK
  <2>2. owed \subseteq KeysOf(archive') BY <1>3
  <2>3. ~ready /\ ~canDelete /\ \A i \in DOMAIN inbox : inbox[i].status # "yes" BY <1>0 DEF FenceOK
  <2> QED BY <1>1, <2>1, <2>2, <2>3 DEF FenceOK, Removes
<1>7. KnownRowsAreArchived'
  <2> SUFFICES ASSUME applied, NEW k \in KeysOf(cache.rows) PROVE DrainsTo(k, cache.rows[k])'
    BY <1>1 DEF KnownRowsAreArchived
  <2>1. PICK v : v = cache.rows[k] OBVIOUS
  <2>2. k \in Keys /\ v \in Row BY <1>0, <2>1 DEF KeysOf, ReplicationTypeOK, ViewType
  <2>3. DrainsTo(k, v) BY <2>1 DEF ReplicationInv, KnownRowsAreArchived
  <2>4. DrainsTo(k, v)' BY <1>3, <2>2, <2>3
  <2>5. v = cache.rows[k]' BY <1>1, <2>1
  <2> QED BY <2>4, <2>5 DEF DrainsTo
<1>8. DeletionsAreArchived'
  <2> SUFFICES ASSUME applied, cache.status = "yes", NEW k \in Keys, cache.rows[k] = NoRow PROVE DrainsTo(k, NoRow)'
    BY <1>1 DEF DeletionsAreArchived
  <2>1. DrainsTo(k, NoRow) BY DEF ReplicationInv, DeletionsAreArchived
  <2> QED BY <1>3, <2>1 DEF Row
<1> QED BY <1>4, <1>5, <1>6, <1>7, <1>8 DEF ReplicationInv

\* What the views show is a view, and allows deletions only when references are ready.
LEMMA ViewsAre ==
  ASSUME NEW seen \in [Keys -> Row], NEW b \in BOOLEAN, NEW s
  PROVE  Views(seen, b, s) \in ViewType /\ (Views(seen, b, s).status = "yes" => b)
BY DEF Views, ViewType, EmptyViews, NoRows, Row

\* Steps of the database put at most what they show behind what is on its way.
LEMMA Published ==
  ASSUME inbox \in Seq(ViewType), Publish, live' \in [Keys -> Row], ready' \in BOOLEAN,
         wiped' => ~ready', wiped' => \A i \in DOMAIN inbox : inbox[i].status # "yes"
  PROVE  inbox' \in Seq(ViewType) /\ (wiped' => \A i \in DOMAIN inbox' : inbox'[i].status # "yes")
<1> DEFINE now == Views(live', ready', service')
<1>1. now \in ViewType /\ (now.status = "yes" => ready') BY ViewsAre
<1>2. inbox' = inbox \/ inbox' = Append(inbox, now) BY DEF Publish
<1> HIDE DEF now
<1>3. CASE inbox' = Append(inbox, now)
  <2>1. inbox' \in Seq(ViewType) /\ Len(inbox') = Len(inbox) + 1 BY <1>1, <1>3
  <2>2. \A i \in DOMAIN inbox' : inbox'[i] = now \/ (i \in DOMAIN inbox /\ inbox'[i] = inbox[i])
    BY <1>1, <1>3
  <2> QED BY <1>1, <2>1, <2>2
<1> QED BY <1>2, <1>3

\* As long as the queue, the archive and the cache stay, so does what is known of them.
LEMMA KnownStays ==
  ASSUME KnownRowsAreArchived, DeletionsAreArchived, UNCHANGED <<queue, archive, cache, applied>>
  PROVE  KnownRowsAreArchived' /\ DeletionsAreArchived'
<1>1. \A k, v : DrainsTo(k, v) => DrainsTo(k, v)' BY DEF DrainsTo
<1>2. KnownRowsAreArchived'
  <2> SUFFICES ASSUME applied, NEW k \in KeysOf(cache.rows) PROVE DrainsTo(k, cache.rows[k])'
    BY DEF KnownRowsAreArchived
  <2>1. PICK v : v = cache.rows[k] OBVIOUS
  <2>2. DrainsTo(k, v)' BY <1>1, <2>1 DEF KnownRowsAreArchived
  <2> QED BY <2>1, <2>2 DEF DrainsTo
<1>3. DeletionsAreArchived'
  <2> SUFFICES ASSUME applied, cache.status = "yes", NEW k \in Keys, cache.rows[k] = NoRow PROVE DrainsTo(k, NoRow)'
    BY DEF DeletionsAreArchived
  <2> QED BY <1>1 DEF DeletionsAreArchived
<1> QED BY <1>2, <1>3

LEMMA DatabaseStep ==
  ASSUME ReplicationInv,
         \/ \E k \in Keys : RestoreRow(k) \/ \E v \in Values \cup {NoRow} : WriteRow(k, v)
         \/ MarkReady \/ RegisterArchiveService \/ CoreApiRestarts \/ AdminRepoints \/ RebuildSucceeds
  PROVE  ReplicationInv'
<1>0. ReplicationTypeOK /\ KnownOK /\ RegisteredOK /\ FenceOK BY DEF ReplicationInv
<1>1. UNCHANGED <<identity, link, cache, applied, canDelete, queue, archive>>
  BY DEF RestoreRow, WriteRow, MarkReady, RegisterArchiveService, CoreApiRestarts, AdminRepoints,
         RebuildSucceeds, Elsewhere, worker
<1> DEFINE Effect == /\ live' \in [Keys -> Row] /\ ready' \in BOOLEAN /\ wiped' \in BOOLEAN
                      /\ service' \in Nat /\ cached' \in Nat
                      /\ (wiped' => wiped /\ UNCHANGED <<ready, owed>>)
                      /\ (inbox' = inbox \/ Publish)
<1>2. Effect
  <2>1. ASSUME NEW k \in Keys, RestoreRow(k) PROVE Effect
    BY <1>0, <2>1 DEF RestoreRow, ReplicationTypeOK
  <2>2. ASSUME NEW k \in Keys, NEW v \in Values \cup {NoRow}, WriteRow(k, v) PROVE Effect
    BY <1>0, <2>2 DEF WriteRow, ReplicationTypeOK, Row
  <2>3. CASE MarkReady BY <1>0, <2>3 DEF MarkReady, ReplicationTypeOK
  <2>4. CASE RegisterArchiveService BY <1>0, <2>4 DEF RegisterArchiveService, ReplicationTypeOK
  <2>5. CASE CoreApiRestarts BY <1>0, <2>5 DEF CoreApiRestarts, database, ReplicationTypeOK
  <2>6. CASE AdminRepoints BY <1>0, <2>6, ReplicationAssumption DEF AdminRepoints, Stranger, ReplicationTypeOK
  <2>7. CASE RebuildSucceeds BY <1>0, <2>7 DEF RebuildSucceeds, ReplicationTypeOK
  <2> QED BY <2>1, <2>2, <2>3, <2>4, <2>5, <2>6, <2>7
<1>3. RegisteredOK'
  <2>1. CASE RegisterArchiveService
    BY <1>0, <1>1, <2>1 DEF RegisterArchiveService, RegisteredOK, ReplicationTypeOK
  <2>2. CASE CoreApiRestarts
    BY <1>0, <1>1, <2>2 DEF CoreApiRestarts, database, RegisteredOK, ReplicationTypeOK
  <2>3. CASE AdminRepoints BY <1>0, <1>1, <2>3 DEF AdminRepoints, RegisteredOK
  <2>4. CASE ~(RegisterArchiveService \/ CoreApiRestarts \/ AdminRepoints)
    <3>1. UNCHANGED <<service, cached>>
      BY <2>4 DEF RestoreRow, WriteRow, MarkReady, RebuildSucceeds
    <3> QED BY <1>0, <1>1, <3>1 DEF RegisteredOK
  <2> QED BY <2>1, <2>2, <2>3, <2>4
<1>4. inbox' \in Seq(ViewType) /\ (wiped' => \A i \in DOMAIN inbox' : inbox'[i].status # "yes")
  <2>1. inbox \in Seq(ViewType) BY <1>0 DEF ReplicationTypeOK
  <2>2. wiped' => ~ready' /\ \A i \in DOMAIN inbox : inbox[i].status # "yes" BY <1>0, <1>2 DEF FenceOK
  <2> QED BY <1>2, <2>1, <2>2, Published
<1>5. ReplicationTypeOK' BY <1>0, <1>1, <1>2, <1>4 DEF ReplicationTypeOK
<1>6. KnownOK' BY <1>0, <1>1 DEF KnownOK
<1>7. FenceOK' BY <1>0, <1>1, <1>2, <1>4 DEF FenceOK, Removes
<1>8. KnownRowsAreArchived' /\ DeletionsAreArchived' BY <1>1, KnownStays DEF ReplicationInv
<1> QED BY <1>3, <1>5, <1>6, <1>7, <1>8 DEF ReplicationInv

\* The wipe and the worker's connection.
LEMMA ConnectionStep ==
  ASSUME ReplicationInv,
         \/ Wipe \/ \E rejected \in BOOLEAN : Connect(rejected)
         \/ Subscribe \/ Disconnect \/ WorkerRestarts
  PROVE  ReplicationInv'
<1>0. ReplicationTypeOK /\ KnownOK /\ RegisteredOK /\ FenceOK BY DEF ReplicationInv
<1> DEFINE Gone == cache' = EmptyViews /\ applied' = FALSE /\ canDelete' = FALSE /\ inbox' = <<>> /\ link' = "down"
<1>1. EmptyViews \in ViewType /\ NoRows \in [Keys -> Row] /\ <<>> \in Seq(ViewType) /\ <<>> \in Seq(Write)
  BY DEF EmptyViews, ViewType, NoRows, Row
<1>2. ASSUME Gone PROVE KnownOK' /\ KnownRowsAreArchived' /\ DeletionsAreArchived'
  BY <1>2 DEF KnownOK, EmptyViews, KnownRowsAreArchived, DeletionsAreArchived
<1>3. CASE Wipe
  <2>1. ReplicationTypeOK' BY <1>0, <1>1, <1>3 DEF Wipe, ReplicationTypeOK
  <2>2. RegisteredOK' BY <1>0, <1>3 DEF Wipe, RegisteredOK, ReplicationTypeOK
  <2>3. FenceOK' BY <1>3 DEF Wipe, FenceOK, Removes, KeysOf
  <2> QED BY <1>2, <1>3, <2>1, <2>2, <2>3 DEF Wipe, ReplicationInv
<1>4. ASSUME NEW rejected \in BOOLEAN, Connect(rejected) PROVE ReplicationInv'
  <2>1. /\ UNCHANGED <<live, ready, service, wiped, cached, inbox, cache, applied, canDelete, queue, archive, owed>>
        /\ identity' = (IF rejected \/ identity = 0 THEN identity + 1 ELSE identity)
        /\ link' = "registering"
    BY <1>4 DEF Connect, database
  <2>2. ReplicationTypeOK' BY <1>0, <2>1 DEF ReplicationTypeOK
  <2>3. RegisteredOK' BY <1>0, <2>1 DEF RegisteredOK, ReplicationTypeOK
  <2>4. FenceOK' /\ KnownOK' BY <1>0, <2>1 DEF FenceOK, Removes, KnownOK
  <2> QED BY <2>1, <2>2, <2>3, <2>4, KnownStays DEF ReplicationInv
<1>5. CASE Subscribe
  <2>1. /\ UNCHANGED <<live, ready, service, wiped, identity, cached, cache, applied, canDelete, queue, archive, owed>>
        /\ inbox' = <<Views(live, ready, service)>> /\ link' = "subscribed" /\ link = "registering"
    BY <1>5 DEF Subscribe, database
  <2>2. Views(live, ready, service) \in ViewType /\ (Views(live, ready, service).status = "yes" => ready)
    BY <1>0, ViewsAre DEF ReplicationTypeOK
  <2>3. ReplicationTypeOK' BY <1>0, <2>1, <2>2 DEF ReplicationTypeOK
  <2>4. RegisteredOK' /\ KnownOK' BY <1>0, <2>1 DEF RegisteredOK, KnownOK
  <2>5. FenceOK' BY <1>0, <2>1, <2>2 DEF FenceOK, Removes, ReplicationTypeOK
  <2> QED BY <2>1, <2>3, <2>4, <2>5, KnownStays DEF ReplicationInv
<1>6. CASE Disconnect \/ WorkerRestarts
  <2>1. /\ UNCHANGED <<live, ready, service, wiped, identity, cached, archive, owed>>
        /\ Gone /\ queue' \in {queue, <<>>}
    BY <1>6 DEF Disconnect, WorkerRestarts, database
  <2>2. ReplicationTypeOK' BY <1>0, <1>1, <2>1 DEF ReplicationTypeOK
  <2>3. RegisteredOK' BY <1>0, <2>1 DEF RegisteredOK
  <2>4. FenceOK' BY <1>0, <2>1 DEF FenceOK, Removes, KeysOf
  <2> QED BY <1>2, <2>1, <2>2, <2>3, <2>4 DEF ReplicationInv
<1> QED BY <1>3, <1>4, <1>5, <1>6

LEMMA ReplicationStep == ReplicationInv /\ [ReplicationNext]_arVars => ReplicationInv'
<1> SUFFICES ASSUME ReplicationInv, [ReplicationNext]_arVars PROVE ReplicationInv'
  OBVIOUS
<1>1. CASE UNCHANGED arVars
  <2>1. UNCHANGED <<live, ready, service, wiped, identity, cached, link, cache, applied, canDelete, inbox, queue, archive, owed>>
    BY <1>1 DEF arVars, database, worker
  <2>2. ReplicationTypeOK' BY <2>1 DEF ReplicationInv, ReplicationTypeOK
  <2>3. KnownOK' /\ RegisteredOK' /\ FenceOK'
    BY <2>1 DEF ReplicationInv, KnownOK, RegisteredOK, FenceOK, Removes
  <2> QED BY <2>1, <2>2, <2>3, KnownStays DEF ReplicationInv
<1> QED BY <1>1, TransactionStep, ConsumerStep, DatabaseStep, ConnectionStep DEF ReplicationNext

LEMMA ReplicationInitOK == ReplicationInit => ReplicationInv
<1> SUFFICES ASSUME ReplicationInit PROVE ReplicationInv
  OBVIOUS
<1>1. EmptyViews \in ViewType /\ NoRows \in [Keys -> Row] /\ <<>> \in Seq(ViewType) /\ <<>> \in Seq(Write)
  BY DEF EmptyViews, ViewType, NoRows, Row
<1>2. ReplicationTypeOK BY <1>1 DEF ReplicationInit, ReplicationTypeOK
<1> QED BY <1>2 DEF ReplicationInit, ReplicationInv, KnownOK, RegisteredOK, FenceOK, EmptyViews,
              KnownRowsAreArchived, DeletionsAreArchived

LEMMA ReplicationInvariant == ReplicationSpec => []ReplicationInv
BY ReplicationInitOK, ReplicationStep, PTL DEF ReplicationSpec

\* KnownRowsAreArchived: once the queue is drained, the archive holds every row the
\* worker knows of, whatever order the halves of a change arrived in and whatever was
\* queued before or failed (ArchiveDatabase, SpacetimeArchiveService).
THEOREM ArchiveHoldsWhatIsKnown == ReplicationSpec => []KnownRowsAreArchived
<1>1. ReplicationInv => KnownRowsAreArchived BY DEF ReplicationInv
<1> QED BY <1>1, ReplicationInvariant, PTL

\* DeletionsAreArchived: while deletions are allowed it holds no other row, those deleted
\* while the worker was away included (EnqueueReconcile).
THEOREM ArchiveHoldsNothingElse == ReplicationSpec => []DeletionsAreArchived
<1>1. ReplicationInv => DeletionsAreArchived BY DEF ReplicationInv
<1> QED BY <1>1, ReplicationInvariant, PTL

\* ArchiveOutlivesTheDatabase: no row that users had not deleted leaves the archive
\* between a wipe and the end of the rebuild (archive_replication_status).
THEOREM ArchiveOutlives == ReplicationSpec => []ArchiveOutlivesTheDatabase
<1>1. ReplicationInv => ArchiveOutlivesTheDatabase
  BY DEF ReplicationInv, FenceOK, ArchiveOutlivesTheDatabase
<1> QED BY <1>1, ReplicationInvariant, PTL

\* WaitingWorkerIsRegistered: core-api has not yet crossed off the identity of a worker
\* that waits to be registered (WaitForRegistration).
THEOREM WaitingIsNoticed == ReplicationSpec => []WaitingWorkerIsRegistered
<1>1. ReplicationInv => WaitingWorkerIsRegistered
  BY DEF ReplicationInv, RegisteredOK, WaitingWorkerIsRegistered
<1> QED BY <1>1, ReplicationInvariant, PTL
============================================================================
