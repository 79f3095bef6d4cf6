------------------------------ MODULE Accounts ------------------------------
(***************************************************************************)
(* One account of core-api and its copy in the chat database: sign-up,     *)
(* sign-in, confirmation, password and address changes                     *)
(* (Endpoints/AuthEndpoints.cs, AccountEmailService.cs), the admin page    *)
(* (Pages/Admin/UserDetail.cshtml.cs), AccountAccessService and            *)
(* AdminRoleService, and the module's reducers register_user,              *)
(* admin_set_account_access and set_user_admin.                            *)
(*                                                                         *)
(* A handler loads the row, works on its copy and saves it once or twice;  *)
(* between its awaits other handlers run.  A save succeeds only if nobody  *)
(* saved the row since it was loaded (Identity's ConcurrencyStamp): the    *)
(* stamp is kept as the mark fresh of each request's copy.  The settings   *)
(* (SystemConfig) can be edited between any two reads, so a read of them   *)
(* may give anything.                                                      *)
(***************************************************************************)
EXTENDS Naturals, FiniteSets

CONSTANTS Requests,   \* requests core-api works on at a time
          Addresses,  \* mail addresses
          None,       \* no row, no argument
          MaxChanges  \* bounds the model: changes of password or address

Statuses == {"registered", "email_verified", "active", "disabled", "rejected"}

AccountRows == [status : Statuses, confirmed : BOOLEAN, address : Addresses,
                seal : Nat, gen : Nat, pw : Nat]

ChatRows == [suspended : BOOLEAN, floor : Nat, admin : BOOLEAN]

ASSUME AccountsAssumption == None \notin AccountRows \cup ChatRows

VARIABLES account, \* the row in PostgreSQL
          role,    \* it holds the Admin role
          request, \* what each request has loaded and where it is
          tokens,  \* tokens handed out: their generation, and the password used
          links,   \* confirmation links in mails, dead ones left out
          chat,    \* the User row in the chat database
          grant,   \* a pending_admin_grant waits for that row
          mishaps  \* what has gone wrong that the code only logs:
                   \* "unsaved": a refused save that nobody looks at
                   \* "unpushed": the chat database did not get an access state
                   \* "stale": it got one that had been replaced meanwhile
                   \* "norow": it got one before the account registered there
                   \* "manual": a role change failed half way and its repair too
                   \* "crossed": a role was pushed after it had changed again

vars == <<account, role, request, tokens, links, chat, grant, mishaps>>

----------------------------------------------------------------------------
(* The row and the copies of it.                                           *)

Free == [op |-> "free", at |-> "free", user |-> None, fresh |-> TRUE, arg |-> None]

\* Reads the row and starts a handler at its next await.
Load(r, op, at, arg) ==
  /\ request[r] = Free /\ account # None
  /\ request' = [request EXCEPT ![r] = [op |-> op, at |-> at, user |-> account,
                                        fresh |-> TRUE, arg |-> arg]]

At(r, at) == request[r].at = at

Continue(r, q) == request' = [request EXCEPT ![r] = q]

Finish(r) == Continue(r, Free)

\* A handler that may still save its copy, or delete the row.
BeforeSave(q) ==
  \/ q.at \in {"confirm", "advance", "password", "bump", "address", "status",
               "role", "sync", "rollback"}
  \/ q.at = "mail" /\ q.op = "register"

\* The row was saved: the other copies of it are out of date, and what is in
\* them matters only if it is pushed or answered.
Outdated(q) ==
  IF ~BeforeSave(q) THEN q
  ELSE [q EXCEPT !.fresh = FALSE,
                 !.user = IF q.at \in {"mail", "bump", "status"} THEN q.user ELSE None]

\* UserManager.UpdateAsync.
Save(r, row, q) ==
  /\ request[r].fresh
  /\ account' = row
  /\ request' = [x \in Requests |-> IF x = r THEN q ELSE Outdated(request[x])]

Suspended(row) == row.status \in {"disabled", "rejected"}

Allowed(row) == row.status = "active"

\* ResolveAccountAsync: a token of the current generation, an active account.
Resolves(t) == account # None /\ t.gen >= account.gen /\ Allowed(account)

NewRow(address, status) ==
  [status |-> status, confirmed |-> status = "active", address |-> address,
   seal |-> 0, gen |-> 0, pw |-> 0]

MayChange == account # None /\ account.seal < MaxChanges

----------------------------------------------------------------------------
(* Sign-up.                                                                *)

\* /auth/register, and /auth/link for a name without an account: active at
\* once, or waiting for the mail.
Register(r, address, confirm) ==
  LET row == NewRow(address, IF confirm THEN "registered" ELSE "active")
  IN  /\ account = None /\ request[r] = Free
      /\ account' = row
      /\ Continue(r, [op |-> "register", at |-> IF confirm THEN "mail" ELSE "answer",
                      user |-> row, fresh |-> TRUE, arg |-> row.pw])
      /\ UNCHANGED <<role, tokens, links, chat, grant, mishaps>>

\* The admin page's CreateUser.
CreateUser(r, address, isAdmin) ==
  LET row == NewRow(address, "active")
  IN  /\ account = None /\ request[r] = Free
      /\ account' = row
      /\ Continue(r, IF isAdmin THEN [op |-> "role", at |-> "role", user |-> row,
                                      fresh |-> TRUE, arg |-> TRUE]
                                ELSE Free)
      /\ UNCHANGED <<role, tokens, links, chat, grant, mishaps>>

\* A mail with a link that the copy's security stamp signs; with an old one
\* it is dead on arrival.
MailSent(r) ==
  LET q == request[r]
  IN  /\ At(r, "mail")
      /\ links' = links \cup
           {l \in {[seal |-> q.user.seal, address |-> q.user.address]} :
              account # None /\ l.seal = account.seal}
      /\ Finish(r)
      /\ UNCHANGED <<account, role, tokens, chat, grant, mishaps>>

\* EmailDeliveryException: a sign-up is rolled back (DeleteAsync, which a
\* changed row refuses), the others report it or not.
MailFails(r) ==
  /\ At(r, "mail")
  /\ IF request[r].op = "register" /\ request[r].fresh
     THEN /\ account' = None
          /\ links' = {}
          /\ request' = [x \in Requests |->
                           IF x = r \/ At(x, "mail") THEN Free ELSE Outdated(request[x])]
     ELSE /\ Finish(r)
          /\ UNCHANGED <<account, links>>
  /\ UNCHANGED <<role, tokens, chat, grant, mishaps>>

\* /auth/resend-confirmation and the admin's SendConfirmation.
ResendConfirmation(r) ==
  /\ account # None /\ ~account.confirmed
  /\ Load(r, "resend", "mail", None)
  /\ UNCHANGED <<account, role, tokens, links, chat, grant, mishaps>>

\* /auth/confirm-email.  The link is checked against the copy's stamp.
ConfirmEmail(r, l) ==
  /\ account # None /\ l.seal = account.seal
  /\ ~(account.confirmed /\ account.status # "registered")
  /\ Load(r, "confirm", "confirm", None)
  /\ UNCHANGED <<account, role, tokens, links, chat, grant, mishaps>>

SaveConfirmed(r) ==
  LET q   == request[r]
      row == [q.user EXCEPT !.confirmed = TRUE]
  IN  /\ At(r, "confirm")
      /\ \/ Save(r, row, IF row.status = "registered"
                         THEN [q EXCEPT !.at = "advance", !.user = row] ELSE Free)
         \/ ~q.fresh /\ Finish(r) /\ UNCHANGED account
      /\ UNCHANGED <<role, tokens, links, chat, grant, mishaps>>

\* Its second save, whose result is not looked at.
Advance(r, approval) ==
  LET q == request[r]
  IN  /\ At(r, "advance")
      /\ \/ Save(r, [q.user EXCEPT !.status = IF approval THEN "email_verified" ELSE "active"],
                 Free)
         \/ ~q.fresh /\ Finish(r) /\ UNCHANGED account
      /\ UNCHANGED <<role, tokens, links, chat, grant, mishaps>>

----------------------------------------------------------------------------
(* Sign-in.                                                                *)

\* /auth/login with the password of the row.  An administrator's flag is
\* pushed first.
Login(r) ==
  /\ account # None /\ Allowed(account)
  /\ Load(r, "session", IF role THEN "flag" ELSE "answer", account.pw)
  /\ UNCHANGED <<account, role, tokens, links, chat, grant, mishaps>>

\* A wrong password is counted in the row.
LoginFails ==
  /\ account # None
  /\ request' = [r \in Requests |-> Outdated(request[r])]
  /\ request' # request
  /\ UNCHANGED <<account, role, tokens, links, chat, grant, mishaps>>

RenewAnyToken(r, t) ==
  /\ account # None /\ Allowed(account)
  /\ Load(r, "session", "answer", t.pw)
  /\ UNCHANGED <<account, role, tokens, links, chat, grant, mishaps>>

\* /auth/renew-session.
RenewSession(r, t) ==
  /\ Resolves(t)
  /\ Load(r, "session", "answer", t.pw)
  /\ UNCHANGED <<account, role, tokens, links, chat, grant, mishaps>>

\* BuildAuthResponse: tokens of the copy's generation.
Answer(r) ==
  /\ At(r, "answer")
  /\ tokens' = tokens \cup {[gen |-> request[r].user.gen, pw |-> request[r].arg]}
  /\ Finish(r)
  /\ UNCHANGED <<account, role, links, chat, grant, mishaps>>

----------------------------------------------------------------------------
(* Passwords and addresses.                                                *)

\* /auth/change-password, and /auth/link for the caller's own account, which
\* answers with a new session.
ChangePassword(r, t, link) ==
  /\ Resolves(t) /\ MayChange
  /\ Load(r, IF link THEN "link" ELSE "password", "password", None)
  /\ UNCHANGED <<account, role, tokens, links, chat, grant, mishaps>>

\* /auth/reset-password, with a link of the present stamp: one can be had at
\* any time (/auth/forgot-password, the admin's SendPasswordReset).
ResetPassword(r) ==
  /\ MayChange
  /\ Load(r, "password", "password", None)
  /\ UNCHANGED <<account, role, tokens, links, chat, grant, mishaps>>

\* ChangePasswordAsync, ResetPasswordAsync: a new hash and security stamp.
SavePassword(r) ==
  LET q   == request[r]
      new == q.user.seal + 1
      row == [q.user EXCEPT !.pw = new, !.seal = new]
  IN  /\ At(r, "password")
      /\ \/ Save(r, row, [q EXCEPT !.at = "bump", !.user = row, !.arg = new]) /\ links' = {}
         \/ ~q.fresh /\ Finish(r) /\ UNCHANGED <<account, links>>
      /\ UNCHANGED <<role, tokens, chat, grant, mishaps>>

\* The refused generation is pushed all the same.
RevokeUnsaved(r) ==
  LET q   == request[r]
      row == [q.user EXCEPT !.gen = @ + 1]
  IN  /\ At(r, "bump")
      /\ \/ Save(r, row, [q EXCEPT !.at = "push", !.user = row])
         \/ /\ ~q.fresh
            /\ Continue(r, [q EXCEPT !.at = "push", !.user = row])
            /\ UNCHANGED account
      /\ UNCHANGED <<role, tokens, links, chat, grant, mishaps>>

\* RevokeTokensAsync: the next generation is saved, then pushed.  /auth/link
\* answers from its copy whatever became of the save.
RevokeTokens(r) ==
  LET q   == request[r]
      row == [q.user EXCEPT !.gen = @ + 1]
  IN  /\ At(r, "bump")
      /\ \/ /\ Save(r, row, [q EXCEPT !.at = "push", !.user = row])
            /\ UNCHANGED mishaps
         \/ /\ ~q.fresh
            /\ Continue(r, IF q.op = "link" THEN [q EXCEPT !.at = "answer", !.user = row]
                                            ELSE Free)
            /\ mishaps' = mishaps \cup {"unsaved"}
            /\ UNCHANGED account
      /\ UNCHANGED <<role, tokens, links, chat, grant>>

\* ChangeAddressAsync, for an administrator or for a registration that is
\* not confirmed yet: one save, then the push and a mail.
ChangeAddress(r, address) ==
  /\ MayChange /\ address # account.address
  /\ Load(r, "address", "address", address)
  /\ UNCHANGED <<account, role, tokens, links, chat, grant, mishaps>>

SaveAddress(r) ==
  LET q   == request[r]
      row == [q.user EXCEPT !.address = q.arg, !.confirmed = FALSE,
                            !.seal = q.user.seal + 1, !.gen = q.user.gen + 1,
                            !.status = IF q.user.status = "email_verified" THEN "registered"
                                                                           ELSE q.user.status]
  IN  /\ At(r, "address")
      /\ \/ Save(r, row, [q EXCEPT !.at = "push", !.user = row]) /\ links' = {}
         \/ ~q.fresh /\ Finish(r) /\ UNCHANGED <<account, links>>
      /\ UNCHANGED <<role, tokens, chat, grant, mishaps>>

----------------------------------------------------------------------------
(* The admin page.                                                         *)

\* Approve and Reject, for an account that waits; Disable; Enable.
SetStatus(r, op, status) ==
  /\ \/ op = "status" /\ status \in {"active", "rejected"}
        /\ account # None /\ account.status = "email_verified"
     \/ op = "status" /\ status = "disabled"
     \/ op = "enable" /\ status = "active"
  /\ Load(r, op, "status", status)
  /\ UNCHANGED <<account, role, tokens, links, chat, grant, mishaps>>

\* SetStatusAsync: the result of the save is not looked at, and the copy's
\* status is pushed.
SaveStatus(r) ==
  LET q   == request[r]
      row == [q.user EXCEPT !.status = q.arg]
      on  == [q EXCEPT !.at = "push", !.user = row]
  IN  /\ At(r, "status")
      /\ \/ Save(r, row, on) /\ UNCHANGED mishaps
         \/ ~q.fresh /\ Continue(r, on) /\ UNCHANGED account
              /\ mishaps' = mishaps \cup {"unsaved"}
      /\ UNCHANGED <<role, tokens, links, chat, grant>>

\* What follows the push: nothing, a mail, or the answer.
AfterPush(q) ==
  CASE q.op = "address" -> [q EXCEPT !.at = "mail"]
    [] q.op = "link"    -> [q EXCEPT !.at = "answer"]
    [] OTHER            -> Free

\* admin_set_account_access: the floor only rises; no row, nothing to do.
SetAccountAccess(row) ==
  chat' = IF chat = None THEN None
          ELSE [chat EXCEPT !.suspended = Suspended(row),
                            !.floor = IF chat.floor < row.gen THEN row.gen ELSE chat.floor]

\* PushAsync: a failure is logged and swallowed.
PushAccess(r, fails) ==
  LET row == request[r].user
  IN  /\ At(r, "push")
      /\ IF fails THEN UNCHANGED chat ELSE SetAccountAccess(row)
      /\ mishaps' = mishaps \cup
           IF fails THEN {"unpushed"}
           ELSE {m \in {"norow", "stale"} :
                   IF m = "norow" THEN chat = None
                   ELSE account # None /\ Suspended(row) # Suspended(account)}
      /\ Continue(r, AfterPush(request[r]))
      /\ UNCHANGED <<account, role, tokens, links, grant>>

----------------------------------------------------------------------------
(* AdminRoleService.SetAsync: the role in core-api, then the flag in the   *)
(* chat database; if that cannot be confirmed, the role back and the flag  *)
(* again.                                                                  *)

SetRole(r, want) ==
  /\ Load(r, "role", IF role = want THEN "resync" ELSE "role", want)
  /\ UNCHANGED <<account, role, tokens, links, chat, grant, mishaps>>

\* AddToRoleAsync, RemoveFromRoleAsync: they save the row too.
SaveRole(r) ==
  LET q == request[r]
  IN  /\ At(r, "role")
      /\ \/ Save(r, account, [q EXCEPT !.at = "sync"]) /\ role' = q.arg
         \/ ~q.fresh /\ Finish(r) /\ UNCHANGED <<account, role>>
      /\ UNCHANGED <<tokens, links, chat, grant, mishaps>>

\* set_user_admin: the flag of the row, or a grant that waits for it.
SetUserAdmin(isAdmin) ==
  IF chat = None THEN grant' = isAdmin /\ UNCHANGED chat
  ELSE chat' = [chat EXCEPT !.admin = isAdmin] /\ UNCHANGED grant

\* One call of it: carried out or not, answered or not.
PushRole(isAdmin, carriedOut, also) ==
  /\ IF carriedOut THEN SetUserAdmin(isAdmin) ELSE UNCHANGED <<chat, grant>>
  /\ mishaps' = mishaps \cup also \cup IF carriedOut /\ isAdmin # role THEN {"crossed"} ELSE {}

SyncRole(r, carriedOut, answered) ==
  LET q == request[r]
  IN  /\ q.at \in {"sync", "resync"} /\ (answered => carriedOut)
      /\ PushRole(q.arg, carriedOut, {})
      /\ Continue(r, IF answered \/ At(r, "resync") THEN Free ELSE [q EXCEPT !.at = "rollback"])
      /\ UNCHANGED <<account, role, tokens, links>>

\* The rollback ends the request.
RollBackOnly(r) ==
  LET q == request[r]
  IN  /\ At(r, "rollback")
      /\ \/ Save(r, account, Free) /\ role' = ~q.arg /\ UNCHANGED mishaps
         \/ ~q.fresh /\ Finish(r) /\ UNCHANGED <<account, role>>
              /\ mishaps' = mishaps \cup {"manual"}
      /\ UNCHANGED <<tokens, links, chat, grant>>

RollBackRole(r) ==
  LET q == request[r]
  IN  /\ At(r, "rollback")
      /\ \/ Save(r, account, [q EXCEPT !.at = "restore"]) /\ role' = ~q.arg /\ UNCHANGED mishaps
         \/ ~q.fresh /\ Finish(r) /\ UNCHANGED <<account, role>>
              /\ mishaps' = mishaps \cup {"manual"}
      /\ UNCHANGED <<tokens, links, chat, grant>>

RestoreFlag(r, carriedOut, answered) ==
  /\ At(r, "restore") /\ (answered => carriedOut)
  /\ PushRole(~request[r].arg, carriedOut, IF carriedOut THEN {} ELSE {"manual"})
  /\ Finish(r)
  /\ UNCHANGED <<account, role, tokens, links>>

\* SyncAdminFlagBestEffort at a sign-in.
SyncAdminFlag(r, carriedOut) ==
  /\ At(r, "flag")
  /\ PushRole(TRUE, carriedOut, {})
  /\ Continue(r, [request[r] EXCEPT !.at = "answer"])
  /\ UNCHANGED <<account, role, tokens, links>>

----------------------------------------------------------------------------
(* The chat database, and a restart of core-api.                           *)

\* register_user: any token of the issuer; a waiting grant is consumed.
RegisterUser ==
  /\ tokens # {} /\ chat = None
  /\ chat' = [suspended |-> FALSE, floor |-> 0, admin |-> grant]
  /\ grant' = FALSE
  /\ UNCHANGED <<account, role, request, tokens, links, mishaps>>

\* What a stop leaves undone.
Undone(q) ==
  CASE q.at = "bump" -> {"unsaved"}
    [] q.at = "push" -> {"unpushed"}
    [] q.at \in {"sync", "rollback", "restore"} -> {"manual"}
    [] OTHER -> {}

CoreApiStops ==
  /\ \E r \in Requests : request[r] # Free
  /\ request' = [r \in Requests |-> Free]
  /\ mishaps' = mishaps \cup UNION {Undone(request[r]) : r \in Requests}
  /\ UNCHANGED <<account, role, tokens, links, chat, grant>>

Init ==
  /\ account = None /\ role = FALSE
  /\ request = [r \in Requests |-> Free]
  /\ tokens = {} /\ links = {}
  /\ chat = None /\ grant = FALSE
  /\ mishaps = {}

Handler(r) ==
  \/ \E a \in Addresses, yes \in BOOLEAN : Register(r, a, yes) \/ CreateUser(r, a, yes)
  \/ \E a \in Addresses : ChangeAddress(r, a)
  \/ \E l \in links : ConfirmEmail(r, l)
  \/ \E t \in tokens : RenewSession(r, t) \/ \E yes \in BOOLEAN : ChangePassword(r, t, yes)
  \/ ResendConfirmation(r) \/ ResetPassword(r) \/ Login(r)
  \/ \E op \in {"status", "enable"}, status \in Statuses : SetStatus(r, op, status)
  \/ \E want \in BOOLEAN : SetRole(r, want)

Await(r) ==
  \/ MailSent(r) \/ MailFails(r) \/ Answer(r)
  \/ SaveConfirmed(r) \/ SavePassword(r) \/ RevokeTokens(r) \/ SaveAddress(r) \/ SaveStatus(r)
  \/ SaveRole(r) \/ RollBackRole(r)
  \/ \E yes \in BOOLEAN : Advance(r, yes) \/ PushAccess(r, yes) \/ SyncAdminFlag(r, yes)
  \/ \E done, answered \in BOOLEAN : SyncRole(r, done, answered) \/ RestoreFlag(r, done, answered)

Next ==
  \/ \E r \in Requests : Handler(r) \/ Await(r)
  \/ LoginFails
  \/ RegisterUser
  \/ CoreApiStops

Spec == Init /\ [][Next]_vars

----------------------------------------------------------------------------
(* Properties.                                                             *)

Settled == \A r \in Requests : request[r] = Free

\* The chat database never asks for a generation that core-api has not
\* saved: a user who signs in again is let in (AccountAccessService.cs,
\* RevokeTokensAsync).
FloorNeverAhead == chat # None => account # None /\ chat.floor <= account.gen

\* Once a password change is through, the tokens core-api accepts were
\* obtained with the password in use (AuthEndpoints.cs, ResetPassword).
OnlyCurrentPassword ==
  "unsaved" \notin mishaps /\ (\A r \in Requests : ~At(r, "bump"))
    => \A t \in tokens : Resolves(t) => t.pw = account.pw

\* The Admin role and the module's flag, or the grant that waits for the
\* row, agree whenever no change of them is under way, whatever answers the
\* chat database failed to give (AdminRoleService.cs, SetAsync).
AdminInStep ==
  Settled /\ mishaps \cap {"manual", "crossed"} = {}
    => role = IF chat = None THEN grant ELSE chat.admin

=============================================================================
