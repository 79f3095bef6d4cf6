-------------------------------- MODULE SignIn --------------------------------
(***************************************************************************)
(* The sign-in screen of the client: the credentials form, the             *)
(* registration that waits for its address to be confirmed, the poll that  *)
(* finishes it, the correction of its address, and loginWithPassword,      *)
(* which all of them end in.  None of these flows is cancelled when the    *)
(* user leaves the view that started it, so they overlap; what they share  *)
(* is one persisted slot, two stored tokens and one connection.            *)
(* The connection itself is ClientConnection's; here an attempt opens,     *)
(* fails, or is abandoned by a disconnect.                                 *)
(***************************************************************************)
EXTENDS Naturals, FiniteSets, Sequences

CONSTANTS Accounts, Nobody, Anonymous,
          MaxFlows     \* asynchronous flows at a time

ASSUME SignInAssumption ==
  /\ Nobody \notin Accounts /\ Anonymous \notin Accounts /\ Nobody # Anonymous
  /\ MaxFlows \in Nat

VARIABLES
  required, \* does the instance ask for a confirmed address?
  status,   \* core-api: the accounts' status
  named,    \* chat database: the username registered for an identity
  page,     \* AuthPage's state, while nobody is signed in
  slot,     \* localStorage: the pending registration
  session,  \* localStorage: whose core-api session
  token,    \* localStorage: whose chat token
  link,     \* the connection: whose identity, are its rows applied?
  user,     \* selfStore: the signed-in user
  flows,    \* running submits, polls, corrections and the connect of a start
  early     \* a registration's session was stored beside another account's token

signInVars == <<required, status, named, page, slot, session, token, link, user, flows, early>>
server == <<required, status, named>>
kept == <<slot, session, token>>

Down == [who |-> Nobody, synced |-> FALSE]

\* AuthPage as it mounts: readPendingRegistration, everything else empty.
Fresh(pending) == [view |-> "credentials", pending |-> pending, confirmed |-> FALSE,
                   password |-> Nobody, notice |-> FALSE]

FormShown(p, u) == u = Nobody /\ p.pending = Nobody /\ ~p.notice /\ p.view = "credentials"
FormBusy == \E f \in flows : f.of = "form" /\ f.view
PollBusy == \E f \in flows : f.of = "poll" /\ f.page

SignInInit ==
  /\ required \in BOOLEAN
  /\ status = [a \in Accounts |-> "none"] /\ named = [i \in Accounts |-> Nobody]
  /\ slot = Nobody /\ session = Nobody /\ token = Nobody
  /\ link = Down /\ user = Nobody /\ page = Fresh(Nobody)
  /\ flows = {} /\ early = FALSE

-----------------------------------------------------------------------------
(* Flows and the views they were started from *)

\* view: is the form that started the flow still mounted?  page: is AuthPage?
\* cancelled: has the poll's effect been cleaned up?  stale: was the attempt
\* it waits for abandoned by a disconnect?
Flow(of, who, pc, password) ==
  [of |-> of, who |-> who, pc |-> pc, password |-> password, on |-> Nobody,
   view |-> of = "form", page |-> of # "start", cancelled |-> FALSE, stale |-> FALSE]

Watched(p) == <<p.pending, p.confirmed, p.password>>

\* The flows once the page is p and the user u.
SeenFlow(f, p, u) ==
  [f EXCEPT !.view = f.view /\ FormShown(p, u), !.page = f.page /\ u = Nobody,
            !.cancelled = f.cancelled \/ u # Nobody \/ Watched(p) # Watched(page)]

Seen(fs, p, u) == {SeenFlow(f, p, u) : f \in fs}

Show(p, fs) == page' = p /\ flows' = Seen(fs, p, user) /\ UNCHANGED user

\* The routes follow the user: AuthPage leaves when there is one, and mounts anew
\* when there is none any more.
SetUser(u, fs) ==
  /\ user' = u
  /\ IF u = user THEN page' = page /\ flows' = fs
     ELSE page' = Fresh(IF u = Nobody THEN slot' ELSE Nobody) /\ flows' = Seen(fs, page', u)

Abandoned(fs) == {[f EXCEPT !.stale = f.stale \/ f.pc = "connect"] : f \in fs}

\* Mutant: the stores of the session that ends keep their user.
DisconnectKeepingUser(fs, starting) ==
  /\ link' = Down /\ UNCHANGED <<user, page>>
  /\ flows' = Abandoned(fs) \cup starting

\* disconnect(): the stores are reset, running attempts are abandoned; starting is
\* the flow that begins the next one.
Disconnect(fs, starting) ==
  /\ link' = Down
  /\ SetUser(Nobody, Abandoned(fs) \cup starting)

\* clearPendingRegistration, whoever's registration is in the slot.
ClearPending == slot' = Nobody
KeepPending == UNCHANGED slot

\* An error ends a flow.  The form reports one of the blocked kinds to the page, a
\* poll falls back to the "ready to sign in" screen.
Shown(f, blocked) ==
  CASE f.of = "form" /\ f.page /\ blocked        -> [page EXCEPT !.notice = TRUE]
    [] f.of = "poll" /\ ~f.cancelled             -> [page EXCEPT !.confirmed = TRUE]
    [] OTHER                                     -> page

Errs(f, blocked) == Show(Shown(f, blocked), flows \ {f})

-----------------------------------------------------------------------------
(* The form, the poll and the corrections *)

Submit(x, pc) ==
  /\ FormShown(page, user) /\ ~FormBusy /\ Cardinality(flows) < MaxFlows
  /\ ~\E f \in flows : f.pc = pc         \* postJson: one request per path
  /\ \E password \in {x, Nobody} :
       flows' = flows \cup {Flow("form", x, pc, password)}
  /\ UNCHANGED <<server, page, kept, link, user, early>>

\* A flow that goes on to /auth/login, which refuses a second request; fs are the
\* others.
ToLogin(f, fs) ==
  IF \E g \in fs : g.pc = "login" THEN Show(Shown(f, FALSE), fs)
  ELSE flows' = fs \cup {[f EXCEPT !.pc = "login"]} /\ UNCHANGED <<page, user>>

\* persistPendingRegistration and the page's setters, which a page that has been
\* left no longer shows.
Pend(x, password, f, fs) ==
  /\ slot' = x
  /\ IF f.page THEN Show([page EXCEPT !.pending = x, !.confirmed = f.of # "form" /\ page.confirmed,
                                      !.password = IF f.of = "form" THEN password ELSE page.password], fs)
     ELSE flows' = fs /\ UNCHANGED <<page, user>>

RegisterAnswered(f) ==
  LET x == f.who
      rest == flows \ {f}
  IN  /\ f.pc = "register"
      /\ \/ /\ status[x] = "none" /\ required
            /\ status' = [status EXCEPT ![x] = "registered"]
            /\ Pend(x, x, f, rest)
            /\ UNCHANGED <<session, early>>
         \/ /\ status[x] = "none" /\ ~required
            /\ status' = [status EXCEPT ![x] = "active"]
            /\ session' = x
            /\ early' = (early \/ token \notin {Nobody, x})
            /\ ToLogin([f EXCEPT !.password = x], rest)
            /\ KeepPending
         \/ /\ status' \in {status, [status EXCEPT ![x] = IF @ # "none" THEN @ ELSE
                                      IF required THEN "registered" ELSE "active"]}
            /\ Errs(f, FALSE)
            /\ KeepPending /\ UNCHANGED <<session, early>>
  /\ UNCHANGED <<required, named, token, link>>

PollTick ==
  /\ user = Nobody /\ page.pending # Nobody /\ ~page.confirmed /\ ~PollBusy
  /\ Cardinality(flows) < MaxFlows
  /\ flows' = flows \cup {Flow("poll", page.pending, "status", page.password)}
  /\ UNCHANGED <<server, page, kept, link, user, early>>

StatusActive(f) ==
  /\ IF f.password # Nobody THEN ToLogin(f, flows \ {f}) ELSE Errs(f, FALSE)
  /\ KeepPending

StatusAnswered(f) ==
  /\ f.pc = "status"
  /\ CASE f.cancelled \/ status[f.who] \in {"none", "registered"} ->
            Show(page, flows \ {f}) /\ KeepPending
       [] status[f.who] = "active" /\ ~f.cancelled -> StatusActive(f)
       [] OTHER ->
            /\ ClearPending
            /\ Show([page EXCEPT !.pending = Nobody, !.notice = TRUE], flows \ {f})
  /\ UNCHANGED <<server, session, token, link, early>>

StatusUnknown(f) ==
  /\ f.pc = "status"
  /\ Show(page, flows \ {f})
  /\ UNCHANGED <<server, kept, link, early>>

\* The address is corrected from the pending screen, which the user may leave
\* meanwhile; the answer stores and shows the registration again.
StartCorrection ==
  /\ user = Nobody /\ page.pending # Nobody /\ ~page.confirmed /\ Cardinality(flows) < MaxFlows
  /\ ~\E f \in flows : f.of = "correct"
  /\ flows' = flows \cup {Flow("correct", page.pending, "correct", Nobody)}
  /\ UNCHANGED <<server, page, kept, link, user, early>>

CorrectionAnswered(f) ==
  /\ f.pc = "correct"
  /\ \/ /\ status[f.who] = "registered"
        /\ Pend(f.who, Nobody, f, {[g EXCEPT !.cancelled = TRUE] : g \in flows \ {f}})
     \/ Show(page, flows \ {f}) /\ KeepPending
  /\ UNCHANGED <<server, session, token, link, early>>

-----------------------------------------------------------------------------
(* loginWithPassword *)

Blocked(x) == status[x] \in {"registered", "email_verified"}

\* One answer, one step: the session is stored, the old connection torn down and
\* the connect with the new token begun.
LoginAnswered(f) ==
  /\ f.pc = "login"
  /\ \/ /\ status[f.who] = "active" /\ f.password = f.who
        /\ session' = f.who /\ token' = f.who
        /\ UNCHANGED slot
        /\ Disconnect(flows \ {f}, {[f EXCEPT !.pc = "connect"]})
     \/ Errs(f, f.password = f.who /\ Blocked(f.who)) /\ UNCHANGED <<kept, link>>
  /\ UNCHANGED <<server, early>>

\* The end of a sign-in, when there is a user row.
SignedIn(f, fs) ==
  IF f.of = "start" THEN KeepPending /\ SetUser(link'.who, fs)
  ELSE ClearPending /\ SetUser(link'.who, fs)

\* ensureAuthenticatedUserRow: take the row or ask for one.
TakeRow(f, i) ==
  IF link'.synced /\ named[i] # Nobody THEN SignedIn(f, flows \ {f})
  ELSE IF f.of = "start" THEN flows' = flows \ {f} /\ UNCHANGED <<page, user>> /\ KeepPending
  ELSE /\ flows' = (flows \ {f}) \cup {[f EXCEPT !.pc = "profile", !.stale = FALSE, !.on = i]}
       /\ UNCHANGED <<page, user>> /\ KeepPending

\* onConnect: the identity is known before the rows are.
SocketOpens(f) ==
  /\ f.pc = "connect" /\ ~f.stale /\ link = Down
  /\ link' = [who |-> f.who, synced |-> FALSE]
  /\ token' = f.who
  /\ UNCHANGED <<server, page, slot, session, user, flows, early>>

RowsApplied(f) ==
  /\ f.pc = "connect" /\ ~f.stale /\ link = [who |-> f.who, synced |-> FALSE]
  /\ link' = [link EXCEPT !.synced = TRUE]
  /\ IF f.who = Anonymous THEN flows' = flows \ {f} /\ UNCHANGED <<page, user>> /\ KeepPending
     ELSE TakeRow(f, f.who)
  /\ UNCHANGED <<server, session, token, early>>

\* Every candidate failed; a token the module refuses ends the session as well.
ConnectFails(f) ==
  /\ f.pc = "connect" /\ ~f.stale
  /\ link' = Down
  /\ \/ token' = (IF f.of = "start" THEN token ELSE Nobody) /\ UNCHANGED session
     \/ token' = Nobody /\ session' = Nobody
  /\ Errs(f, FALSE)
  /\ UNCHANGED <<server, slot, early>>

\* The identity check after connect().
Admitted(f) == link.who = f.who

\* An abandoned connect() returns without a word; the flow goes on to its check,
\* and tears down the connection another flow is making.
AbandonedReturns(f) ==
  /\ f.pc = "connect" /\ f.stale
  /\ IF f.of = "start" THEN flows' = flows \ {f} /\ UNCHANGED <<page, user, link, token>> /\ KeepPending
     ELSE IF Admitted(f) THEN UNCHANGED <<link, token>> /\ TakeRow(f, link.who)
     ELSE /\ token' = Nobody /\ KeepPending
          /\ link' = Down
          /\ IF user = Nobody
               THEN /\ page' = Shown(f, FALSE) /\ UNCHANGED user
                    /\ flows' = Seen(Abandoned(flows \ {f}), page', user)
               ELSE Disconnect(flows \ {f}, {})
  /\ UNCHANGED <<server, session, early>>

\* registerUser runs for the identity of the connection it was sent on, perhaps
\* without an answer; an answer comes behind the rows of the subscription.
ProfileAnswered(f) ==
  LET registered == [named EXCEPT ![f.on] = IF named[f.on] = Nobody THEN f.who ELSE named[f.on]]
  IN  /\ f.pc = "profile"
      /\ \/ /\ link = [who |-> f.on, synced |-> TRUE]
            /\ named' = registered
            /\ UNCHANGED link
            /\ SignedIn(f, flows \ {f})
         \/ /\ named' \in {named, registered}
            /\ Errs(f, FALSE) /\ KeepPending /\ UNCHANGED link
      /\ UNCHANGED <<required, status, session, token, early>>

-----------------------------------------------------------------------------
(* The user, the administrator, the reload *)

BackToSignIn ==
  /\ user = Nobody /\ page.pending # Nobody
  /\ slot' = Nobody
  /\ Show(Fresh(Nobody), flows)
  /\ UNCHANGED <<server, session, token, link, early>>

TurnPage ==
  /\ user = Nobody /\ page.pending = Nobody
  /\ \E p \in {[page EXCEPT !.notice = FALSE]} \cup
              (IF page.notice THEN {} ELSE {[page EXCEPT !.view = IF page.view = "forgot" THEN "credentials" ELSE "forgot"]}) :
       p # page /\ Show(p, flows)
  /\ UNCHANGED <<server, kept, link, early>>

Administer(x) ==
  /\ \/ status[x] = "registered" /\ status' \in {[status EXCEPT ![x] = s] : s \in {"active", "email_verified"}}
     \/ status[x] = "email_verified" /\ status' \in {[status EXCEPT ![x] = s] : s \in {"active", "disabled"}}
  /\ UNCHANGED <<required, named, page, kept, link, user, flows, early>>

SignOut ==
  /\ user # Nobody
  /\ token' = Nobody /\ session' = Nobody /\ UNCHANGED slot
  /\ Disconnect(flows, {})
  /\ early' = FALSE
  /\ UNCHANGED server

\* A reload forgets every flow and connects with the stored token, or none.
Reload ==
  /\ link' = Down /\ user' = Nobody /\ page' = Fresh(slot)
  /\ flows' = {Flow("start", IF token = Nobody THEN Anonymous ELSE token, "connect", Nobody)}
  /\ UNCHANGED <<server, kept, early>>

Continue(f) ==
  \/ RegisterAnswered(f) \/ StatusAnswered(f) \/ StatusUnknown(f) \/ CorrectionAnswered(f)
  \/ LoginAnswered(f) \/ SocketOpens(f) \/ RowsApplied(f) \/ ConnectFails(f)
  \/ AbandonedReturns(f) \/ ProfileAnswered(f)

SignInNext ==
  \/ \E x \in Accounts, pc \in {"register", "login"} : Submit(x, pc)
  \/ PollTick \/ StartCorrection \/ BackToSignIn \/ TurnPage \/ SignOut \/ Reload
  \/ \E x \in Accounts : Administer(x)
  \/ \E f \in flows : Continue(f)

SignInSpec == SignInInit /\ [][SignInNext]_signInVars

-----------------------------------------------------------------------------
(* Properties *)

SignInTypeOK ==
  /\ page.pending \in Accounts \cup {Nobody} /\ slot \in Accounts \cup {Nobody}
  /\ {session, user} \subseteq Accounts \cup {Nobody}
  /\ {token, link.who} \subseteq Accounts \cup {Nobody, Anonymous}
  /\ \A f \in flows : f.of \in {"form", "poll", "correct", "start"}

\* Whatever flows are under way, a signed-in user is the account of the connection, of
\* its token and of the core-api session, under the username it signed in with
\* (loginWithPassword's order of disconnect, token and identity check).
OneAccount ==
  user # Nobody =>
    /\ link = [who |-> user, synced |-> TRUE] /\ token = user
    /\ session = user \/ early
    /\ named[user] = user

-----------------------------------------------------------------------------
(***************************************************************************)
(* The pause between two confirmation mails.  Every tab that shows the     *)
(* pending account keeps the end of the pause in its state, and all share  *)
(* it through localStorage: a change is written by an effect after the     *)
(* render, and reaches the other tabs as a storage event, which makes them *)
(* write again.  Requests may take longer than the pause; renders, effects *)
(* and storage events do not.                                              *)
(***************************************************************************)

CONSTANTS Tabs, Pause, InitialPause, LastMoment,
          MaxWaiting  \* storage events on their way to a tab

ASSUME MailAssumption == {Pause, InitialPause, LastMoment, MaxWaiting} \subseteq Nat /\ InitialPause <= Pause

VARIABLES
  now, \* Date.now(), in units of which a pause has a few
  stored, \* localStorage: the end of the pause
  shared, \* localStorage: the end of the pause for corrections
  tab,    \* ConfirmationEmailActions of each tab
  inbox   \* storage events on their way to each tab

mailVars == <<now, stored, shared, tab, inbox>>

Closed == [open |-> FALSE, until |-> 0, drawn |-> FALSE, sending |-> FALSE, correcting |-> FALSE]

\* A registration of this device starts the first pause; the screen of a refused
\* sign-in shows without one.
MailInit ==
  /\ now = 1 /\ stored \in {0, 1 + InitialPause} /\ shared = 0
  /\ tab = [t \in Tabs |-> Closed] /\ inbox = [t \in Tabs |-> <<>>]

\* localStorage.setItem: the other tabs hear of a new value.
Write(t, v) ==
  /\ stored' = v
  /\ \A o \in Tabs : Len(inbox[o]) < MaxWaiting
  /\ inbox' = [o \in Tabs |-> IF o # t /\ v # stored THEN Append(inbox[o], v) ELSE inbox[o]]

\* startConfirmationCooldown, and setUntil in a tab that is still open.
StartPause(t, changed) ==
  /\ Write(t, now + Pause)
  /\ shared' = now + Pause
  /\ tab' = [tab EXCEPT ![t] = IF changed.open THEN [changed EXCEPT !.until = now + Pause, !.drawn = TRUE]
                               ELSE changed]

Open(t) ==
  /\ ~tab[t].open
  /\ tab' = [tab EXCEPT ![t] = [@ EXCEPT !.open = TRUE, !.drawn = TRUE, !.sending = FALSE,
                                  !.until = IF stored = 0 THEN now + InitialPause ELSE stored]]
  /\ UNCHANGED <<now, stored, shared, inbox>>

Close(t) ==
  /\ tab[t].open
  /\ tab' = [tab EXCEPT ![t] = [@ EXCEPT !.open = FALSE, !.drawn = FALSE]]
  /\ UNCHANGED <<now, stored, shared, inbox>>

\* The effect behind a render writes what the tab shows.
Effect(t) ==
  /\ tab[t].drawn
  /\ Write(t, tab[t].until)
  /\ tab' = [tab EXCEPT ![t].drawn = FALSE]
  /\ UNCHANGED <<now, shared>>

Heard(t, until) == IF t.open /\ t.until # until THEN [t EXCEPT !.until = until, !.drawn = TRUE] ELSE t

OnStorage(t) ==
  /\ inbox[t] # <<>>
  /\ inbox' = [inbox EXCEPT ![t] = Tail(@)]
  /\ tab' = [tab EXCEPT ![t] = Heard(@, Head(inbox[t]))]
  /\ UNCHANGED <<now, stored, shared>>

PauseOver(t) == tab[t].until <= now /\ stored <= now

Resend(t) ==
  /\ tab[t].open /\ ~tab[t].sending /\ ~tab[t].correcting
  /\ PauseOver(t)
  /\ StartPause(t, [tab[t] EXCEPT !.sending = TRUE])
  /\ UNCHANGED <<now>>

Answered(t) ==
  /\ tab[t].sending
  /\ tab' = [tab EXCEPT ![t].sending = FALSE]
  /\ UNCHANGED <<now, stored, shared, inbox>>

Correct(t) ==
  /\ tab[t].open /\ ~tab[t].sending /\ ~tab[t].correcting
  /\ shared <= now
  /\ tab' = [tab EXCEPT ![t].correcting = TRUE]
  /\ UNCHANGED <<now, stored, shared, inbox>>

\* The form may be gone when core-api has changed the address and mailed it.
Corrected(t) ==
  /\ tab[t].correcting
  /\ StartPause(t, [tab[t] EXCEPT !.correcting = FALSE])
  /\ UNCHANGED <<now>>

CorrectionFails(t) ==
  /\ tab[t].correcting
  /\ tab' = [tab EXCEPT ![t].correcting = FALSE]
  /\ UNCHANGED <<now, stored, shared, inbox>>

Quiet == \A t \in Tabs : ~tab[t].drawn /\ inbox[t] = <<>>

MomentPasses ==
  /\ now < LastMoment /\ Quiet
  /\ now' = now + 1
  /\ UNCHANGED <<stored, shared, tab, inbox>>

MailNext ==
  \/ \E t \in Tabs : Open(t) \/ Close(t) \/ Effect(t) \/ OnStorage(t) \/ Resend(t) \/ Answered(t)
                       \/ Correct(t) \/ Corrected(t) \/ CorrectionFails(t)
  \/ MomentPasses

MailSpec == MailInit /\ [][MailNext]_mailVars

-----------------------------------------------------------------------------
(* Properties *)

\* When the renders and storage events have settled every tab counts down to the
\* same moment.
TabsAgree == Quiet => \A t \in Tabs : tab[t].open => tab[t].until = stored

=============================================================================
