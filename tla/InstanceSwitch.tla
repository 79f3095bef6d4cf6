---------------------------- MODULE InstanceSwitch ----------------------------
(***************************************************************************)
(* Which instance the client talks to: the stored server configuration,    *)
(* the known hosts with the addresses they were last seen under, the       *)
(* confirmation dialog, and the ways a configuration comes in: typed,      *)
(* picked, pasted, by a deep link or a join page, or found by the hosted   *)
(* web build.  Changing it does not touch the connection, the tokens or    *)
(* the requests of the instance before; they follow, or not, later.        *)
(***************************************************************************)
EXTENDS Naturals, FiniteSets

CONSTANTS Hosts, Ends, Nowhere,
          Loopback,   \* the addresses that are names of one local machine
          Configs     \* the configurations that are typed, linked or discovered

ASSUME InstanceAssumption ==
  /\ Nowhere \notin Hosts \cup Ends /\ Loopback \subseteq Ends
  /\ Configs \subseteq [host : Hosts, at : Ends]

VARIABLES
  hosted,   \* a web build that is locked to its deployment?
  boot,     \* useWebAutoConfig's status
  config,   \* serverConfigStore: the host and its address
  known,    \* serverConfigStore: the address pinned for a host
  asking,   \* the configuration that waits for HostConfirmDialog
  home,     \* localStorage: the host whose core-api session is stored
  chat,     \* localStorage: the host whose chat token is stored
  socket,   \* the connection, live or lost: its host
  dialled,  \* connect()'s snapshot of the configuration
  member,   \* is there a signed-in user?
  login,    \* the host a login request is under way to
  agreed,   \* the configurations the user typed, accepted or deployed
  busy,     \* does the tab of the setup page say that it is connecting?
  carried   \* tokens of one host were kept for another

instanceVars == <<hosted, boot, config, known, asking, home, chat, socket, dialled,
                  member, login, agreed, busy, carried>>
choice == <<config, known, home, busy>>
connection == <<socket, dialled, member, chat>>

None == [host |-> Nowhere, at |-> Nowhere]
NoSocket == [host |-> Nowhere, live |-> FALSE]

InstanceInit ==
  /\ hosted \in BOOLEAN /\ boot = IF hosted THEN "discovering" ELSE "inactive"
  /\ config = None /\ known = [h \in Hosts |-> Nowhere] /\ asking = None
  /\ home = Nowhere /\ chat = Nowhere /\ socket = NoSocket /\ dialled = None
  /\ member = FALSE /\ login = Nowhere /\ agreed = {} /\ busy = FALSE /\ carried = FALSE

\* What a discovery document or a join link may say: the addresses of a host are its
\* own to change.  An incomplete document is an error and says nothing.
Discoverable == Configs

-----------------------------------------------------------------------------
(* serverConfigStore *)

\* Mutant: the session stays.
SetConfigKeepingSession(c) ==
  /\ config' = c
  /\ known' = [known EXCEPT ![c.host] = c.at]
  /\ busy' = FALSE
  /\ UNCHANGED home

SetConfig(c) ==
  /\ config' = c
  /\ known' = [known EXCEPT ![c.host] = c.at]
  /\ busy' = FALSE
  /\ home' = IF config # None /\ config.host # c.host THEN Nowhere ELSE home

\* initializeSpacetime: connect() returns at once when there is a live connection,
\* and joins the attempt that is being made.
Initialize ==
  /\ dialled' = IF (socket.live /\ socket.host # Nowhere) \/ dialled # None THEN dialled ELSE config'
  /\ UNCHANGED <<socket, member, chat>>

\* requestConnect: a known host that has moved, or an unknown one from a link.
MustAsk(c, fromLink) ==
  \/ known[c.host] \notin {Nowhere, c.at}
  \/ known[c.host] = Nowhere /\ fromLink

RequestConnect(c, fromLink, tab) ==
  /\ IF MustAsk(c, fromLink) THEN asking' = c /\ busy' = tab /\ UNCHANGED <<config, known, home, connection>>
     ELSE SetConfig(c) /\ Initialize /\ UNCHANGED asking
  /\ UNCHANGED <<hosted, boot, login, carried>>

-----------------------------------------------------------------------------
(* Where configurations come from *)

OnSetup == config = None /\ ~hosted

\* The user connects to a configuration in front of him.
Chosen(c, tab) ==
  /\ RequestConnect(c, FALSE, tab)
  /\ agreed' = IF known[c.host] \in {Nowhere, c.at} THEN agreed \cup {c} ELSE agreed

\* The tab is busy until an error; a dialog that is cancelled is none.
Connect(c) ==
  /\ OnSetup /\ ~busy
  /\ Chosen(c, TRUE)

Picked(h) ==
  /\ OnSetup /\ known[h] # Nowhere
  /\ Chosen([host |-> h, at |-> known[h]], busy)

TurnTab ==
  /\ OnSetup /\ busy
  /\ busy' = FALSE
  /\ UNCHANGED <<hosted, boot, config, known, home, asking, connection, login, agreed, carried>>

\* A deep link of the desktop app, cold or warm.
DeepLink(c) ==
  /\ ~hosted /\ c # config
  /\ RequestConnect(c, TRUE, busy)
  /\ UNCHANGED agreed

\* The join page of a web build; the hosted one shows it once it is configured.
WebJoin(c) ==
  /\ hosted => config # None
  /\ RequestConnect(c, TRUE, busy)
  /\ UNCHANGED agreed

ResolvePendingHost(accept) ==
  /\ asking # None
  /\ asking' = None
  /\ IF accept THEN SetConfig(asking) /\ Initialize /\ agreed' = agreed \cup {asking}
     ELSE UNCHANGED <<choice, connection, agreed>>
  /\ UNCHANGED <<hosted, boot, login, carried>>

\* The hosted build finds its own instance, unless a configuration is stored.
Bootstrap(c) ==
  /\ boot = "discovering"
  /\ \/ /\ config # None /\ boot' = "done"
        /\ UNCHANGED <<choice, connection, agreed>>
     \/ /\ config = None /\ SetConfig(c) /\ Initialize
        /\ boot' = "done" /\ agreed' = agreed \cup {c}
     \/ /\ config = None /\ boot' = "failed"
        /\ UNCHANGED <<choice, connection, agreed>>
  /\ UNCHANGED <<hosted, asking, login, carried>>

\* A page load: what is persisted stays, and connects when there is a configuration.
Load(c) ==
  /\ boot' = IF hosted THEN "discovering" ELSE "inactive"
  /\ asking' = None /\ socket' = NoSocket /\ member' = FALSE /\ login' = Nowhere
  /\ dialled' = c
  /\ UNCHANGED chat

ReloadClient ==
  /\ Load(config)
  /\ busy' = FALSE
  /\ UNCHANGED <<hosted, config, known, home, agreed, carried>>

\* ConnectionTab, in the settings and on the sign-in screen: another known server,
\* with a full reload.
SwitchTo(h) ==
  /\ ~hosted /\ config # None /\ known[h] # Nowhere /\ h # config.host
  /\ SetConfig([host |-> h, at |-> known[h]])
  /\ Load([host |-> h, at |-> known[h]])
  /\ UNCHANGED <<hosted, agreed, carried>>

\* "Change server", of ConnectionTab and of the error screen, which the hosted
\* build has too: clearConfig remembers the host and leaves all else alone.
ChangeServer ==
  /\ config # None
  /\ hosted => ~member /\ dialled = None /\ ~socket.live
  /\ config' = None /\ known' = [known EXCEPT ![config.host] = config.at]
  /\ carried' = (carried \/ home # Nowhere)
  /\ UNCHANGED <<hosted, boot, asking, home, connection, login, agreed, busy>>

ForgetHost(h) ==
  /\ OnSetup /\ known[h] # Nowhere
  /\ known' = [known EXCEPT ![h] = Nowhere]
  /\ UNCHANGED <<hosted, boot, config, asking, home, connection, login, agreed, busy, carried>>

-----------------------------------------------------------------------------
(* The connection and the tokens *)

\* An address, and the other names of a loopback one.
Candidates(at) == {at} \cup (IF at \in Loopback THEN Loopback ELSE {})

\* connect() writes the candidate that answered to the configuration, if that still
\* has the address it started from.
Opens(at) ==
  /\ dialled # None /\ at \in Candidates(dialled.at)
  /\ socket' = [host |-> dialled.host, live |-> TRUE]
  /\ chat' = IF chat = Nowhere THEN dialled.host ELSE chat
  /\ member' \in {member, chat = dialled.host}
  /\ dialled' = None
  /\ IF at # dialled.at /\ config.at = dialled.at THEN SetConfig([config EXCEPT !.at = at])
     ELSE UNCHANGED choice
  /\ UNCHANGED <<hosted, boot, asking, login, agreed, carried>>

Fails ==
  /\ dialled # None
  /\ dialled' = None
  /\ \/ UNCHANGED <<socket, member, chat, home>>
     \/ /\ chat # Nowhere             \* the token is refused: the session ends
        /\ chat' = Nowhere /\ home' = Nowhere
        /\ socket' = NoSocket /\ member' = FALSE
  /\ UNCHANGED <<hosted, boot, config, known, asking, login, agreed, busy, carried>>

Drops ==
  /\ socket.live
  /\ socket' = [socket EXCEPT !.live = FALSE]
  /\ UNCHANGED <<hosted, boot, choice, asking, dialled, member, chat, login, agreed, carried>>

\* The backoff timer and call() connect with the configuration of the moment.
Redial ==
  /\ ~socket.live /\ dialled = None /\ config # None
  /\ dialled' = config
  /\ UNCHANGED <<hosted, boot, choice, asking, socket, member, chat, login, agreed, carried>>

Login ==
  /\ config # None /\ ~member /\ login = Nowhere
  /\ login' = config.host
  /\ UNCHANGED <<hosted, boot, choice, asking, connection, agreed, carried>>

\* The answer stores the tokens of the host that was asked, whichever is configured
\* by now, and connects to that one.
LoginReturns ==
  /\ login # Nowhere
  /\ login' = Nowhere
  /\ \/ UNCHANGED <<connection, home, carried>>
     \/ /\ home' = login /\ chat' = login
        /\ carried' = (carried \/ config = None \/ config.host # login)
        /\ socket' = NoSocket /\ member' = FALSE /\ dialled' = config
  /\ UNCHANGED <<hosted, boot, config, known, asking, agreed, busy>>

SignOutOfHost ==
  /\ member
  /\ home' = Nowhere /\ chat' = Nowhere /\ socket' = NoSocket /\ dialled' = None /\ member' = FALSE
  /\ carried' = FALSE
  /\ UNCHANGED <<hosted, boot, config, known, asking, login, agreed, busy>>

InstanceNext ==
  \/ \E c \in Discoverable : Connect(c) \/ DeepLink(c) \/ WebJoin(c) \/ Bootstrap(c)
  \/ \E accept \in BOOLEAN : ResolvePendingHost(accept)
  \/ \E h \in Hosts : Picked(h) \/ SwitchTo(h) \/ ForgetHost(h)
  \/ \E at \in Ends : Opens(at)
  \/ TurnTab \/ ReloadClient \/ ChangeServer \/ Fails \/ Drops \/ Redial \/ Login \/ LoginReturns \/ SignOutOfHost

InstanceSpec == InstanceInit /\ [][InstanceNext]_instanceVars

-----------------------------------------------------------------------------
(* Properties *)

\* No address is followed that the user did not choose for its host: every pinned
\* address was typed, accepted in the dialog or deployed, or is another name of the
\* local machine that was.  Links cannot change it, and neither can a host that
\* advertises another address than before.
PinsWereAgreed ==
  \A h \in Hosts : known[h] # Nowhere =>
    \E c \in agreed : c.host = h /\ known[h] \in Candidates(c.at)

\* The stored session belongs to the configured host, except when "Change server" or
\* a login that was answered after the change carried it to another.
SessionStaysHome == config # None /\ home # Nowhere => home = config.host \/ carried

\* The address in use is the pinned one, so that the next discovery of the host is
\* compared with what the client really connects to.
PinIsCurrent == config # None => known[config.host] = config.at
=============================================================================
