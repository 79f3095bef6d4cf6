----------------------------- MODULE ClientProofs -----------------------------
(***************************************************************************)
(* Proofs about the web client's own state: which instance it is for, when *)
(* it rings, what it counts as unread, whom its connection speaks for,     *)
(* when it may send another confirmation mail, and how its rail is laid    *)
(* out - for any instances, calls, messages, accounts, clocks and spaces.  *)
(***************************************************************************)
EXTENDS InstanceSwitch, IncomingRing, ReadMarks, SignIn, ServerRail,
        FiniteSetTheorems, SequenceTheorems, TLAPS

-----------------------------------------------------------------------------
(* The choice of the instance *)

Addressed == [host : Hosts, at : Ends]

SwitchTypeOK ==
  /\ config \in Addressed \cup {None} /\ dialled \in Addressed \cup {None}
  /\ asking \in Addressed \cup {None}
  /\ known \in [Hosts -> Ends \cup {Nowhere}]
  /\ home \in Hosts \cup {Nowhere} /\ login \in Hosts \cup {Nowhere}
  /\ agreed \subseteq Addressed

\* A session without a configuration was left by "Change server".
HomeOK == home # Nowhere => carried \/ (config # None /\ home = config.host)

SwitchInv == SwitchTypeOK /\ HomeOK /\ PinIsCurrent /\ PinsWereAgreed

\* The nowhere of None is no host and no address, so None is no configuration.
LEMMA NoneIsNoAddress == None \notin Addressed /\ None.host = Nowhere /\ None.at = Nowhere
BY InstanceAssumption DEF None, Addressed

LEMMA DiscoverableAreAddressed == Discoverable \subseteq Addressed
BY InstanceAssumption DEF Discoverable, Addressed

\* A candidate of a candidate is a candidate: the loopback names are all each
\* other's.
LEMMA CandidatesCompose ==
  ASSUME NEW a, NEW b \in Candidates(a), NEW c \in Candidates(b)
  PROVE c \in Candidates(a)
BY DEF Candidates

\* An address that was agreed, or is pinned already, may be configured.
Allowed(c) == \E d \in agreed' : d.host = c.host /\ c.at \in Candidates(d.at)

\* setConfig keeps the invariant when its address is allowed: it drops the session
\* of another host, and pins what it configures.
LEMMA SetConfigKeepsInv ==
  ASSUME SwitchInv, NEW c \in Addressed, SetConfig(c), agreed \subseteq agreed',
         agreed' \subseteq Addressed, Allowed(c), carried' = carried,
         dialled' \in Addressed \cup {None}, asking' \in Addressed \cup {None},
         login' \in Hosts \cup {Nowhere}
  PROVE SwitchInv'
<1> USE NoneIsNoAddress, InstanceAssumption
<1>t. /\ c.host \in Hosts /\ c.at \in Ends /\ c # None
      /\ config' = c /\ known' = [known EXCEPT ![c.host] = c.at]
  BY DEF SetConfig, Addressed
<1>1. SwitchTypeOK'
  BY <1>t DEF SwitchInv, SwitchTypeOK, SetConfig
<1>2. HomeOK'
  BY <1>t DEF SwitchInv, HomeOK, SetConfig
<1>3. PinIsCurrent'
  BY <1>t DEF SwitchInv, SwitchTypeOK, PinIsCurrent
<1>4. PinsWereAgreed'
  BY <1>t DEF SwitchInv, SwitchTypeOK, PinsWereAgreed, Allowed
<1> QED BY <1>1, <1>2, <1>3, <1>4 DEF SwitchInv

\* A step that leaves the configuration and the pins keeps the invariant unless it
\* stores a session.
LEMMA ConfigurationStays ==
  ASSUME SwitchInv, UNCHANGED <<config, known, agreed>>,
         \/ home' = Nowhere
         \/ home' = home /\ carried' = carried
         \/ home' = login /\ login # Nowhere /\ carried' = (carried \/ config = None \/ config.host # login),
         dialled' \in Addressed \cup {None}, asking' \in Addressed \cup {None},
         login' \in Hosts \cup {Nowhere}
  PROVE SwitchInv'
<1>1. SwitchTypeOK' BY DEF SwitchInv, SwitchTypeOK
<1>2. HomeOK' BY DEF SwitchInv, HomeOK
<1>3. PinIsCurrent' /\ PinsWereAgreed' BY DEF SwitchInv, PinIsCurrent, PinsWereAgreed
<1> QED BY <1>1, <1>2, <1>3 DEF SwitchInv

\* requestConnect follows an address only where it needs not ask.
LEMMA RequestKeepsInv ==
  ASSUME SwitchInv, NEW c \in Addressed, NEW fromLink \in BOOLEAN, NEW onTab,
         RequestConnect(c, fromLink, onTab), agreed \subseteq agreed', agreed' \subseteq Addressed,
         \/ fromLink /\ agreed' = agreed
         \/ agreed' = IF known[c.host] \in {Nowhere, c.at} THEN agreed \cup {c} ELSE agreed
  PROVE SwitchInv'
<1> USE NoneIsNoAddress, InstanceAssumption
<1>t. /\ c.host \in Hosts /\ c.at \in Ends
      /\ dialled \in Addressed \cup {None} /\ login \in Hosts \cup {Nowhere} /\ asking \in Addressed \cup {None}
  BY DEF Addressed, SwitchInv, SwitchTypeOK
<1>1. CASE MustAsk(c, fromLink)
  <2>1. UNCHANGED <<config, known, home, dialled, login, carried>> /\ asking' = c
    BY <1>1 DEF RequestConnect, connection
  <2>2. SwitchTypeOK' BY <2>1 DEF SwitchInv, SwitchTypeOK
  <2>3. HomeOK' /\ PinIsCurrent' BY <2>1 DEF SwitchInv, HomeOK, PinIsCurrent
  <2>4. PinsWereAgreed' BY <2>1 DEF SwitchInv, PinsWereAgreed
  <2> QED BY <2>2, <2>3, <2>4 DEF SwitchInv
<1>2. CASE ~MustAsk(c, fromLink)
  <2>1. /\ SetConfig(c) /\ Initialize /\ UNCHANGED <<asking, login, carried>>
    BY <1>2 DEF RequestConnect
  <2>2. dialled' \in Addressed \cup {None}
    BY <2>1, <1>t DEF Initialize, SetConfig
  <2>3. Allowed(c)
    <3>1. CASE c \in agreed' BY <3>1 DEF Allowed, Candidates
    <3>2. CASE c \notin agreed'
      <4>1. known[c.host] = c.at BY <3>2, <1>2, <1>t DEF MustAsk
      <4> QED BY <4>1, <1>t DEF SwitchInv, PinsWereAgreed, Allowed
    <3> QED BY <3>1, <3>2
  <2> QED BY <2>1, <2>2, <2>3, <1>t, SetConfigKeepsInv
<1> QED BY <1>1, <1>2

LEMMA InstanceInitOK == InstanceInit => SwitchInv
BY NoneIsNoAddress, InstanceAssumption
   DEF InstanceInit, SwitchInv, SwitchTypeOK, HomeOK, PinIsCurrent, PinsWereAgreed, None

LEMMA InstanceStep == SwitchInv /\ [InstanceNext]_instanceVars => SwitchInv'
<1> SUFFICES ASSUME SwitchInv, [InstanceNext]_instanceVars PROVE SwitchInv'
  OBVIOUS
<1> USE NoneIsNoAddress, DiscoverableAreAddressed
<1>t. /\ config \in Addressed \cup {None} /\ dialled \in Addressed \cup {None}
      /\ asking \in Addressed \cup {None} /\ login \in Hosts \cup {Nowhere}
      /\ known \in [Hosts -> Ends \cup {Nowhere}] /\ agreed \subseteq Addressed
  BY DEF SwitchInv, SwitchTypeOK
<1>pick. ASSUME NEW h \in Hosts, known[h] # Nowhere
         PROVE  [host |-> h, at |-> known[h]] \in Addressed
  BY <1>t, <1>pick DEF Addressed
<1>chosen. ASSUME NEW c \in Addressed, NEW onTab, Chosen(c, onTab) PROVE SwitchInv'
  BY <1>chosen, <1>t, RequestKeepsInv DEF Chosen
<1>1. ASSUME NEW c \in Discoverable, Connect(c) PROVE SwitchInv'
  BY <1>1, <1>chosen DEF Connect
<1>2. ASSUME NEW c \in Discoverable, DeepLink(c) \/ WebJoin(c) PROVE SwitchInv'
  BY <1>2, <1>t, RequestKeepsInv DEF DeepLink, WebJoin
<1>3. ASSUME NEW c \in Discoverable, Bootstrap(c) PROVE SwitchInv'
  <2>1. CASE UNCHANGED <<choice, connection, agreed>>
    BY <2>1, <1>3, <1>t, ConfigurationStays DEF Bootstrap, choice, connection
  <2>2. CASE SetConfig(c) /\ Initialize /\ agreed' = agreed \cup {c}
    <3>1. dialled' \in Addressed \cup {None} BY <2>2, <1>t DEF Initialize, SetConfig
    <3>2. Allowed(c) BY <2>2 DEF Allowed, Candidates
    <3> QED BY <2>2, <3>1, <3>2, <1>3, <1>t, SetConfigKeepsInv DEF Bootstrap
  <2> QED BY <2>1, <2>2, <1>3 DEF Bootstrap
<1>4. ASSUME NEW accept \in BOOLEAN, ResolvePendingHost(accept) PROVE SwitchInv'
  <2>1. CASE UNCHANGED <<choice, connection, agreed>>
    BY <2>1, <1>4, <1>t, ConfigurationStays DEF ResolvePendingHost, choice, connection
  <2>2. CASE SetConfig(asking) /\ Initialize /\ agreed' = agreed \cup {asking}
    <3>1. asking \in Addressed BY <1>4, <1>t DEF ResolvePendingHost
    <3>2. dialled' \in Addressed \cup {None} BY <2>2, <3>1, <1>t DEF Initialize, SetConfig
    <3>3. Allowed(asking) BY <2>2 DEF Allowed, Candidates
    <3> QED BY <2>2, <3>1, <3>2, <3>3, <1>4, <1>t, SetConfigKeepsInv DEF ResolvePendingHost
  <2> QED BY <2>1, <2>2, <1>4 DEF ResolvePendingHost
<1>5. ASSUME NEW h \in Hosts, Picked(h) PROVE SwitchInv'
  BY <1>5, <1>pick, <1>chosen DEF Picked
<1>6. ASSUME NEW h \in Hosts, SwitchTo(h) PROVE SwitchInv'
  <2> DEFINE c == [host |-> h, at |-> known[h]]
  <2>1. c \in Addressed /\ c.host = h /\ c.at = known[h] BY <1>6, <1>pick DEF SwitchTo
  <2>2. SetConfig(c) /\ UNCHANGED <<agreed, carried>> /\ known[h] # Nowhere
    BY <1>6 DEF SwitchTo
  <2>3. dialled' = c /\ asking' = None /\ login' = Nowhere
    BY <1>6 DEF SwitchTo, Load
  <2> HIDE DEF c
  <2>4. Allowed(c) BY <2>1, <2>2 DEF SwitchInv, PinsWereAgreed, Allowed
  <2> QED BY <2>1, <2>2, <2>3, <2>4, <1>t, SetConfigKeepsInv
<1>7. ASSUME NEW h \in Hosts, ForgetHost(h) PROVE SwitchInv'
  <2>1. /\ config = None /\ known' = [known EXCEPT ![h] = Nowhere]
        /\ UNCHANGED <<config, home, asking, dialled, login, agreed, carried>>
    BY <1>7 DEF ForgetHost, OnSetup, connection
  <2> QED BY <2>1 DEF SwitchInv, SwitchTypeOK, HomeOK, PinIsCurrent, PinsWereAgreed
<1>8. ASSUME NEW at \in Ends, Opens(at) PROVE SwitchInv'
  <2>1. /\ dialled \in Addressed /\ at \in Candidates(dialled.at) /\ dialled' = None
        /\ UNCHANGED <<asking, login, agreed, carried>>
    BY <1>8, <1>t DEF Opens
  <2>2. CASE UNCHANGED choice
    BY <2>1, <2>2, <1>t, ConfigurationStays DEF choice
  <2>3. CASE config.at = dialled.at /\ SetConfig([config EXCEPT !.at = at])
    <3>1. config \in Addressed
      BY <2>1, <2>3, <1>t, InstanceAssumption DEF Addressed
    <3> DEFINE c == [config EXCEPT !.at = at]
    <3>2. c \in Addressed /\ c.host = config.host /\ c.at = at
      BY <3>1 DEF Addressed
    <3>3. SetConfig(c) BY <2>3
    <3> HIDE DEF c
    <3>4. known[config.host] = config.at /\ config.host \in Hosts /\ config.at # Nowhere
      BY <3>1, InstanceAssumption DEF SwitchInv, PinIsCurrent, Addressed
    <3>5. PICK d \in agreed : d.host = config.host /\ config.at \in Candidates(d.at)
      BY <3>4 DEF SwitchInv, PinsWereAgreed
    <3>6. at \in Candidates(d.at)
      BY <3>5, <2>1, <2>3, CandidatesCompose
    <3>7. Allowed(c) BY <3>2, <3>5, <3>6, <2>1 DEF Allowed
    <3> QED BY <2>1, <3>2, <3>3, <3>7, <1>t, SetConfigKeepsInv
  <2> QED BY <2>2, <2>3, <1>8 DEF Opens
<1>9. CASE ChangeServer
  <2>1. /\ config # None /\ config' = None /\ known' = [known EXCEPT ![config.host] = config.at]
        /\ carried' = (carried \/ home # Nowhere)
        /\ UNCHANGED <<home, asking, dialled, login, agreed>>
    BY <1>9 DEF ChangeServer, connection
  <2>2. config \in Addressed /\ known[config.host] = config.at
    BY <2>1, <1>t DEF SwitchInv, PinIsCurrent
  <2>3. known' = known BY <2>1, <2>2, <1>t
  <2>4. SwitchTypeOK' BY <2>1, <2>3 DEF SwitchInv, SwitchTypeOK
  <2>5. home # Nowhere => carried' BY <2>1, Zenon
  <2>6. HomeOK' BY <2>1, <2>5 DEF HomeOK
  <2>7. PinIsCurrent' /\ PinsWereAgreed'
    BY <2>1, <2>3 DEF SwitchInv, PinIsCurrent, PinsWereAgreed
  <2> QED BY <2>4, <2>6, <2>7 DEF SwitchInv
<1>10. CASE TurnTab \/ ReloadClient \/ Fails \/ Drops \/ Redial \/ Login
  <2>1. UNCHANGED <<config, known, agreed>>
    BY <1>10 DEF TurnTab, ReloadClient, Fails, Drops, Redial, Login, choice
  <2>2. /\ home' = Nowhere \/ (home' = home /\ carried' = carried)
        /\ asking' \in Addressed \cup {None} /\ dialled' \in Addressed \cup {None}
    BY <1>10, <1>t DEF TurnTab, ReloadClient, Fails, Drops, Redial, Login, choice, connection, Load
  <2>3. login' \in Hosts \cup {Nowhere}
    BY <1>10, <1>t DEF TurnTab, ReloadClient, Fails, Drops, Redial, Login, Load, Addressed
  <2> QED BY <2>1, <2>2, <2>3, ConfigurationStays
<1>11. CASE LoginReturns
  <2>1. /\ UNCHANGED <<config, known, agreed, asking>> /\ login' = Nowhere /\ login # Nowhere
        /\ \/ home' = home /\ carried' = carried
           \/ home' = login /\ carried' = (carried \/ config = None \/ config.host # login)
        /\ dialled' \in Addressed \cup {None}
    BY <1>11, <1>t DEF LoginReturns, connection
  <2> QED BY <2>1, <1>t, ConfigurationStays
<1>12. CASE SignOutOfHost
  BY <1>12, <1>t, ConfigurationStays DEF SignOutOfHost
<1>13. CASE UNCHANGED instanceVars
  BY <1>13, <1>t, ConfigurationStays DEF instanceVars
<1> QED
  BY <1>1, <1>2, <1>3, <1>4, <1>5, <1>6, <1>7, <1>8, <1>9, <1>10, <1>11, <1>12, <1>13 DEF InstanceNext

\* serverConfigStore.ts: with a configured host, the stored core-api session is that
\* host's, unless "Change server" or a login answered late carried it over.
THEOREM SessionsStayHome == InstanceSpec => []SessionStaysHome
<1>1. SwitchInv => SessionStaysHome BY DEF SwitchInv, HomeOK, SessionStaysHome
<1> QED BY <1>1, InstanceInitOK, InstanceStep, PTL DEF InstanceSpec

\* serverConfigStore.ts and HostConfirmDialog: no address is pinned for a host that
\* the user or the deployment did not give for it, but for another loopback name; and
\* the address in use is the pinned one.
THEOREM LinksMoveNoHost == InstanceSpec => [](PinsWereAgreed /\ PinIsCurrent)
<1>1. SwitchInv => PinsWereAgreed /\ PinIsCurrent BY DEF SwitchInv
<1> QED BY <1>1, InstanceInitOK, InstanceStep, PTL DEF InstanceSpec

-----------------------------------------------------------------------------
(* The ring of an incoming call *)

\* At most one ring, and at most one dismissal that is remembered.
Alone(S) == \A r, s \in S : r = s

RingTypeOK ==
  /\ effectDue \in BOOLEAN
  /\ Alone(ringing) /\ Alone(dismissed)
  /\ toasts \subseteq ringing

RingInv == RingTypeOK /\ ToneFollowsCall

LEMMA RingInitOK == RingInit => RingInv
BY DEF RingInit, RingInv, RingTypeOK, ToneFollowsCall, Alone

\* What the effect reads has changed, and the ring is as it was.
LEMMA QuietStep ==
  ASSUME RingInv, UNCHANGED quietVars, effectDue' = TRUE
  PROVE RingInv'
BY DEF RingInv, RingTypeOK, ToneFollowsCall, Alone, quietVars

\* stopRingtone ends the one ring there is.
LEMMA Stopped ==
  ASSUME RingInv
  PROVE StoppedTones = {} /\ timers \ ringing = {} /\ toasts \ ringing = {}
BY DEF RingInv, RingTypeOK, ToneFollowsCall, StoppedTones

\* Nothing rings, and nothing is left that could stop a ring.
LEMMA SilentOK ==
  ASSUME ringing' = {}, tones' = {}, timers' = {}, toasts' = {},
         effectDue' \in BOOLEAN, Alone(dismissed')
  PROVE RingInv'
BY DEF RingInv, RingTypeOK, ToneFollowsCall, Alone

LEMMA RingStep == RingInv /\ [RingNext]_ringVars => RingInv'
<1> SUFFICES ASSUME RingInv, [RingNext]_ringVars PROVE RingInv'
  OBVIOUS
<1>t. /\ effectDue \in BOOLEAN /\ Alone(ringing) /\ Alone(dismissed) /\ toasts \subseteq ringing
      /\ tones = {r.toast : r \in ringing} /\ timers = ringing
      /\ (~effectDue /\ dismissed # Incoming) =>
           \A r \in ringing : r.room \in Incoming /\ ~Silenced(r.room)
  BY DEF RingInv, RingTypeOK, ToneFollowsCall
<1>1. ASSUME NEW p \in Partners, Calls(p) \/ StopsCalling(p) \/ ToggleMutedCaller(p) \/ JoinCall(p)
      PROVE RingInv'
  <2>1. UNCHANGED quietVars /\ effectDue' = TRUE
    BY <1>1, Zenon DEF Calls, StopsCalling, ToggleMutedCaller, JoinCall
  <2> QED BY <2>1, QuietStep
<1>2. ASSUME NEW dm, OpenDm(dm) PROVE RingInv'
  BY <1>2, QuietStep DEF OpenDm
<1>3. ASSUME NEW ok \in BOOLEAN, JoinEnds(ok) \/ LeaveCall(ok) PROVE RingInv'
  <2>1. UNCHANGED quietVars /\ effectDue' = TRUE
    BY <1>3, Zenon DEF JoinEnds, LeaveCall
  <2> QED BY <2>1, QuietStep
<1>4. CASE RoomsRebuilt
  BY <1>4, QuietStep DEF RoomsRebuilt
<1>5. CASE RingSilently
  <2>1. /\ ringing' = {} /\ tones' = {} /\ timers' = {} /\ toasts' = {} /\ effectDue' = FALSE
        /\ dismissed' \in {{}, dismissed}
    BY <1>5, Stopped DEF RingSilently, StillDismissed
  <2> QED BY <2>1, <1>t, SilentOK DEF Alone
<1>6. CASE RingUnchanged
  <2>1. PICK p \in Incoming : ~Silenced(p) /\ (p \in dismissed \/ \E r \in ringing : r.room = p)
    BY <1>6 DEF RingUnchanged
  <2>2. /\ UNCHANGED <<rooms, mutedCallers, openDm, inCall, joiningDm>> /\ UNCHANGED quietVars
        /\ effectDue' = FALSE
    BY <1>6 DEF RingUnchanged
  <2>3. Incoming' = Incoming /\ \A q : Silenced(q)' = Silenced(q)
    BY <2>2 DEF Incoming, Silenced
  <2>4. Incoming = {p} BY <2>1 DEF Incoming
  <2>5. dismissed # Incoming => \A r \in ringing : r.room \in Incoming /\ ~Silenced(r.room)
    <3>1. CASE p \in dismissed BY <3>1, <2>4, <1>t DEF Alone
    <3>2. CASE \E r \in ringing : r.room = p BY <3>2, <2>1, <2>4, <1>t DEF Alone
    <3> QED BY <3>1, <3>2, <2>1
  <2>6. RingTypeOK' BY <2>2, <1>t DEF RingTypeOK, Alone, quietVars
  <2>7. ToneFollowsCall' BY <2>2, <2>3, <2>5, <1>t DEF ToneFollowsCall, quietVars
  <2> QED BY <2>6, <2>7 DEF RingInv
<1>7. CASE RingStarts
  <2>1. PICK p \in Incoming :
          LET next == [room |-> p, toast |-> rings + 1]
          IN /\ ~Silenced(p) /\ ringing' = {next} /\ tones' = StoppedTones \cup {next.toast}
             /\ timers' = (timers \ ringing) \cup {next}
             /\ toasts' = (toasts \ ringing) \cup {next}
    BY <1>7 DEF RingStarts
  <2> DEFINE next == [room |-> p, toast |-> rings + 1]
  <2>2. /\ next.room = p /\ ringing' = {next} /\ tones' = {next.toast} /\ timers' = {next}
        /\ toasts' = {next}
    BY <2>1, Stopped
  <2> HIDE DEF next
  <2>3. /\ UNCHANGED <<rooms, mutedCallers, openDm, inCall, joiningDm, dismissed>>
        /\ effectDue' = FALSE
    BY <1>7 DEF RingStarts
  <2>4. p \in Incoming' /\ ~Silenced(p)'
    BY <2>1, <2>3 DEF Incoming, Silenced
  <2>5. RingTypeOK' BY <2>2, <2>3, <1>t DEF RingTypeOK, Alone
  <2>6. ToneFollowsCall' BY <2>2, <2>4 DEF ToneFollowsCall
  <2> QED BY <2>5, <2>6 DEF RingInv
<1>8. ASSUME NEW t \in toasts, Dismiss(t) PROVE RingInv'
  <2>1. /\ ringing' = {} /\ tones' = {} /\ timers' = {} /\ toasts' = {}
        /\ effectDue' = effectDue /\ dismissed' = {t.room}
    BY <1>8, Stopped DEF Dismiss
  <2> QED BY <2>1, <1>t, SilentOK DEF Alone
<1>9. ASSUME NEW t \in toasts, OpenFromToast(t) PROVE RingInv'
  <2>1. /\ UNCHANGED <<rooms, mutedCallers, inCall, joiningDm, ringing, dismissed, tones, timers>>
        /\ toasts' = toasts \ {t} /\ effectDue' = (effectDue \/ openDm # {t.room}) /\ openDm' = {t.room}
    BY <1>9 DEF OpenFromToast
  <2>2. effectDue' \in BOOLEAN BY <2>1
  <2>3. ~effectDue' => ~effectDue /\ openDm' = openDm BY <2>1, Zenon
  <2>4. ~effectDue' => Incoming' = Incoming /\ \A q : Silenced(q)' = Silenced(q)
    BY <2>1, <2>3 DEF Incoming, Silenced
  <2>5. RingTypeOK' BY <2>1, <2>2, <1>t DEF RingTypeOK, Alone
  <2>6. ToneFollowsCall' BY <2>1, <2>3, <2>4, <1>t DEF ToneFollowsCall
  <2> QED BY <2>5, <2>6 DEF RingInv
<1>10. ASSUME NEW t \in timers, TimerFires(t) PROVE RingInv'
  <2>1. ringing = {t} BY <1>t DEF Alone
  <2>2. /\ ringing' = {} /\ tones' = StoppedTones /\ timers' = timers \ {t} /\ toasts' = toasts \ {t}
        /\ UNCHANGED <<effectDue, dismissed>>
    BY <1>10, <2>1 DEF TimerFires
  <2>3. tones' = {} /\ timers' = {} /\ toasts' = {}
    BY <2>1, <2>2, <1>t, Stopped
  <2> QED BY <2>2, <2>3, <1>t, SilentOK DEF Alone
<1>11. CASE UNCHANGED ringVars
  <2>1. UNCHANGED quietVars /\ UNCHANGED <<rooms, mutedCallers, openDm, inCall, joiningDm, effectDue>>
    BY <1>11 DEF ringVars, quietVars
  <2>2. Incoming' = Incoming /\ \A q : Silenced(q)' = Silenced(q)
    BY <2>1 DEF Incoming, Silenced
  <2>3. RingTypeOK' BY <2>1, <1>t DEF RingTypeOK, Alone, quietVars
  <2>4. ToneFollowsCall' BY <2>1, <2>2, <1>t DEF ToneFollowsCall, quietVars
  <2> QED BY <2>3, <2>4 DEF RingInv
<1> QED
  BY <1>1, <1>2, <1>3, <1>4, <1>5, <1>6, <1>7, <1>8, <1>9, <1>10, <1>11, Zenon DEF RingNext

\* useIncomingDmRing.ts: a tone that plays is the one the component can stop, with its
\* timer running; after the effect has run it is the waiting call's, unless that call
\* was dismissed.
THEOREM ToneIsUnderControl == RingSpec => []ToneFollowsCall
<1>1. RingInv => ToneFollowsCall BY DEF RingInv
<1> QED BY <1>1, RingInitOK, RingStep, PTL DEF RingSpec

-----------------------------------------------------------------------------
(* Unread counts *)

Marked == Threads \X Nat
WireRows == {<<>>} \cup Marked

MarksTypeOK ==
  /\ log \in Seq(Threads) /\ wire \in Seq(WireRows) /\ marks \in Seq(Threads)
  /\ readAt \in [Threads -> Nat] /\ cacheRead \in [Threads -> Nat] /\ shownRead \in [Threads -> Nat]
  /\ cached \in Nat /\ shown \in Nat
  /\ stale \subseteq {"messages", "reads"}
  /\ view \subseteq Threads
  /\ DOMAIN unread = Threads

\* num[i] messages have arrived once the first i rows of the wire are delivered, and
\* all of the log's at its end.
Numbers(num) ==
  /\ num \in [0..Len(wire) -> 0..Len(log)]
  /\ num[0] = cached /\ num[Len(wire)] = Len(log)
  /\ \A i \in 1..Len(wire) : num[i] = IF wire[i] = <<>> THEN num[i-1] + 1 ELSE num[i-1]

MessagesArrive == \E num \in [0..Len(wire) -> 0..Len(log)] : Numbers(num)

\* No mark of t is on the wire behind place i.
NoneBehind(t, i) == \A j \in 1..Len(wire) : j > i /\ wire[j] \in Marked => wire[j][1] # t

\* The last mark of a thread on the wire, or the rows where there is none, is the
\* server's.
MarkArrives(t) ==
  \/ cacheRead[t] = readAt[t] /\ NoneBehind(t, 0)
  \/ \E i \in 1..Len(wire) : wire[i] = <<t, readAt[t]>> /\ NoneBehind(t, i)

\* The stores are the rows, but for what is stale, and the counts are the stores'.
StoresFollow ==
  /\ shown <= Len(log) /\ cached <= Len(log)
  /\ "messages" \in stale \/ shown = cached
  /\ "reads" \in stale \/ shownRead = cacheRead
  /\ \A t \in Threads :
       unread[t] = CountUnread(t, shown, shownRead) \/ (unread[t] = 0 /\ t \in cleared)

MarksInv ==
  MarksTypeOK /\ MessagesArrive /\ (\A t \in Threads : MarkArrives(t)) /\ StoresFollow

\* MarksInv says what the settled window shows.
LEMMA SettledIsTrue == MarksInv => CountsAreTrue
<1> SUFFICES ASSUME MarksInv, Settled PROVE CountsAreTrue
  BY DEF CountsAreTrue
<1>1. wire = <<>> /\ Len(wire) = 0 /\ stale = {}
  BY DEF Settled
<1>2. cached = Len(log)
  BY <1>1 DEF MarksInv, MessagesArrive, Numbers
<1>3. \A t \in Threads : cacheRead[t] = readAt[t]
  BY <1>1 DEF MarksInv, MarkArrives
<1>4. cacheRead = readAt
  BY <1>3 DEF MarksInv, MarksTypeOK
<1> QED BY <1>1, <1>2, <1>4 DEF MarksInv, StoresFollow, CountsAreTrue

LEMMA EmptyIsNoMark == <<>> \notin Marked
BY DEF Marked

\* A row is put on the wire: a message that is also logged, or a mark that is also
\* the server's.
LEMMA NumbersAppend ==
  ASSUME MarksInv, NEW row \in WireRows, wire' = Append(wire, row), cached' = cached,
         Len(log') = IF row = <<>> THEN Len(log) + 1 ELSE Len(log)
  PROVE MessagesArrive'
<1>t. wire \in Seq(WireRows) /\ log \in Seq(Threads) /\ Len(log) \in Nat /\ Len(wire) \in Nat
  BY DEF MarksInv, MarksTypeOK
<1>1. PICK num \in [0..Len(wire) -> 0..Len(log)] : Numbers(num)
  BY DEF MarksInv, MessagesArrive
<1> DEFINE last == Len(wire) + 1
           next == [i \in 0..last |-> IF i = last THEN Len(log') ELSE num[i]]
<1>2. /\ Len(wire') = last /\ wire'[last] = row
      /\ \A i \in 1..Len(wire) : wire'[i] = wire[i]
  BY <1>t
<1>3. next \in [0..Len(wire') -> 0..Len(log')]
  BY <1>1, <1>2, <1>t
<1>4. next[0] = cached' /\ next[Len(wire')] = Len(log')
  BY <1>1, <1>2, <1>t DEF Numbers
<1>5. ASSUME NEW i \in 1..Len(wire')
      PROVE  next[i] = IF wire'[i] = <<>> THEN next[i-1] + 1 ELSE next[i-1]
  <2>1. CASE i = last
    BY <2>1, <1>1, <1>2, <1>t DEF Numbers
  <2>2. CASE i # last
    BY <2>2, <1>1, <1>2, <1>t DEF Numbers
  <2> QED BY <2>1, <2>2
<1> HIDE DEF next
<1>f. PICK f : f = next OBVIOUS
<1>6. f \in [0..Len(wire') -> 0..Len(log')] /\ Numbers(f)'
  BY <1>3, <1>4, <1>5, <1>f DEF Numbers
<1> QED BY <1>6 DEF MessagesArrive

LEMMA MarksAppend ==
  ASSUME MarksInv, NEW row \in WireRows, wire' = Append(wire, row), cacheRead' = cacheRead,
         NEW t \in Threads, readAt'[t] = IF row \in Marked /\ row[1] = t THEN row[2] ELSE readAt[t]
  PROVE MarkArrives(t)'
<1>t. wire \in Seq(WireRows) /\ Len(wire) \in Nat /\ MarkArrives(t)
  BY DEF MarksInv, MarksTypeOK
<1>2. /\ Len(wire') = Len(wire) + 1 /\ wire'[Len(wire) + 1] = row
      /\ \A i \in 1..Len(wire) : wire'[i] = wire[i]
  BY <1>t
<1>3. CASE row \in Marked /\ row[1] = t
  <2>1. PICK k : k = Len(wire) + 1 OBVIOUS
  <2>2. k \in 1..Len(wire') /\ wire'[k] = <<t, readAt'[t]>> BY <1>2, <1>3, <1>t, <2>1 DEF Marked
  <2>3. NoneBehind(t, k)' BY <1>2, <1>t, <2>1 DEF NoneBehind
  <2> QED BY <2>2, <2>3 DEF MarkArrives
<1>4. CASE ~(row \in Marked /\ row[1] = t)
  <2>1. \A i \in 0..Len(wire) : NoneBehind(t, i) => NoneBehind(t, i)'
    BY <1>2, <1>4, <1>t DEF NoneBehind
  <2>2. CASE cacheRead[t] = readAt[t] /\ NoneBehind(t, 0)
    BY <2>1, <2>2, <1>4, <1>t DEF MarkArrives
  <2>3. ASSUME NEW i \in 1..Len(wire), wire[i] = <<t, readAt[t]>>, NoneBehind(t, i) PROVE MarkArrives(t)'
    <3>1. wire'[i] = <<t, readAt'[t]>> BY <2>3, <1>2, <1>4
    <3>2. i \in 1..Len(wire') /\ NoneBehind(t, i)' BY <2>1, <2>3, <1>2, <1>t
    <3> QED BY <3>1, <3>2 DEF MarkArrives
  <2> QED BY <2>2, <2>3, <1>t DEF MarkArrives
<1> QED BY <1>3, <1>4

\* The first row is taken off the wire and into the cache.
LEMMA NumbersTail ==
  ASSUME MarksInv, wire # <<>>, wire' = Tail(wire), log' = log,
         cached' = IF Head(wire) = <<>> THEN cached + 1 ELSE cached
  PROVE MessagesArrive' /\ cached' \in 0..Len(log)
<1>t. wire \in Seq(WireRows) /\ Len(wire) \in Nat /\ Len(wire) > 0 /\ Len(log) \in Nat
  BY DEF MarksInv, MarksTypeOK
<1>1. PICK num \in [0..Len(wire) -> 0..Len(log)] : Numbers(num)
  BY DEF MarksInv, MessagesArrive
<1> DEFINE next == [i \in 0..Len(wire) - 1 |-> num[i+1]]
<1>2. /\ Len(wire') = Len(wire) - 1 /\ Head(wire) = wire[1]
      /\ \A i \in 1..Len(wire) - 1 : wire'[i] = wire[i+1]
  BY <1>t
<1>3. next \in [0..Len(wire') -> 0..Len(log')]
  BY <1>1, <1>2, <1>t
<1>4. next[0] = cached' /\ next[Len(wire')] = Len(log')
  BY <1>1, <1>2, <1>t DEF Numbers
<1>5. ASSUME NEW i \in 1..Len(wire')
      PROVE  next[i] = IF wire'[i] = <<>> THEN next[i-1] + 1 ELSE next[i-1]
  <2>1. i \in 1..Len(wire) - 1 /\ i + 1 \in 1..Len(wire) /\ i - 1 \in 0..Len(wire) - 1
    BY <1>2, <1>t
  <2>2. num[i+1] = IF wire[i+1] = <<>> THEN num[(i+1)-1] + 1 ELSE num[(i+1)-1]
    BY <2>1, <1>1 DEF Numbers
  <2>3. (i+1) - 1 = i /\ (i-1) + 1 = i BY <2>1
  <2>4. next[i] = num[i+1] /\ next[i-1] = num[i] BY <2>1, <2>3, <1>t
  <2> QED BY <2>1, <2>2, <2>3, <2>4, <1>2
<1> HIDE DEF next
<1>f. PICK f : f = next OBVIOUS
<1>6. f \in [0..Len(wire') -> 0..Len(log')] /\ Numbers(f)'
  BY <1>3, <1>4, <1>5, <1>f DEF Numbers
<1>7. cached' \in 0..Len(log) BY <1>1, <1>2, <1>t DEF Numbers
<1> QED BY <1>6, <1>7 DEF MessagesArrive

LEMMA MarksTail ==
  ASSUME MarksInv, wire # <<>>, wire' = Tail(wire), readAt' = readAt, NEW t \in Threads,
         cacheRead'[t] = IF Head(wire) \in Marked /\ Head(wire)[1] = t THEN Head(wire)[2] ELSE cacheRead[t]
  PROVE MarkArrives(t)'
<1>t. wire \in Seq(WireRows) /\ Len(wire) \in Nat /\ Len(wire) > 0 /\ MarkArrives(t)
  BY DEF MarksInv, MarksTypeOK
<1>2. /\ Len(wire') = Len(wire) - 1 /\ Head(wire) = wire[1]
      /\ \A i \in 1..Len(wire) - 1 : wire'[i] = wire[i+1]
  BY <1>t
<1>3. ASSUME NEW i \in 1..Len(wire), NoneBehind(t, i) PROVE NoneBehind(t, i - 1)'
  BY <1>2, <1>3, <1>t DEF NoneBehind
<1>4. CASE cacheRead[t] = readAt[t] /\ NoneBehind(t, 0)
  <2>1. ~(Head(wire) \in Marked /\ Head(wire)[1] = t) BY <1>2, <1>4, <1>t DEF NoneBehind
  <2>2. NoneBehind(t, 1) BY <1>4, <1>t DEF NoneBehind
  <2>3. NoneBehind(t, 0)' BY <2>2, <1>3, <1>t
  <2> QED BY <2>1, <2>3, <1>4 DEF MarkArrives
<1>5. ASSUME NEW i \in 1..Len(wire), wire[i] = <<t, readAt[t]>>, NoneBehind(t, i) PROVE MarkArrives(t)'
  <2>1. NoneBehind(t, i - 1)' BY <1>3, <1>5
  <2>2. CASE i = 1
    <3>1. Head(wire) = <<t, readAt[t]>> /\ Head(wire) \in Marked
      BY <2>2, <1>2, <1>5 DEF Marked, MarksInv, MarksTypeOK
    <3>2. cacheRead'[t] = readAt'[t] BY <3>1
    <3> QED BY <2>1, <2>2, <3>2 DEF MarkArrives
  <2>3. CASE i # 1
    <3>1. i - 1 \in 1..Len(wire') /\ wire'[i-1] = <<t, readAt'[t]>>
      BY <2>3, <1>2, <1>5, <1>t
    <3> QED BY <2>1, <3>1 DEF MarkArrives
  <2> QED BY <2>2, <2>3
<1> QED BY <1>4, <1>5, <1>t DEF MarkArrives

LEMMA MarksInitOK == MarksInit => MarksInv
<1> SUFFICES ASSUME MarksInit PROVE MarksInv
  OBVIOUS
<1>1. MarksTypeOK BY DEF MarksInit, MarksTypeOK
<1>2. Len(wire) = 0 /\ Len(log) = 0 /\ cached = 0 BY DEF MarksInit
<1>3. MessagesArrive
  <2> DEFINE num == [i \in 0..0 |-> 0]
  <2>1. num \in [0..Len(wire) -> 0..Len(log)] /\ Numbers(num) BY <1>2 DEF Numbers
  <2> QED BY <2>1 DEF MessagesArrive
<1>4. \A t \in Threads : MarkArrives(t) BY <1>2 DEF MarksInit, MarkArrives, NoneBehind
<1>5. \A t \in Threads : CountUnread(t, shown, shownRead) = 0
  <2> SUFFICES ASSUME NEW t \in Threads PROVE CountUnread(t, shown, shownRead) = 0
    OBVIOUS
  <2>1. {m \in shownRead[t] + 1 .. shown : log[m] = t} = {} BY DEF MarksInit
  <2> QED BY <2>1, FS_EmptySet DEF CountUnread
<1>6. StoresFollow BY <1>2, <1>5 DEF MarksInit, StoresFollow
<1> QED BY <1>1, <1>3, <1>4, <1>6 DEF MarksInv

\* A message that is logged but not yet shown does not change a count.
LEMMA CountsStay ==
  ASSUME MarksInv, NEW x \in Threads, log' = Append(log, x), UNCHANGED <<shown, shownRead>>,
         NEW t \in Threads
  PROVE CountUnread(t, shown, shownRead)' = CountUnread(t, shown, shownRead)
<1>1. \A m \in shownRead[t] + 1 .. shown : log'[m] = log[m]
  BY DEF MarksInv, MarksTypeOK, StoresFollow
<1>2. {m \in shownRead'[t] + 1 .. shown' : log'[m] = t} = {m \in shownRead[t] + 1 .. shown : log[m] = t}
  BY <1>1
<1> QED BY <1>2 DEF CountUnread

\* What is on its way stays so in a step that touches neither end of the wire.
LEMMA WireStays ==
  ASSUME MarksInv, UNCHANGED <<log, wire, readAt, cached, cacheRead>>
  PROVE MessagesArrive' /\ \A t \in Threads : MarkArrives(t)'
<1>1. Len(wire') = Len(wire) /\ Len(log') = Len(log) OBVIOUS
<1>2. MessagesArrive' BY <1>1 DEF MarksInv, MessagesArrive, Numbers
<1>3. \A t \in Threads : MarkArrives(t)' BY <1>1 DEF MarksInv, MarkArrives, NoneBehind
<1> QED BY <1>2, <1>3

\* Counts of the stores may be kept, or cleared for the threads S.
LEMMA StoresStay ==
  ASSUME MarksInv, UNCHANGED <<log, cached, cacheRead, shown, shownRead, stale>>,
         NEW S, cleared' = cleared \cup S,
         \A t \in Threads : unread'[t] = unread[t] \/ (unread'[t] = 0 /\ t \in S)
  PROVE StoresFollow'
<1>1. \A t \in Threads : CountUnread(t, shown, shownRead)' = CountUnread(t, shown, shownRead)
  BY DEF CountUnread
<1> QED BY <1>1 DEF MarksInv, StoresFollow

LEMMA StampKeepsInv ==
  ASSUME MarksInv, NEW t \in Threads, Stamp(t), UNCHANGED <<log, windowVars>>, marks' \in Seq(Threads)
  PROVE MarksInv'
<1>w. UNCHANGED <<cached, cacheRead, shown, shownRead, unread, stale, view, cleared>>
  BY DEF windowVars
<1> DEFINE row == <<t, Len(log)>>
<1>1. wire' = Append(wire, row) /\ readAt' = [readAt EXCEPT ![t] = Len(log)]
  BY DEF Stamp
<1>2. row \in WireRows /\ row \in Marked /\ row # <<>> /\ row[1] = t /\ row[2] = Len(log) /\ Len(log) \in Nat
  BY DEF WireRows, Marked, MarksInv, MarksTypeOK
<1> HIDE DEF row
<1>3. MarksTypeOK' BY <1>w, <1>1, <1>2 DEF MarksInv, MarksTypeOK
<1>4. MessagesArrive' BY <1>w, <1>1, <1>2, NumbersAppend
<1>5. ASSUME NEW u \in Threads PROVE MarkArrives(u)'
  <2>1. readAt'[u] = IF row[1] = u THEN row[2] ELSE readAt[u]
    BY <1>1, <1>2 DEF MarksInv, MarksTypeOK
  <2> QED BY <2>1, <1>w, <1>1, <1>2, MarksAppend
<1>6. StoresFollow' BY <1>w, StoresStay
<1> QED BY <1>3, <1>4, <1>5, <1>6 DEF MarksInv

LEMMA MarksStep == MarksInv /\ [MarksNext]_markVars => MarksInv'
<1> SUFFICES ASSUME MarksInv, [MarksNext]_markVars PROVE MarksInv'
  OBVIOUS
<1>t. MarksTypeOK BY DEF MarksInv
<1>1. ASSUME NEW t \in Threads, Send(t) PROVE MarksInv'
  <2>1. /\ log' = Append(log, t) /\ wire' = Append(wire, <<>>)
        /\ UNCHANGED <<readAt, marks, cached, cacheRead, shown, shownRead, unread, stale, view, cleared>>
    BY <1>1 DEF Send, windowVars
  <2>2. <<>> \in WireRows /\ <<>> \notin Marked BY EmptyIsNoMark DEF WireRows
  <2>3. Len(log') = Len(log) + 1 /\ Len(log) \in Nat BY <2>1, <1>t DEF MarksTypeOK
  <2>4. MarksTypeOK' BY <2>1, <2>2, <1>t DEF MarksTypeOK
  <2>5. MessagesArrive' BY <2>1, <2>2, <2>3, NumbersAppend
  <2>6. ASSUME NEW u \in Threads PROVE MarkArrives(u)' BY <2>1, <2>2, MarksAppend
  <2>7. \A u \in Threads : CountUnread(u, shown, shownRead)' = CountUnread(u, shown, shownRead)
    BY <2>1, CountsStay
  <2>8. shown' <= Len(log') /\ cached' <= Len(log')
    BY <2>1, <2>3, <1>t DEF MarksInv, MarksTypeOK, StoresFollow
  <2>9. StoresFollow' BY <2>1, <2>7, <2>8 DEF MarksInv, StoresFollow
  <2> QED BY <2>4, <2>5, <2>6, <2>9 DEF MarksInv
<1>2. ASSUME NEW t \in Threads, ReadElsewhere(t) PROVE MarksInv'
  BY <1>2, <1>t, StampKeepsInv DEF ReadElsewhere, MarksTypeOK
<1>3. CASE MarkReadExecutes
  <2>1. marks \in Seq(Threads) /\ marks # <<>> BY <1>3, <1>t DEF MarkReadExecutes, MarksTypeOK
  <2>2. Head(marks) \in Threads /\ Tail(marks) \in Seq(Threads) BY <2>1
  <2> QED BY <1>3, <2>2, StampKeepsInv DEF MarkReadExecutes
<1>4. CASE MarkReadRefused
  <2>1. /\ UNCHANGED <<log, readAt, wire, cached, cacheRead, shown, shownRead, unread, stale, view, cleared>>
        /\ marks' = Tail(marks) /\ marks # <<>>
    BY <1>4 DEF MarkReadRefused, windowVars
  <2>2. MarksTypeOK' BY <2>1, <1>t DEF MarksTypeOK
  <2>3. MessagesArrive' /\ \A t \in Threads : MarkArrives(t)' BY <2>1, WireStays
  <2>4. StoresFollow' BY <2>1, StoresStay
  <2> QED BY <2>2, <2>3, <2>4 DEF MarksInv
<1>5. CASE Deliver
  <2> DEFINE row == Head(wire)
  <2>1. /\ wire # <<>> /\ wire' = Tail(wire)
        /\ UNCHANGED <<log, readAt, marks, shown, shownRead, unread, view, cleared>>
    BY <1>5 DEF Deliver
  <2>2. row \in WireRows BY <2>1, <1>t DEF MarksTypeOK
  <2>3. /\ row = <<>> => cached' = cached + 1 /\ stale' = stale \cup {"messages"} /\ cacheRead' = cacheRead
        /\ row # <<>> => /\ cacheRead' = [cacheRead EXCEPT ![row[1]] = row[2]]
                         /\ stale' = stale \cup {"reads"} /\ cached' = cached
    BY <1>5 DEF Deliver
  <2>4. MessagesArrive' /\ cached' \in 0..Len(log)
    <3>1. cached' = IF Head(wire) = <<>> THEN cached + 1 ELSE cached BY <2>3
    <3> QED BY <3>1, <2>1, NumbersTail
  <2>5. row # <<>> => row \in Marked /\ row[1] \in Threads /\ row[2] \in Nat
    BY <2>2 DEF WireRows, Marked
  <2>6. cacheRead' \in [Threads -> Nat]
    BY <2>3, <2>5, <1>t DEF MarksTypeOK
  <2>7. ASSUME NEW t \in Threads PROVE MarkArrives(t)'
    <3>1. cacheRead'[t] = IF row \in Marked /\ row[1] = t THEN row[2] ELSE cacheRead[t]
      BY <2>3, <2>5, <1>t, EmptyIsNoMark DEF MarksTypeOK
    <3> QED BY <3>1, <2>1, MarksTail
  <2> HIDE DEF row
  <2>8. wire' \in Seq(WireRows) BY <2>1, <1>t DEF MarksTypeOK
  <2>s. stale' \subseteq {"messages", "reads"} BY <2>3, <1>t DEF MarksTypeOK
  <2>c. cached' \in Nat BY <2>4, <1>t DEF MarksTypeOK
  <2>9. MarksTypeOK' BY <2>1, <2>s, <2>c, <2>6, <2>8, <1>t DEF MarksTypeOK
  <2>10. \A t \in Threads : CountUnread(t, shown, shownRead)' = CountUnread(t, shown, shownRead)
    BY <2>1 DEF CountUnread
  <2>11. /\ cached' <= Len(log')
         /\ "messages" \in stale' \/ shown' = cached'
         /\ "reads" \in stale' \/ shownRead' = cacheRead'
    BY <2>1, <2>3, <2>4, <1>t DEF MarksInv, StoresFollow, MarksTypeOK
  <2>12. StoresFollow' BY <2>1, <2>10, <2>11 DEF MarksInv, StoresFollow
  <2> QED BY <2>4, <2>7, <2>9, <2>12 DEF MarksInv
<1>6. CASE FlushStores
  <2>1. /\ stale' = {} /\ cleared' = {} /\ UNCHANGED <<log, readAt, wire, marks, cached, cacheRead, view>>
        /\ shown' = IF "messages" \in stale THEN cached ELSE shown
        /\ shownRead' = IF "reads" \in stale THEN cacheRead ELSE shownRead
        /\ unread' = Counts(shown', shownRead')
    BY <1>6 DEF FlushStores
  <2>2. shown' = cached /\ shownRead' = cacheRead
    BY <2>1 DEF MarksInv, StoresFollow
  <2>3. MarksTypeOK' BY <2>1, <2>2, <1>t DEF MarksTypeOK, Counts
  <2>4. MessagesArrive' /\ \A t \in Threads : MarkArrives(t)' BY <2>1, WireStays
  <2>5. \A t \in Threads : unread'[t] = CountUnread(t, shown, shownRead)'
    BY <2>1 DEF Counts, CountUnread
  <2>6. StoresFollow' BY <2>1, <2>2, <2>5 DEF MarksInv, StoresFollow
  <2> QED BY <2>3, <2>4, <2>6 DEF MarksInv
<1>7. ASSUME NEW S \in SUBSET Threads,
             UNCHANGED <<log, readAt, wire, cached, cacheRead, shown, shownRead, stale>>,
             view' \subseteq Threads, marks' \in Seq(Threads), DOMAIN unread' = Threads,
             \A t \in Threads : unread'[t] = IF t \in S THEN 0 ELSE unread[t],
             cleared' = cleared \cup S
      PROVE MarksInv'
  <2>1. MarksTypeOK' BY <1>7, <1>t DEF MarksTypeOK
  <2>2. MessagesArrive' /\ \A t \in Threads : MarkArrives(t)' BY <1>7, WireStays
  <2>3. StoresFollow' BY <1>7, StoresStay
  <2> QED BY <2>1, <2>2, <2>3 DEF MarksInv
<1>8. ASSUME NEW t \in Threads, MarkRead(t),
             UNCHANGED <<log, readAt, wire, cached, cacheRead, shown, shownRead, stale, view>>
      PROVE MarksInv'
  <2>1. marks' \in Seq(Threads) BY <1>8, <1>t DEF MarkRead, MarksTypeOK
  <2>2. unread' = [unread EXCEPT ![t] = 0] /\ cleared' = cleared \cup {t} BY <1>8 DEF MarkRead
  <2>3. DOMAIN unread' = Threads /\ \A v \in Threads : unread'[v] = IF v \in {t} THEN 0 ELSE unread[v]
    BY <2>2, <1>t DEF MarksTypeOK
  <2>4. view' \subseteq Threads /\ {t} \in SUBSET Threads BY <1>8, <1>t DEF MarksTypeOK
  <2> QED BY <2>1, <2>2, <2>3, <2>4, <1>7, <1>8
<1>9. ASSUME UNCHANGED <<log, readAt, wire, marks, cached, cacheRead, shown, shownRead, unread, stale, view, cleared>>
      PROVE MarksInv'
  <2>1. MarksTypeOK' BY <1>9, <1>t DEF MarksTypeOK
  <2>2. MessagesArrive' /\ \A t \in Threads : MarkArrives(t)' BY <1>9, WireStays
  <2>3. cleared' = cleared \cup {} /\ \A t \in Threads : unread'[t] = unread[t] BY <1>9
  <2>4. StoresFollow' BY <1>9, <2>3, StoresStay
  <2> QED BY <2>1, <2>2, <2>4 DEF MarksInv
<1>10. CASE ViewEffect
  <2>1. PICK t \in view : IF focused THEN MarkRead(t) ELSE UNCHANGED <<unread, cleared, marks>>
    BY <1>10 DEF ViewEffect
  <2>2. UNCHANGED <<log, readAt, wire, cached, cacheRead, shown, shownRead, stale, view>>
    BY <1>10 DEF ViewEffect
  <2> QED BY <2>1, <2>2, <1>8, <1>9, <1>t DEF MarksTypeOK
<1>11. ASSUME NEW target \in {{}} \cup {{t} : t \in Threads}, Navigate(target) PROVE MarksInv'
  <2>1. /\ UNCHANGED <<log, readAt, wire, marks, cached, cacheRead, shown, shownRead, stale>>
        /\ view' = target /\ cleared' = cleared \cup target
        /\ unread' = [t \in Threads |-> IF t \in target THEN 0 ELSE unread[t]]
    BY <1>11 DEF Navigate
  <2>2. target \in SUBSET Threads OBVIOUS
  <2>3. DOMAIN unread' = Threads /\ \A v \in Threads : unread'[v] = IF v \in target THEN 0 ELSE unread[v]
    BY <2>1
  <2> QED BY <2>1, <2>2, <2>3, <1>7, <1>t DEF MarksTypeOK
<1>12. CASE Focus
  <2>1. (\E t \in view : MarkRead(t)) \/ UNCHANGED <<unread, cleared, marks>>
    BY <1>12 DEF Focus
  <2>2. UNCHANGED <<log, readAt, wire, cached, cacheRead, shown, shownRead, stale, view>>
    BY <1>12 DEF Focus
  <2> QED BY <2>1, <2>2, <1>8, <1>9, <1>t DEF MarksTypeOK
<1>13. CASE Blur BY <1>9, <1>13 DEF Blur
<1>14. CASE Reconnect
  <2>1. /\ wire' = <<>> /\ marks' = <<>> /\ stale' = {} /\ cleared' = {}
        /\ cached' = Len(log) /\ cacheRead' = readAt /\ shown' = Len(log) /\ shownRead' = readAt
        /\ unread' = Counts(Len(log), readAt)
        /\ UNCHANGED <<log, readAt, view>>
    BY <1>14 DEF Reconnect
  <2>2. MarksTypeOK' BY <2>1, <1>t DEF MarksTypeOK, Counts
  <2>3. Len(wire') = 0 /\ Len(log') = Len(log) /\ Len(log) \in Nat BY <2>1, <1>t DEF MarksTypeOK
  <2>4. MessagesArrive'
    <3> DEFINE num == [i \in 0..0 |-> Len(log)]
    <3>1. PICK f : f = num OBVIOUS
    <3>2. f \in [0..Len(wire') -> 0..Len(log')] /\ Numbers(f)' BY <2>1, <2>3, <3>1 DEF Numbers
    <3> QED BY <3>2 DEF MessagesArrive
  <2>5. \A t \in Threads : MarkArrives(t)' BY <2>1, <2>3 DEF MarkArrives, NoneBehind
  <2>6. \A t \in Threads : unread'[t] = CountUnread(t, shown, shownRead)'
    BY <2>1 DEF Counts, CountUnread
  <2>7. StoresFollow' BY <2>1, <2>3, <2>6 DEF StoresFollow
  <2> QED BY <2>2, <2>4, <2>5, <2>7 DEF MarksInv
<1>15. CASE UNCHANGED markVars BY <1>9, <1>15 DEF markVars
<1> QED
  BY <1>1, <1>2, <1>3, <1>4, <1>5, <1>6, <1>10, <1>11, <1>12, <1>13, <1>14, <1>15 DEF MarksNext

\* recomputeUnreadStateFromReadCursors and events.ts: once nothing is on its way a
\* thread's count is the number of messages behind the account's mark, or it was
\* cleared by opening the thread.
THEOREM CountsBecomeTrue == MarksSpec => []CountsAreTrue
BY MarksInitOK, MarksStep, SettledIsTrue, PTL DEF MarksSpec

-----------------------------------------------------------------------------
(* The account of the connection *)

Identities == Accounts \cup {Anonymous}
FlowKinds == {"form", "poll", "correct", "start"}
FlowPlaces == {"register", "login", "status", "correct", "connect", "profile"}

FlowType ==
  [of : FlowKinds, who : Identities, pc : FlowPlaces, password : Accounts \cup {Nobody},
   on : Identities \cup {Nobody}, view : BOOLEAN, page : BOOLEAN, cancelled : BOOLEAN, stale : BOOLEAN]

PageType ==
  [view : {"credentials", "forgot"}, pending : Accounts \cup {Nobody}, confirmed : BOOLEAN,
   password : Accounts \cup {Nobody}, notice : BOOLEAN]

\* A flow of a page is some account's, and asks for the row of the identity it found.
FlowOK(f) ==
  /\ f \in FlowType
  /\ f.of # "start" => f.who \in Accounts
  /\ f.of = "start" => f.pc = "connect"
  /\ f.pc = "profile" => f.on = f.who /\ f.who \in Accounts

\* The attempts to connect that nobody has abandoned, of which there is one at most.
Attempts(fs) == {f \in fs : f.pc = "connect" /\ ~f.stale}
FlowsOK(fs) == (\A f \in fs : FlowOK(f)) /\ \A f, g \in Attempts(fs) : f = g

\* What two sets of flows have in common when the second is the first as it is seen
\* from another page.
Follow(fs, gs) ==
  FlowsOK(gs) /\ \A g \in Attempts(gs) : \E f \in Attempts(fs) : g.who = f.who

\* The rows and the tokens that the connection was made with.
AccountOK(tk, ss, lk, us, nm, er) ==
  /\ lk.who # Nobody => tk = lk.who
  /\ tk \in Accounts => ss = tk \/ er
  /\ us # Nobody => us \in Accounts /\ lk = [who |-> us, synced |-> TRUE] /\ nm[us] = us

\* An attempt to connect runs for the stored token, and has applied no rows.
AttemptsOK(fs, tk, lk) == \A f \in Attempts(fs) : ~lk.synced /\ (f.who \in Accounts => tk = f.who)

SignInInv ==
  /\ page \in PageType /\ slot \in Accounts \cup {Nobody}
  /\ token \in Identities \cup {Nobody} /\ user \in Accounts \cup {Nobody}
  /\ link \in [who : Identities \cup {Nobody}, synced : BOOLEAN]
  /\ named \in [Accounts -> Accounts \cup {Nobody}] /\ \A i \in Accounts : named[i] \in {Nobody, i}
  /\ FlowsOK(flows) /\ AttemptsOK(flows, token, link)
  /\ AccountOK(token, session, link, user, named, early)

LEMMA SignInHolds == SignInInv => OneAccount
<1> SUFFICES ASSUME SignInInv, user # Nobody PROVE OneAccount
  BY DEF OneAccount
<1>1. link = [who |-> user, synced |-> TRUE] /\ named[user] = user /\ user \in Accounts
  BY DEF SignInInv, AccountOK
<1>2. token = user BY <1>1 DEF SignInInv, AccountOK
<1>3. session = token \/ early BY <1>1, <1>2, Zenon DEF SignInInv, AccountOK
<1> QED BY <1>1, <1>2, <1>3, Zenon DEF OneAccount

LEMMA SignInInitOK == SignInInit => SignInInv
<1> SUFFICES ASSUME SignInInit PROVE SignInInv
  OBVIOUS
<1> USE SignInAssumption DEF SignInInit
<1>1. page \in PageType BY DEF Fresh, PageType
<1>2. link.who = Nobody /\ link \in [who : Identities \cup {Nobody}, synced : BOOLEAN]
  BY DEF Down
<1>3. AccountOK(token, session, link, user, named, early) BY <1>2 DEF AccountOK
<1>4. FlowsOK(flows) /\ AttemptsOK(flows, token, link) BY DEF FlowsOK, AttemptsOK, Attempts
<1> QED BY <1>1, <1>2, <1>3, <1>4 DEF SignInInv

\* A flow that is seen from another page is the same flow.
SameFlow(g, f) ==
  /\ g \in FlowType /\ g.of = f.of /\ g.who = f.who /\ g.pc = f.pc /\ g.on = f.on
  /\ g.password = f.password

LEMMA SeenFlowIsSame ==
  ASSUME NEW f \in FlowType, NEW p, NEW u
  PROVE  SameFlow(SeenFlow(f, p, u), f) /\ SeenFlow(f, p, u).stale = f.stale
<1>1. PICK a \in BOOLEAN : a = (f.view /\ FormShown(p, u)) OBVIOUS
<1>2. PICK b \in BOOLEAN : b = (f.page /\ u = Nobody) OBVIOUS
<1>3. PICK c \in BOOLEAN : c = (f.cancelled \/ u # Nobody \/ Watched(p) # Watched(page)) OBVIOUS
<1> DEFINE g == [f EXCEPT !.view = a, !.page = b, !.cancelled = c]
<1>4. SeenFlow(f, p, u) = g BY <1>1, <1>2, <1>3, Zenon DEF SeenFlow
<1>5. SameFlow(g, f) /\ g.stale = f.stale BY DEF FlowType, SameFlow
<1> QED BY <1>4, <1>5

LEMMA SameFlowIsOK ==
  ASSUME NEW f, FlowOK(f), NEW g, SameFlow(g, f)
  PROVE FlowOK(g)
BY DEF FlowOK, SameFlow

LEMMA SeenFollows ==
  ASSUME NEW fs, FlowsOK(fs), NEW p, NEW u
  PROVE Follow(fs, Seen(fs, p, u))
<1>1. \A f \in fs : SameFlow(SeenFlow(f, p, u), f) /\ SeenFlow(f, p, u).stale = f.stale
  BY SeenFlowIsSame DEF FlowsOK, FlowOK
<1>2. ASSUME NEW g \in Attempts(Seen(fs, p, u))
      PROVE  \E f \in Attempts(fs) : g = SeenFlow(f, p, u) /\ g.who = f.who
  <2>1. PICK f \in fs : g = SeenFlow(f, p, u) BY DEF Attempts, Seen
  <2> QED BY <1>1, <2>1 DEF Attempts, SameFlow
<1>3. \A g \in Seen(fs, p, u) : FlowOK(g) BY <1>1, SameFlowIsOK DEF Seen, FlowsOK
<1> QED BY <1>2, <1>3 DEF Follow, FlowsOK

\* disconnect() leaves no attempt.
LEMMA AbandonedHasNone ==
  ASSUME NEW fs, FlowsOK(fs)
  PROVE FlowsOK(Abandoned(fs)) /\ Attempts(Abandoned(fs)) = {}
<1>1. ASSUME NEW g \in Abandoned(fs) PROVE FlowOK(g) /\ ~(g.pc = "connect" /\ ~g.stale)
  <2>1. PICK f \in fs : g = [f EXCEPT !.stale = f.stale \/ f.pc = "connect"] BY DEF Abandoned
  <2>2. PICK s \in BOOLEAN : s = (f.stale \/ f.pc = "connect") OBVIOUS
  <2>3. g = [f EXCEPT !.stale = s] BY <2>1, <2>2
  <2>4. FlowOK(f) /\ f \in FlowType BY DEF FlowsOK, FlowOK
  <2>5. SameFlow(g, f) /\ g.stale = s BY <2>3, <2>4 DEF FlowType, SameFlow
  <2> QED BY <2>2, <2>4, <2>5, SameFlowIsOK DEF SameFlow
<1> QED BY <1>1 DEF FlowsOK, Attempts

LEMMA PartOfFlows ==
  ASSUME NEW fs, FlowsOK(fs), NEW gs \in SUBSET fs
  PROVE FlowsOK(gs) /\ Follow(fs, gs) /\ Attempts(gs) \subseteq Attempts(fs)
BY DEF FlowsOK, Follow, Attempts

LEMMA NewFlowIsOK ==
  ASSUME NEW of \in FlowKinds \ {"start"}, NEW who \in Accounts,
         NEW pc \in {"register", "login", "status", "correct"}, NEW password \in Accounts \cup {Nobody}
  PROVE FlowOK(Flow(of, who, pc, password))
<1> DEFINE g == Flow(of, who, pc, password)
<1>1. (of = "form") \in BOOLEAN /\ (of # "start") \in BOOLEAN OBVIOUS
<1>2. g \in FlowType BY <1>1 DEF Flow, FlowType, FlowPlaces, Identities, FlowKinds
<1>3. g.of = of /\ g.who = who /\ g.pc = pc BY DEF Flow
<1> QED BY <1>2, <1>3 DEF FlowOK

\* A flow beside the others that is no attempt changes none of the attempts.
LEMMA BesideOthers ==
  ASSUME NEW fs, FlowsOK(fs), NEW g, FlowOK(g), g.pc # "connect"
  PROVE FlowsOK(fs \cup {g}) /\ Attempts(fs \cup {g}) = Attempts(fs)
BY DEF FlowsOK, Attempts

LEMMA FreshIsPage ==
  ASSUME NEW pending \in Accounts \cup {Nobody} PROVE Fresh(pending) \in PageType
BY DEF Fresh, PageType

LEMMA ShownIsPage ==
  ASSUME page \in PageType, NEW f, NEW blocked PROVE Shown(f, blocked) \in PageType
<1>1. [page EXCEPT !.notice = TRUE] \in PageType /\ [page EXCEPT !.confirmed = TRUE] \in PageType
  BY DEF PageType
<1> QED BY <1>1, Zenon DEF Shown

LEMMA ShowFollows ==
  ASSUME NEW p \in PageType, NEW fs, FlowsOK(fs), Show(p, fs)
  PROVE page' \in PageType /\ user' = user /\ Follow(fs, flows')
BY SeenFollows DEF Show

LEMMA ErrsFollows ==
  ASSUME SignInInv, NEW f \in flows, NEW blocked, Errs(f, blocked)
  PROVE page' \in PageType /\ user' = user /\ Follow(flows \ {f}, flows')
BY ShowFollows, ShownIsPage, PartOfFlows DEF Errs, SignInInv

LEMMA SetUserFollows ==
  ASSUME page \in PageType, slot' \in Accounts \cup {Nobody}, NEW u, NEW fs, FlowsOK(fs), SetUser(u, fs)
  PROVE page' \in PageType /\ user' = u /\ Follow(fs, flows')
<1>1. CASE u = user BY <1>1, PartOfFlows DEF SetUser
<1>2. CASE u # user
  <2>1. /\ page' = Fresh(IF u = Nobody THEN slot' ELSE Nobody) /\ flows' = Seen(fs, page', u)
        /\ user' = u
    BY <1>2 DEF SetUser
  <2>2. (IF u = Nobody THEN slot' ELSE Nobody) \in Accounts \cup {Nobody} OBVIOUS
  <2>3. page' \in PageType BY <2>1, <2>2, FreshIsPage
  <2>4. PICK p : p = page' OBVIOUS
  <2>5. Follow(fs, flows') BY <2>1, <2>4, SeenFollows
  <2> QED BY <2>1, <2>3, <2>5
<1> QED BY <1>1, <1>2

\* A step that leaves the connection, its token and the user alone.
LEMMA QuietFlows ==
  ASSUME SignInInv, UNCHANGED <<token, link, user>>, page' \in PageType, slot' \in Accounts \cup {Nobody},
         \/ UNCHANGED named
         \/ \E i \in Accounts : named' = [named EXCEPT ![i] = IF named[i] = Nobody THEN i ELSE named[i]],
         token \in Accounts => session' = token \/ early',
         NEW fs, Attempts(fs) \subseteq Attempts(flows), Follow(fs, flows')
  PROVE SignInInv'
<1>1. AttemptsOK(flows', token', link')
  BY DEF SignInInv, AttemptsOK, Follow
<1>2. /\ named' \in [Accounts -> Accounts \cup {Nobody}]
      /\ \A i \in Accounts : named'[i] \in {Nobody, i} /\ (named[i] = i => named'[i] = i)
  BY SignInAssumption DEF SignInInv
<1>3. user' # Nobody => user' \in Accounts /\ link' = [who |-> user', synced |-> TRUE] /\ named'[user'] = user'
  BY <1>2 DEF SignInInv, AccountOK
<1>4. link'.who # Nobody => token' = link'.who BY DEF SignInInv, AccountOK
<1>5. AccountOK(token', session', link', user', named', early')
  BY <1>3, <1>4, Zenon DEF AccountOK
<1> QED BY <1>1, <1>2, <1>5 DEF SignInInv, Follow

\* A step after which nobody is signed in and the connection is down.
LEMMA Torn ==
  ASSUME SignInInv, link' = Down, user' = Nobody, page' \in PageType, slot' \in Accounts \cup {Nobody},
         UNCHANGED named, token' \in Identities \cup {Nobody},
         token' \in Accounts => session' = token' \/ early',
         FlowsOK(flows'), \A f \in Attempts(flows') : f.who \in Accounts => token' = f.who
  PROVE SignInInv'
<1>1. /\ link' \in [who : Identities \cup {Nobody}, synced : BOOLEAN]
      /\ link'.who = Nobody /\ ~link'.synced
  BY DEF Down
<1>2. AttemptsOK(flows', token', link') BY <1>1 DEF AttemptsOK
<1>3. AccountOK(token', session', link', user', named', early')
  BY <1>1, Zenon DEF AccountOK
<1> QED BY <1>1, <1>2, <1>3 DEF SignInInv

\* persistPendingRegistration and the page's setters.
LEMMA PendFollows ==
  ASSUME SignInInv, NEW x \in Accounts, NEW password \in Accounts \cup {Nobody}, NEW f,
         NEW fs, FlowsOK(fs), Pend(x, password, f, fs)
  PROVE page' \in PageType /\ slot' = x /\ user' = user /\ Follow(fs, flows')
<1>1. CASE f.page
  <2>1. PICK a \in BOOLEAN : a = (f.of # "form" /\ page.confirmed) OBVIOUS
  <2>2. PICK b : b = IF f.of = "form" THEN password ELSE page.password OBVIOUS
  <2> DEFINE p == [page EXCEPT !.pending = x, !.confirmed = a, !.password = b]
  <2>3. page \in PageType BY DEF SignInInv
  <2>4. b \in Accounts \cup {Nobody} BY <2>2, <2>3 DEF PageType
  <2>5. p \in PageType BY <2>3, <2>4 DEF PageType
  <2>6. Show(p, fs) BY <1>1, <2>1, <2>2 DEF Pend
  <2> HIDE DEF p
  <2> QED BY <2>5, <2>6, ShowFollows DEF Pend
<1>2. CASE ~f.page BY <1>2, PartOfFlows DEF Pend, SignInInv
<1> QED BY <1>1, <1>2

\* A flow goes on to /auth/login, or ends.
LEMMA ToLoginFollows ==
  ASSUME SignInInv, NEW f, FlowOK(f), f.of # "start", NEW fs \in SUBSET flows, ToLogin(f, fs)
  PROVE /\ page' \in PageType /\ user' = user
        /\ FlowsOK(flows') /\ \E gs : Attempts(gs) \subseteq Attempts(flows) /\ Follow(gs, flows')
<1>1. FlowsOK(fs) /\ Attempts(fs) \subseteq Attempts(flows) BY PartOfFlows DEF SignInInv
<1>2. CASE \E g \in fs : g.pc = "login"
  <2>1. Show(Shown(f, FALSE), fs) BY <1>2 DEF ToLogin
  <2> QED BY <1>1, <2>1, ShowFollows, ShownIsPage DEF SignInInv, Follow
<1>3. CASE ~\E g \in fs : g.pc = "login"
  <2> DEFINE g == [f EXCEPT !.pc = "login"]
  <2>1. f \in FlowType BY DEF FlowOK
  <2>2. g \in FlowType /\ g.of = f.of /\ g.who = f.who /\ g.pc = "login"
    BY <2>1 DEF FlowType, FlowPlaces
  <2>3. flows' = fs \cup {g} /\ UNCHANGED <<page, user>> BY <1>3 DEF ToLogin
  <2> HIDE DEF g
  <2>4. FlowOK(g) BY <2>2 DEF FlowOK
  <2>5. FlowsOK(flows') /\ Attempts(flows') = Attempts(fs) BY <1>1, <2>2, <2>3, <2>4, BesideOthers
  <2>6. Follow(fs, flows') BY <2>5 DEF Follow
  <2> QED BY <1>1, <2>3, <2>5, <2>6 DEF SignInInv
<1> QED BY <1>2, <1>3

\* The end of a connect: the row is there, or is asked for.
LEMMA TakeRowKeepsInv ==
  ASSUME SignInInv, NEW f \in flows, f.pc = "connect", f.who \in Accounts, TakeRow(f, f.who),
         link' \in [who : Identities \cup {Nobody}, synced : BOOLEAN], link'.who = f.who,
         link' = link \/ user = Nobody,
         token' = f.who, token = f.who, UNCHANGED <<session, early, named>>,
         AttemptsOK(flows \ {f}, token, link')
  PROVE SignInInv'
<1>f. FlowsOK(flows \ {f}) BY PartOfFlows DEF SignInInv
<1>i. FlowOK(f) /\ f \in FlowType BY DEF SignInInv, FlowsOK, FlowOK
<1>n. f.who # Nobody /\ named[f.who] \in {Nobody, f.who} BY SignInAssumption DEF SignInInv
<1>s. session' = token' \/ early'
  <2>1. session = token \/ early BY Zenon DEF SignInInv, AccountOK
  <2> QED BY <2>1
<1>x. ASSUME page' \in PageType, slot' \in Accounts \cup {Nobody}, FlowsOK(flows'),
             AttemptsOK(flows', token', link'),
             user' = user \/ (user' = f.who /\ link'.synced /\ named[f.who] # Nobody)
      PROVE SignInInv'
  <2>1. user' # Nobody => user' \in Accounts /\ link' = [who |-> user', synced |-> TRUE] /\ named'[user'] = user'
    <3>1. CASE user' = user BY <3>1 DEF SignInInv, AccountOK
    <3>2. CASE user' = f.who /\ link'.synced /\ named[f.who] # Nobody BY <3>2, <1>n
    <3> QED BY <3>1, <3>2, <1>x
  <2>2. AccountOK(token', session', link', user', named', early')
    BY <2>1, <1>s, Zenon DEF AccountOK
  <2>3. user' \in Accounts \cup {Nobody} /\ token' \in Identities \cup {Nobody}
    BY <1>x DEF SignInInv, Identities
  <2> QED BY <1>x, <2>2, <2>3 DEF SignInInv
<1>1. CASE link'.synced /\ named[f.who] # Nobody
  <2>1. SetUser(f.who, flows \ {f}) /\ slot' \in Accounts \cup {Nobody}
    BY <1>1 DEF TakeRow, SignedIn, KeepPending, ClearPending, SignInInv
  <2>2. page' \in PageType /\ user' = f.who /\ Follow(flows \ {f}, flows')
    BY <2>1, <1>f, SetUserFollows DEF SignInInv
  <2>3. AttemptsOK(flows', token', link') BY <2>2 DEF Follow, AttemptsOK
  <2> QED BY <1>1, <1>x, <2>1, <2>2, <2>3 DEF Follow
<1>2. CASE ~(link'.synced /\ named[f.who] # Nobody) /\ f.of = "start"
  <2>1. flows' = flows \ {f} /\ UNCHANGED <<page, user, slot>>
    BY <1>2 DEF TakeRow, KeepPending
  <2>2. AttemptsOK(flows', token', link') BY <2>1
  <2> QED BY <2>1, <2>2, <1>f, <1>x DEF SignInInv
<1>3. CASE ~(link'.synced /\ named[f.who] # Nobody) /\ f.of # "start"
  <2> DEFINE g == [f EXCEPT !.pc = "profile", !.stale = FALSE, !.on = f.who]
  <2>1. flows' = (flows \ {f}) \cup {g} /\ UNCHANGED <<page, user, slot>>
    BY <1>3 DEF TakeRow, KeepPending
  <2>2. g \in FlowType /\ g.of = f.of /\ g.who = f.who /\ g.pc = "profile" /\ g.on = f.who
    BY <1>i DEF FlowType, FlowPlaces, Identities
  <2> HIDE DEF g
  <2>3. FlowOK(g) BY <2>2, <1>3 DEF FlowOK
  <2>4. FlowsOK(flows') /\ Attempts(flows') = Attempts(flows \ {f})
    BY <2>1, <2>2, <2>3, <1>f, BesideOthers
  <2>5. AttemptsOK(flows', token', link') BY <2>4 DEF AttemptsOK
  <2> QED BY <2>1, <2>4, <2>5, <1>x DEF SignInInv
<1> QED BY <1>1, <1>2, <1>3

LEMMA SignInStep == SignInInv /\ [SignInNext]_signInVars => SignInInv'
<1> SUFFICES ASSUME SignInInv, [SignInNext]_signInVars PROVE SignInInv'
  OBVIOUS
<1>t. /\ page \in PageType /\ slot \in Accounts \cup {Nobody} /\ FlowsOK(flows)
      /\ AttemptsOK(flows, token, link) /\ AccountOK(token, session, link, user, named, early)
      /\ token \in Identities \cup {Nobody} /\ user \in Accounts \cup {Nobody}
      /\ \A f \in flows : FlowOK(f) /\ f.who \in Identities /\ f.password \in Accounts \cup {Nobody}
  BY DEF SignInInv, FlowsOK, FlowOK, FlowType
<1>p. page.pending \in Accounts \cup {Nobody} /\ page.password \in Accounts \cup {Nobody}
  BY <1>t DEF PageType
<1>s. token \in Accounts => session = token \/ early
  BY <1>t, Zenon DEF AccountOK
<1>r. \A f \in flows : FlowsOK(flows \ {f}) /\ Attempts(flows \ {f}) \subseteq Attempts(flows)
  BY <1>t, PartOfFlows
<1>who. \A f \in flows : f.pc # "connect" => f.of # "start" /\ f.who \in Accounts
  BY <1>t DEF FlowOK
<1>down. ASSUME NEW f \in Attempts(flows)
         PROVE  user = Nobody /\ Attempts(flows \ {f}) = {} /\ f \in flows /\ f.pc = "connect"
  BY <1>t DEF AttemptsOK, AccountOK, FlowsOK, Attempts
\* One more flow that is no attempt.
<1>new. ASSUME NEW f, FlowOK(f), f.pc # "connect", flows' = flows \cup {f},
               UNCHANGED <<page, slot, session, token, named, link, user, early>>
        PROVE SignInInv'
  <2>1. FlowsOK(flows') /\ Follow(flows, flows')
    BY <1>new, <1>t, BesideOthers DEF Follow
  <2> QED BY <1>new, <2>1, <1>t, <1>s, QuietFlows
<1>1. ASSUME NEW x \in Accounts, NEW pc \in {"register", "login"}, Submit(x, pc) PROVE SignInInv'
  <2>1. PICK password \in {x, Nobody} : flows' = flows \cup {Flow("form", x, pc, password)}
    BY <1>1 DEF Submit
  <2>2. FlowOK(Flow("form", x, pc, password)) BY NewFlowIsOK DEF FlowKinds
  <2>3. Flow("form", x, pc, password).pc # "connect" BY DEF Flow
  <2> QED BY <2>1, <2>2, <2>3, <1>1, <1>new DEF Submit, kept, server
<1>2. CASE PollTick
  <2> DEFINE f == Flow("poll", page.pending, "status", page.password)
  <2>1. page.pending \in Accounts BY <1>2, <1>p DEF PollTick
  <2>2. FlowOK(f) BY <2>1, <1>p, NewFlowIsOK DEF FlowKinds
  <2>3. f.pc # "connect" BY DEF Flow
  <2> QED BY <2>2, <2>3, <1>2, <1>new DEF PollTick, kept, server
<1>3. CASE StartCorrection
  <2> DEFINE f == Flow("correct", page.pending, "correct", Nobody)
  <2>1. page.pending \in Accounts BY <1>3, <1>p DEF StartCorrection
  <2>2. FlowOK(f) BY <2>1, NewFlowIsOK DEF FlowKinds
  <2>3. f.pc # "connect" BY DEF Flow
  <2> QED BY <2>2, <2>3, <1>3, <1>new DEF StartCorrection, kept, server
\* A flow that ends leaves the others as they are seen from the page that is shown.
<1>ends. ASSUME NEW f \in flows, NEW p \in PageType, Show(p, flows \ {f}), slot' \in Accounts \cup {Nobody},
                UNCHANGED <<token, link, named>>, token \in Accounts => session' = token \/ early'
         PROVE SignInInv'
  BY <1>ends, <1>r, ShowFollows, QuietFlows
<1>errs. ASSUME NEW f \in flows, NEW blocked, Errs(f, blocked), slot' \in Accounts \cup {Nobody},
                UNCHANGED <<token, link, named>>, token \in Accounts => session' = token \/ early'
         PROVE SignInInv'
  BY <1>errs, <1>t, <1>ends, ShownIsPage DEF Errs
<1>4. ASSUME NEW f \in flows, RegisterAnswered(f) PROVE SignInInv'
  <2>1. f.of # "start" /\ f.who \in Accounts /\ UNCHANGED <<named, token, link>>
    BY <1>4, <1>who DEF RegisterAnswered
  <2>2. CASE Pend(f.who, f.who, f, flows \ {f}) /\ UNCHANGED <<session, early>>
    <3>1. page' \in PageType /\ slot' = f.who /\ user' = user /\ Follow(flows \ {f}, flows')
      BY <2>1, <2>2, <1>r, PendFollows
    <3> QED BY <3>1, <2>1, <2>2, <1>r, <1>s, QuietFlows
  <2>3. CASE /\ session' = f.who /\ early' = (early \/ token \notin {Nobody, f.who})
             /\ ToLogin([f EXCEPT !.password = f.who], flows \ {f}) /\ KeepPending
    <3> DEFINE g == [f EXCEPT !.password = f.who]
    <3>1. f \in FlowType /\ FlowOK(f) BY <1>t DEF FlowOK
    <3>2. SameFlow([g EXCEPT !.password = f.password], f) /\ g \in FlowType /\ g.of = f.of /\ g.who = f.who
          /\ g.pc = f.pc /\ g.on = f.on
      BY <2>1, <3>1 DEF FlowType, SameFlow
    <3>3. ToLogin(g, flows \ {f}) BY <2>3
    <3> HIDE DEF g
    <3>4. FlowOK(g) BY <3>1, <3>2 DEF FlowOK
    <3>5. /\ page' \in PageType /\ user' = user
          /\ \E gs : Attempts(gs) \subseteq Attempts(flows) /\ Follow(gs, flows')
      BY <2>1, <3>2, <3>3, <3>4, ToLoginFollows
    <3>6. token \notin {Nobody, f.who} => early' BY <2>3, Zenon
    <3>7. token \in Accounts => session' = token \/ early' BY <2>3, <3>6, SignInAssumption
    <3> QED BY <2>1, <2>3, <3>5, <3>7, <1>t, QuietFlows DEF KeepPending
  <2>4. CASE Errs(f, FALSE) /\ KeepPending /\ UNCHANGED <<session, early>>
    BY <2>1, <2>4, <1>t, <1>s, <1>errs DEF KeepPending
  <2> QED BY <1>4, <2>2, <2>3, <2>4 DEF RegisterAnswered
<1>5. ASSUME NEW f \in flows, StatusAnswered(f) PROVE SignInInv'
  <2>1. UNCHANGED <<named, session, token, link, early>> /\ f.of # "start"
    BY <1>5, <1>who DEF StatusAnswered, server
  <2>2. CASE Show(page, flows \ {f}) /\ KeepPending
    BY <2>1, <2>2, <1>t, <1>s, <1>ends DEF KeepPending
  <2>3. CASE StatusActive(f)
    <3>1. CASE Errs(f, FALSE) BY <2>1, <2>3, <3>1, <1>t, <1>s, <1>errs DEF StatusActive, KeepPending
    <3>2. CASE ToLogin(f, flows \ {f})
      <4>1. /\ page' \in PageType /\ user' = user
            /\ \E gs : Attempts(gs) \subseteq Attempts(flows) /\ Follow(gs, flows')
        BY <2>1, <3>2, <1>t, ToLoginFollows
      <4> QED BY <2>1, <2>3, <4>1, <1>t, <1>s, QuietFlows DEF StatusActive, KeepPending
    <3> QED BY <2>3, <3>1, <3>2 DEF StatusActive
  <2>4. CASE ClearPending /\ Show([page EXCEPT !.pending = Nobody, !.notice = TRUE], flows \ {f})
    <3>1. [page EXCEPT !.pending = Nobody, !.notice = TRUE] \in PageType BY <1>t DEF PageType
    <3> QED BY <2>1, <2>4, <3>1, <1>s, <1>ends DEF ClearPending
  <2> QED BY <1>5, <2>2, <2>3, <2>4, Zenon DEF StatusAnswered
<1>6. ASSUME NEW f \in flows, StatusUnknown(f) PROVE SignInInv'
  BY <1>6, <1>t, <1>s, <1>ends DEF StatusUnknown, kept, server
<1>7. ASSUME NEW f \in flows, CorrectionAnswered(f) PROVE SignInInv'
  <2>1. UNCHANGED <<named, session, token, link, early>> /\ f.who \in Accounts
    BY <1>7, <1>who DEF CorrectionAnswered, server
  <2> DEFINE gs == {[g EXCEPT !.cancelled = TRUE] : g \in flows \ {f}}
  <2>2. CASE Pend(f.who, Nobody, f, gs)
    <3>1. ASSUME NEW g \in flows \ {f}
          PROVE  SameFlow([g EXCEPT !.cancelled = TRUE], g) /\ [g EXCEPT !.cancelled = TRUE].stale = g.stale
      <4>1. g \in FlowType BY <1>t DEF FlowOK
      <4> QED BY <4>1 DEF FlowType, SameFlow
    <3>2. \A h \in gs : FlowOK(h) BY <3>1, <1>t, SameFlowIsOK
    <3>3. ASSUME NEW h \in Attempts(gs)
          PROVE  \E g \in Attempts(flows \ {f}) : h = [g EXCEPT !.cancelled = TRUE] /\ h.who = g.who
      <4>1. PICK g \in flows \ {f} : h = [g EXCEPT !.cancelled = TRUE] BY DEF Attempts
      <4> QED BY <3>1, <4>1 DEF Attempts, SameFlow
    <3> HIDE DEF gs
    <3>o. \A g, h \in Attempts(flows \ {f}) : g = h BY <1>r DEF FlowsOK
    <3>u. ASSUME NEW h \in Attempts(gs), NEW k \in Attempts(gs) PROVE h = k
      <4>1. PICK g \in Attempts(flows \ {f}) : h = [g EXCEPT !.cancelled = TRUE] BY <3>3
      <4>2. PICK m \in Attempts(flows \ {f}) : k = [m EXCEPT !.cancelled = TRUE] BY <3>3
      <4>3. g = m BY <3>o
      <4> QED BY <4>1, <4>2, <4>3
    <3>4. FlowsOK(gs) /\ Follow(flows \ {f}, gs)
      <4>1. FlowsOK(gs) BY <3>2, <3>u, Zenon DEF FlowsOK
      <4>2. \A h \in Attempts(gs) : \E g \in Attempts(flows \ {f}) : h.who = g.who BY <3>3, Zenon
      <4> QED BY <4>1, <4>2, Zenon DEF Follow
    <3>5. page' \in PageType /\ slot' = f.who /\ user' = user /\ Follow(gs, flows')
      BY <2>1, <2>2, <3>4, PendFollows
    <3>6. Follow(flows \ {f}, flows') BY <3>4, <3>5 DEF Follow
    <3> QED BY <2>1, <3>5, <3>6, <1>r, <1>s, QuietFlows
  <2>3. CASE Show(page, flows \ {f}) /\ KeepPending
    BY <2>1, <2>3, <1>t, <1>s, <1>ends DEF KeepPending
  <2> QED BY <1>7, <2>2, <2>3 DEF CorrectionAnswered
\* disconnect(), before which the next attempt may begin.
<1>cut. ASSUME NEW fs \in SUBSET flows, NEW starting, Disconnect(fs, starting), slot' \in Accounts \cup {Nobody},
               \A f \in starting : FlowOK(f) /\ f.who = token', \A f, g \in starting : f = g,
               UNCHANGED named, token' \in Identities \cup {Nobody},
               token' \in Accounts => session' = token' \/ early'
        PROVE SignInInv'
  <2>1. FlowsOK(Abandoned(fs)) /\ Attempts(Abandoned(fs)) = {} BY <1>t, AbandonedHasNone, PartOfFlows
  <2>2. FlowsOK(Abandoned(fs) \cup starting) /\ Attempts(Abandoned(fs) \cup starting) \subseteq starting
    BY <2>1, <1>cut DEF FlowsOK, Attempts
  <2>3. link' = Down /\ SetUser(Nobody, Abandoned(fs) \cup starting) BY <1>cut DEF Disconnect
  <2>4. page' \in PageType /\ user' = Nobody /\ Follow(Abandoned(fs) \cup starting, flows')
    BY <2>2, <2>3, <1>cut, <1>t, SetUserFollows
  <2>5. \A f \in Attempts(flows') : f.who = token' BY <2>2, <2>4, <1>cut DEF Follow
  <2> QED BY <2>3, <2>4, <2>5, <1>cut, Torn DEF Follow
<1>8. ASSUME NEW f \in flows, LoginAnswered(f) PROVE SignInInv'
  <2>1. UNCHANGED <<named, early>> BY <1>8 DEF LoginAnswered, server
  <2>2. CASE Errs(f, f.password = f.who /\ Blocked(f.who)) /\ UNCHANGED <<kept, link>>
    BY <2>1, <2>2, <1>t, <1>s, <1>errs DEF kept
  <2>3. CASE /\ session' = f.who /\ token' = f.who /\ UNCHANGED slot
             /\ Disconnect(flows \ {f}, {[f EXCEPT !.pc = "connect"]})
    <3> DEFINE g == [f EXCEPT !.pc = "connect"]
    <3>1. FlowOK(f) /\ f \in FlowType /\ f.who \in Accounts /\ f.of # "start"
      BY <1>8, <1>t, <1>who DEF LoginAnswered, FlowOK
    <3>2. g \in FlowType /\ g.of = f.of /\ g.who = f.who /\ g.pc = "connect"
      BY <3>1 DEF FlowType, FlowPlaces
    <3>3. FlowOK(g) BY <3>1, <3>2 DEF FlowOK
    <3>4. Disconnect(flows \ {f}, {g}) BY <2>3
    <3> HIDE DEF g
    <3>5. \A h \in {g} : FlowOK(h) /\ h.who = token' BY <2>3, <3>2, <3>3
    <3>6. token' \in Identities BY <2>3, <3>1 DEF Identities
    <3> QED BY <2>1, <2>3, <3>4, <3>5, <3>6, <1>t, <1>cut
  <2> QED BY <1>8, <2>2, <2>3 DEF LoginAnswered
<1>9. ASSUME NEW f \in flows, SocketOpens(f) PROVE SignInInv'
  <2>1. /\ f \in Attempts(flows) /\ link = Down /\ link' = [who |-> f.who, synced |-> FALSE] /\ token' = f.who
        /\ UNCHANGED <<named, page, slot, session, user, flows, early>>
    BY <1>9 DEF SocketOpens, Attempts, server
  <2>2. user = Nobody /\ \A g \in Attempts(flows) : g = f BY <2>1, <1>t, <1>down DEF FlowsOK
  <2>3. f.who \in Accounts => token = f.who BY <2>1, <1>t DEF AttemptsOK
  <2>4. link'.who = f.who /\ ~link'.synced /\ link' \in [who : Identities \cup {Nobody}, synced : BOOLEAN]
    BY <2>1, <1>t
  <2>5. AttemptsOK(flows', token', link') BY <2>1, <2>2, <2>4 DEF AttemptsOK
  <2>6. token' \in Accounts => session' = token' \/ early' BY <2>1, <2>3, <1>s
  <2>7. AccountOK(token', session', link', user', named', early')
    BY <2>1, <2>2, <2>4, <2>6, Zenon DEF AccountOK
  <2>8. token' \in Identities \cup {Nobody} BY <2>1, <1>t
  <2> QED BY <2>1, <2>4, <2>5, <2>7, <2>8 DEF SignInInv
<1>10. ASSUME NEW f \in flows, RowsApplied(f) PROVE SignInInv'
  <2>1. /\ f \in Attempts(flows) /\ link = [who |-> f.who, synced |-> FALSE]
        /\ link' = [link EXCEPT !.synced = TRUE] /\ UNCHANGED <<named, session, token, early>>
    BY <1>10 DEF RowsApplied, Attempts, server
  <2>2. user = Nobody /\ Attempts(flows \ {f}) = {} BY <2>1, <1>down
  <2>3. link' = [who |-> f.who, synced |-> TRUE] BY <2>1
  <2>4. link'.who = f.who /\ link' \in [who : Identities \cup {Nobody}, synced : BOOLEAN] BY <2>3, <1>t
  <2>5. AttemptsOK(flows \ {f}, token, link') BY <2>2 DEF AttemptsOK
  <2>w. link.who = f.who BY <2>1
  <2>6. CASE f.who = Anonymous
    <3>1. flows' = flows \ {f} /\ UNCHANGED <<page, user, slot>>
      BY <1>10, <2>6 DEF RowsApplied, KeepPending
    <3>2. token = Anonymous BY <2>w, <2>6, <1>t, SignInAssumption DEF AccountOK
    <3>3. AccountOK(token', session', link', user', named', early')
      BY <2>1, <2>2, <2>4, <2>6, <3>1, <3>2, SignInAssumption, Zenon DEF AccountOK
    <3>4. AttemptsOK(flows', token', link') BY <2>1, <2>5, <3>1
    <3> QED BY <2>1, <2>4, <3>1, <3>3, <3>4, <1>r DEF SignInInv
  <2>7. CASE f.who # Anonymous
    <3>1. f.who \in Accounts BY <2>7, <1>t DEF Identities
    <3>2. TakeRow(f, f.who) BY <1>10, <2>7 DEF RowsApplied
    <3>3. token = f.who BY <2>1, <3>1, <1>t DEF AttemptsOK
    <3>4. f.pc = "connect" BY <2>1 DEF Attempts
    <3> QED BY <2>1, <2>2, <2>4, <2>5, <3>1, <3>2, <3>3, <3>4, TakeRowKeepsInv
  <2> QED BY <2>6, <2>7
<1>11. ASSUME NEW f \in flows, ConnectFails(f) PROVE SignInInv'
  <2>1. f \in Attempts(flows) /\ link' = Down /\ Errs(f, FALSE) /\ UNCHANGED <<named, slot, early>>
    BY <1>11 DEF ConnectFails, Attempts, server
  <2>2. user = Nobody /\ Attempts(flows \ {f}) = {} BY <2>1, <1>down
  <2>3. page' \in PageType /\ user' = user /\ Follow(flows \ {f}, flows') BY <2>1, ErrsFollows
  <2>4. FlowsOK(flows') /\ Attempts(flows') = {} BY <2>2, <2>3 DEF Follow
  <2>5. token' \in {token, Nobody} /\ (token' = Nobody \/ (token' = token /\ session' = session))
    BY <1>11 DEF ConnectFails
  <2>6. token' \in Accounts => session' = token' \/ early' BY <2>1, <2>5, <1>s, SignInAssumption
  <2> QED BY <2>1, <2>2, <2>3, <2>4, <2>5, <2>6, <1>t, Torn
<1>12. ASSUME NEW f \in flows, AbandonedReturns(f) PROVE SignInInv'
  <2>1. f.pc = "connect" /\ f.stale /\ UNCHANGED <<named, session, early>>
    BY <1>12 DEF AbandonedReturns, server
  <2>2. CASE f.of = "start"
    <3>1. flows' = flows \ {f} /\ UNCHANGED <<page, user, link, token, slot>>
      BY <1>12, <2>2 DEF AbandonedReturns, KeepPending
    <3>2. Follow(flows, flows') BY <3>1, <1>t, PartOfFlows
    <3> QED BY <2>1, <3>1, <3>2, <1>t, <1>s, QuietFlows
  <2>3. CASE f.of # "start" /\ Admitted(f)
    <3>1. UNCHANGED <<link, token>> /\ TakeRow(f, link.who) /\ link.who = f.who /\ f.who \in Accounts
      BY <1>12, <2>3, <1>t DEF AbandonedReturns, Admitted, FlowOK
    <3>2. token = f.who BY <3>1, <1>t, SignInAssumption DEF AccountOK
    <3>3. AttemptsOK(flows \ {f}, token, link') BY <3>1, <1>r, <1>t DEF AttemptsOK
    <3>4. link' \in [who : Identities \cup {Nobody}, synced : BOOLEAN] BY <3>1 DEF SignInInv
    <3> QED BY <2>1, <3>1, <3>2, <3>3, <3>4, TakeRowKeepsInv
  <2>4. CASE f.of # "start" /\ ~Admitted(f)
    <3>1. token' = Nobody /\ UNCHANGED slot /\ link' = Down
      BY <1>12, <2>4 DEF AbandonedReturns, KeepPending
    <3>2. CASE user = Nobody
      <4>1. /\ page' = Shown(f, FALSE) /\ user' = Nobody
            /\ flows' = Seen(Abandoned(flows \ {f}), page', user)
        BY <1>12, <2>4, <3>2 DEF AbandonedReturns
      <4>2. page' \in PageType BY <4>1, <1>t, ShownIsPage
      <4>3. FlowsOK(Abandoned(flows \ {f})) /\ Attempts(Abandoned(flows \ {f})) = {}
        BY <1>r, AbandonedHasNone
      <4>4. PICK q : q = page' OBVIOUS
      <4>5. Follow(Abandoned(flows \ {f}), flows') BY <4>1, <4>3, <4>4, SeenFollows
      <4>6. FlowsOK(flows') /\ Attempts(flows') = {} BY <4>3, <4>5 DEF Follow
      <4> QED BY <2>1, <3>1, <4>1, <4>2, <4>6, <1>t, SignInAssumption, Torn
    <3>3. CASE user # Nobody
      <4>1. Disconnect(flows \ {f}, {}) BY <1>12, <2>4, <3>3 DEF AbandonedReturns
      <4> QED BY <2>1, <3>1, <4>1, <1>t, SignInAssumption, <1>cut
    <3> QED BY <3>2, <3>3
  <2> QED BY <2>2, <2>3, <2>4
<1>13. ASSUME NEW f \in flows, ProfileAnswered(f) PROVE SignInInv'
  <2> DEFINE registered == [named EXCEPT ![f.on] = IF named[f.on] = Nobody THEN f.who ELSE named[f.on]]
  <2>1. f.on = f.who /\ f.who \in Accounts /\ UNCHANGED <<session, token, early>>
    BY <1>13, <1>t DEF ProfileAnswered, FlowOK
  <2>2. CASE /\ link = [who |-> f.on, synced |-> TRUE] /\ named' = registered /\ UNCHANGED link
             /\ SignedIn(f, flows \ {f})
    <3>1. link'.who = f.who /\ link'.synced /\ link.who = f.who BY <2>1, <2>2
    <3>2. SetUser(f.who, flows \ {f}) /\ slot' \in Accounts \cup {Nobody}
      BY <2>2, <3>1, <1>t DEF SignedIn, KeepPending, ClearPending
    <3>3. page' \in PageType /\ user' = f.who /\ Follow(flows \ {f}, flows')
      BY <3>2, <1>r, <1>t, SetUserFollows
    <3>4. /\ named' \in [Accounts -> Accounts \cup {Nobody}]
          /\ \A i \in Accounts : named'[i] \in {Nobody, i}
          /\ named'[f.who] = f.who
      BY <2>1, <2>2, SignInAssumption DEF SignInInv
    <3>5. link' = [who |-> f.who, synced |-> TRUE] /\ token' = f.who
      BY <2>1, <2>2, <3>1, <1>t, SignInAssumption DEF AccountOK
    <3>6. session' = token' \/ early' BY <2>1, <3>5, <1>s
    <3>7. AccountOK(token', session', link', user', named', early')
      BY <2>1, <3>1, <3>3, <3>4, <3>5, <3>6, Zenon DEF AccountOK
    <3>8. AttemptsOK(flows', token', link')
      BY <2>1, <2>2, <3>3, <1>r, <1>t DEF Follow, AttemptsOK
    <3>9. user' \in Accounts \cup {Nobody} /\ token' \in Identities \cup {Nobody}
          /\ link' \in [who : Identities \cup {Nobody}, synced : BOOLEAN]
      BY <2>1, <2>2, <3>3, <1>t DEF SignInInv
    <3> QED BY <3>2, <3>3, <3>4, <3>7, <3>8, <3>9 DEF SignInInv, Follow
  <2>3. CASE named' \in {named, registered} /\ Errs(f, FALSE) /\ KeepPending /\ UNCHANGED link
    <3>1. page' \in PageType /\ user' = user /\ Follow(flows \ {f}, flows') BY <2>3, ErrsFollows
    <3>2. \/ named' = named
          \/ \E i \in Accounts : named' = [named EXCEPT ![i] = IF named[i] = Nobody THEN i ELSE named[i]]
      BY <2>1, <2>3
    <3> QED BY <2>1, <2>3, <3>1, <3>2, <1>r, <1>s, <1>t, QuietFlows DEF KeepPending
  <2> QED BY <1>13, <2>2, <2>3 DEF ProfileAnswered
<1>14. CASE BackToSignIn
  <2>1. slot' = Nobody /\ Show(Fresh(Nobody), flows) /\ UNCHANGED <<named, session, token, link, early>>
    BY <1>14 DEF BackToSignIn, server
  <2>2. page' \in PageType /\ user' = user /\ Follow(flows, flows')
    BY <2>1, <1>t, ShowFollows, FreshIsPage
  <2> QED BY <2>1, <2>2, <1>t, <1>s, QuietFlows
<1>15. CASE TurnPage
  <2>1. UNCHANGED <<named, slot, session, token, link, early>> BY <1>15 DEF TurnPage, server, kept
  <2>2. PICK q \in {[page EXCEPT !.notice = FALSE]} \cup
                   (IF page.notice THEN {}
                    ELSE {[page EXCEPT !.view = IF page.view = "forgot" THEN "credentials" ELSE "forgot"]}) :
          Show(q, flows)
    BY <1>15 DEF TurnPage
  <2>3. q \in PageType BY <1>t DEF PageType
  <2>4. page' \in PageType /\ user' = user /\ Follow(flows, flows') BY <2>2, <2>3, <1>t, ShowFollows
  <2> QED BY <2>1, <2>4, <1>t, <1>s, QuietFlows
<1>16. ASSUME NEW x \in Accounts, Administer(x) PROVE SignInInv'
  <2>1. UNCHANGED <<named, page, slot, session, token, link, user, flows, early>>
    BY <1>16 DEF Administer, kept
  <2>2. Follow(flows, flows') BY <2>1, <1>t, PartOfFlows
  <2> QED BY <2>1, <2>2, <1>t, <1>s, QuietFlows
<1>17. CASE SignOut
  <2>1. token' = Nobody /\ UNCHANGED <<slot, named>> /\ Disconnect(flows, {})
    BY <1>17 DEF SignOut, server
  <2> QED BY <2>1, <1>t, SignInAssumption, <1>cut
<1>18. CASE Reload
  <2> DEFINE who == IF token = Nobody THEN Anonymous ELSE token
  <2> DEFINE f == Flow("start", who, "connect", Nobody)
  <2>1. /\ link' = Down /\ user' = Nobody /\ page' = Fresh(slot) /\ flows' = {f}
        /\ UNCHANGED <<named, slot, session, token, early>>
    BY <1>18 DEF Reload, server, kept
  <2>2. who \in Identities BY <1>t DEF Identities
  <2>3. f \in FlowType
    <3>1. ("start" = "form") \in BOOLEAN /\ ("start" # "start") \in BOOLEAN OBVIOUS
    <3> QED BY <3>1, <2>2 DEF Flow, FlowType, FlowPlaces, FlowKinds
  <2>4. f.of = "start" /\ f.who = who /\ f.pc = "connect" BY DEF Flow
  <2> HIDE DEF f
  <2>5. FlowsOK(flows') /\ \A g \in Attempts(flows') : g = f
    BY <2>1, <2>3, <2>4 DEF FlowsOK, FlowOK, Attempts
  <2>6. who \in Accounts => token' = who BY <2>1, SignInAssumption
  <2>7. page' \in PageType BY <2>1, <1>t, FreshIsPage
  <2>8. \A g \in Attempts(flows') : g.who \in Accounts => token' = g.who BY <2>4, <2>5, <2>6
  <2>9. token' \in Accounts => session' = token' \/ early' BY <2>1, <1>s
  <2> QED BY <2>1, <2>5, <2>7, <2>8, <2>9, <1>t, Torn
<1>19. CASE UNCHANGED signInVars
  <2>1. UNCHANGED <<named, page, slot, session, token, link, user, flows, early>>
    BY <1>19 DEF signInVars
  <2>2. Follow(flows, flows') BY <2>1, <1>t, PartOfFlows
  <2> QED BY <2>1, <2>2, <1>t, <1>s, QuietFlows
<1> QED
  BY <1>1, <1>2, <1>3, <1>4, <1>5, <1>6, <1>7, <1>8, <1>9, <1>10, <1>11, <1>12, <1>13, <1>14, <1>15,
     <1>16, <1>17, <1>18, <1>19 DEF SignInNext, Continue

\* loginWithPassword and authService.ts: a signed-in user is always the account of the
\* connection, of its chat token and of the core-api session, under its own username.
THEOREM OneAccountAtATime == SignInSpec => []OneAccount
BY SignInInitOK, SignInStep, SignInHolds, PTL DEF SignInSpec

-----------------------------------------------------------------------------
(* The pause between two confirmation mails *)

MailTypeOK ==
  /\ now \in Nat /\ stored \in Nat /\ shared \in Nat
  /\ tab \in [Tabs -> [open : BOOLEAN, until : Nat, drawn : BOOLEAN, sending : BOOLEAN, correcting : BOOLEAN]]
  /\ inbox \in [Tabs -> Seq(Nat)]

\* A shown tab that has written what it shows, and will hear of nothing else, shows
\* what is stored.
UpToDate(t) ==
  tab[t].open /\ ~tab[t].drawn /\ (\A i \in 1..Len(inbox[t]) : inbox[t][i] = tab[t].until)
    => tab[t].until = stored

MailInv == MailTypeOK /\ \A t \in Tabs : UpToDate(t)

LEMMA WriteFollows ==
  ASSUME MailInv, NEW t \in Tabs, NEW v \in Nat, Write(t, v),
         NEW new \in [open : BOOLEAN, until : Nat, drawn : BOOLEAN, sending : BOOLEAN, correcting : BOOLEAN],
         tab' = [tab EXCEPT ![t] = new], now' = now, shared' \in Nat,
         new.open /\ ~new.drawn => new.until = v
  PROVE  MailInv'
<1>. USE DEF MailInv
<1>1. MailTypeOK'
  <2>1. stored' \in Nat
    BY DEF Write
  <2>2. \A o \in Tabs : Append(inbox[o], v) \in Seq(Nat) /\ inbox[o] \in Seq(Nat)
    BY DEF MailTypeOK
  <2>3. inbox' \in [Tabs -> Seq(Nat)]
    BY <2>2 DEF Write
  <2>. QED  BY <2>1, <2>3 DEF MailTypeOK
<1>2. UpToDate(t)'
  BY DEF UpToDate, Write, MailTypeOK
<1>3. ASSUME NEW o \in Tabs, o # t PROVE UpToDate(o)'
  <2>1. tab'[o] = tab[o] /\ stored' = v
    BY <1>3 DEF Write, MailTypeOK
  <2>2. CASE v = stored
    <3>1. inbox'[o] = inbox[o]
      BY <2>2 DEF Write
    <3>. QED  BY <2>1, <2>2, <3>1 DEF UpToDate
  <2>3. CASE v # stored
    <3>1. inbox'[o] = Append(inbox[o], v) /\ inbox[o] \in Seq(Nat)
      BY <1>3, <2>3 DEF Write, MailTypeOK
    <3>2. Len(inbox'[o]) \in 1..Len(inbox'[o]) /\ inbox'[o][Len(inbox'[o])] = v
      BY <3>1
    <3>. QED  BY <2>1, <3>2 DEF UpToDate
  <2>. QED  BY <2>2, <2>3
<1>. QED  BY <1>1, <1>2, <1>3

\* What changes one tab's other fields changes nothing here.
LEMMA AsideFollows ==
  ASSUME MailInv, NEW t \in Tabs,
         NEW new \in [open : BOOLEAN, until : Nat, drawn : BOOLEAN, sending : BOOLEAN, correcting : BOOLEAN],
         tab' = [tab EXCEPT ![t] = new], UNCHANGED <<now, stored, shared, inbox>>,
         \/ new.drawn \/ ~new.open
         \/ new.open = tab[t].open /\ new.drawn = tab[t].drawn /\ new.until = tab[t].until
  PROVE  MailInv'
<1>. USE DEF MailInv
<1>1. MailTypeOK'
  BY DEF MailTypeOK
<1>2. UpToDate(t)'
  BY DEF UpToDate, MailTypeOK
<1>3. ASSUME NEW o \in Tabs, o # t PROVE UpToDate(o)'
  BY <1>3 DEF UpToDate, MailTypeOK
<1>. QED  BY <1>1, <1>2, <1>3

LEMMA HearingFollows ==
  ASSUME MailInv, NEW t \in Tabs, OnStorage(t)
  PROVE  MailInv'
<1>. USE DEF MailInv
<1>1. inbox[t] \in Seq(Nat) /\ inbox[t] # <<>>
  BY DEF OnStorage, MailTypeOK
<1>2. PICK h : h = Head(inbox[t])
  OBVIOUS
<1>3. h \in Nat /\ h = inbox[t][1] /\ Tail(inbox[t]) \in Seq(Nat)
  BY <1>1, <1>2
<1>4. PICK new : new = Heard(tab[t], h)
  OBVIOUS
<1>5. /\ new \in [open : BOOLEAN, until : Nat, drawn : BOOLEAN, sending : BOOLEAN, correcting : BOOLEAN]
      /\ new = tab[t] \/ new.drawn
      /\ new = tab[t] => ~tab[t].open \/ tab[t].until = h \/ tab[t].drawn
  BY <1>3, <1>4 DEF Heard, MailTypeOK
<1>6. tab' = [tab EXCEPT ![t] = new] /\ inbox' = [inbox EXCEPT ![t] = Tail(inbox[t])]
      /\ UNCHANGED <<now, stored, shared>>
  BY <1>2, <1>4 DEF OnStorage, MailTypeOK
<1>7. MailTypeOK'
  BY <1>3, <1>5, <1>6 DEF MailTypeOK
<1>8. UpToDate(t)'
  <2>1. SUFFICES ASSUME new = tab[t], tab[t].open, ~tab[t].drawn,
                        \A i \in 1..Len(Tail(inbox[t])) : Tail(inbox[t])[i] = tab[t].until
                 PROVE  tab[t].until = stored
    BY <1>5, <1>6 DEF UpToDate, MailTypeOK
  <2>2. ASSUME NEW i \in 1..Len(inbox[t]) PROVE inbox[t][i] = tab[t].until
    <3>1. CASE i = 1
      BY <1>3, <1>5, <2>1, <3>1
    <3>2. CASE i # 1
      <4>1. i - 1 \in 1..Len(Tail(inbox[t])) /\ Tail(inbox[t])[i - 1] = inbox[t][i]
        BY <1>1, <3>2
      <4>. QED  BY <2>1, <4>1
    <3>. QED  BY <3>1, <3>2
  <2>. QED  BY <2>1, <2>2 DEF UpToDate
<1>9. ASSUME NEW o \in Tabs, o # t PROVE UpToDate(o)'
  BY <1>6, <1>9 DEF UpToDate, MailTypeOK
<1>. QED  BY <1>7, <1>8, <1>9

LEMMA MailStep == MailInv /\ [MailNext]_mailVars => MailInv'
<1>. SUFFICES ASSUME MailInv, [MailNext]_mailVars PROVE MailInv'
  OBVIOUS
<1>. DEFINE Tab == [open : BOOLEAN, until : Nat, drawn : BOOLEAN, sending : BOOLEAN, correcting : BOOLEAN]
<1>0. now + Pause \in Nat /\ now + InitialPause \in Nat /\ tab \in [Tabs -> Tab] /\ stored \in Nat
      /\ now \in Nat /\ shared \in Nat
  BY MailAssumption DEF MailInv, MailTypeOK
<1>1. ASSUME NEW t \in Tabs, Open(t) PROVE MailInv'
  <2>1. PICK new : new = [tab[t] EXCEPT !.open = TRUE, !.drawn = TRUE, !.sending = FALSE,
                            !.until = IF stored = 0 THEN now + InitialPause ELSE stored]
    OBVIOUS
  <2>2. new \in Tab /\ new.drawn
    BY <1>0, <2>1
  <2>3. tab' = [tab EXCEPT ![t] = new] /\ UNCHANGED <<now, stored, shared, inbox>>
    BY <1>0, <1>1, <2>1 DEF Open
  <2>. QED  BY <2>2, <2>3, AsideFollows
<1>2. ASSUME NEW t \in Tabs, Close(t) PROVE MailInv'
  <2>1. PICK new : new = [tab[t] EXCEPT !.open = FALSE, !.drawn = FALSE]
    OBVIOUS
  <2>2. new \in Tab /\ ~new.open
    BY <1>0, <2>1
  <2>3. tab' = [tab EXCEPT ![t] = new] /\ UNCHANGED <<now, stored, shared, inbox>>
    BY <1>0, <1>2, <2>1 DEF Close
  <2>. QED  BY <2>2, <2>3, AsideFollows
<1>3. ASSUME NEW t \in Tabs, Effect(t) PROVE MailInv'
  <2>1. PICK new : new = [tab[t] EXCEPT !.drawn = FALSE]
    OBVIOUS
  <2>2. new \in Tab /\ new.until = tab[t].until /\ tab[t].until \in Nat
    BY <1>0, <2>1
  <2>3. tab' = [tab EXCEPT ![t] = new] /\ Write(t, tab[t].until) /\ UNCHANGED <<now, shared>>
    BY <1>0, <1>3, <2>1 DEF Effect
  <2>. QED  BY <1>0, <2>2, <2>3, WriteFollows
<1>4. ASSUME NEW t \in Tabs, NEW changed \in Tab, StartPause(t, changed), now' = now PROVE MailInv'
  <2>1. PICK new : new = IF changed.open THEN [changed EXCEPT !.until = now + Pause, !.drawn = TRUE] ELSE changed
    OBVIOUS
  <2>2. new \in Tab /\ (new.open => new.drawn)
    BY <1>0, <2>1
  <2>3. tab' = [tab EXCEPT ![t] = new] /\ Write(t, now + Pause) /\ shared' = now + Pause
    BY <1>4, <2>1 DEF StartPause
  <2>. QED  BY <1>0, <1>4, <2>2, <2>3, WriteFollows
<1>5. ASSUME NEW t \in Tabs, Resend(t) PROVE MailInv'
  <2>1. PICK new : new = [tab[t] EXCEPT !.sending = TRUE]
    OBVIOUS
  <2>2. new \in Tab
    BY <1>0, <2>1
  <2>. QED  BY <1>4, <1>5, <2>1, <2>2 DEF Resend
<1>6. ASSUME NEW t \in Tabs, Corrected(t) PROVE MailInv'
  <2>1. PICK new : new = [tab[t] EXCEPT !.correcting = FALSE]
    OBVIOUS
  <2>2. new \in Tab
    BY <1>0, <2>1
  <2>. QED  BY <1>4, <1>6, <2>1, <2>2 DEF Corrected
<1>7. ASSUME NEW t \in Tabs, Answered(t) \/ Correct(t) \/ CorrectionFails(t) PROVE MailInv'
  <2>1. PICK new \in Tab : /\ tab' = [tab EXCEPT ![t] = new]
                           /\ new.open = tab[t].open /\ new.drawn = tab[t].drawn /\ new.until = tab[t].until
    <3>1. CASE Answered(t)
      <4>1. [tab[t] EXCEPT !.sending = FALSE] \in Tab
        BY <1>0
      <4>. QED  BY <1>0, <3>1, <4>1 DEF Answered
    <3>2. CASE Correct(t)
      <4>1. [tab[t] EXCEPT !.correcting = TRUE] \in Tab
        BY <1>0
      <4>. QED  BY <1>0, <3>2, <4>1 DEF Correct
    <3>3. CASE CorrectionFails(t)
      <4>1. [tab[t] EXCEPT !.correcting = FALSE] \in Tab
        BY <1>0
      <4>. QED  BY <1>0, <3>3, <4>1 DEF CorrectionFails
    <3>. QED  BY <1>7, <3>1, <3>2, <3>3
  <2>2. UNCHANGED <<now, stored, shared, inbox>>
    BY <1>7 DEF Answered, Correct, CorrectionFails
  <2>. QED  BY <2>1, <2>2, AsideFollows
<1>8. CASE MomentPasses \/ UNCHANGED mailVars
  BY <1>8 DEF MomentPasses, mailVars, MailInv, MailTypeOK, UpToDate
<1>. QED
  BY <1>1, <1>2, <1>3, <1>5, <1>6, <1>7, <1>8, HearingFollows DEF MailNext

\* However requests, corrections, renders and storage events of any number of tabs
\* interleave, once nothing is under way all tabs count down to the stored moment
\* (ConfirmationEmailActions.tsx, useConfirmationCooldown).
THEOREM TabsComeToAgree == MailSpec => []TabsAgree
<1>1. MailInit => MailInv
  BY MailAssumption DEF MailInit, MailInv, MailTypeOK, UpToDate, Closed
<1>2. MailInv => TabsAgree
  BY DEF MailInv, MailTypeOK, UpToDate, TabsAgree, Quiet
<1>. QED  BY <1>1, <1>2, MailStep, PTL DEF MailSpec

-----------------------------------------------------------------------------
(* Sequences without repetition *)

Once(s) == \A i, j \in 1..Len(s) : s[i] = s[j] => i = j
Apart(S, T) == S \cap T = {}

LEMMA RangeIs ==
  ASSUME NEW S, NEW s \in Seq(S)
  PROVE  Range(s) = {s[i] : i \in 1..Len(s)} /\ Range(s) \subseteq S
BY DEF Range

LEMMA JoinOnce ==
  ASSUME NEW S, NEW s \in Seq(S), NEW t \in Seq(S)
  PROVE  /\ s \o t \in Seq(S)
         /\ Range(s \o t) = Range(s) \cup Range(t)
         /\ Once(s) /\ Once(t) /\ Apart(Range(s), Range(t)) => Once(s \o t)
<1>1. s \o t \in Seq(S) /\ Len(s \o t) = Len(s) + Len(t)
  OBVIOUS
<1>2. \A i \in 1..Len(s) : (s \o t)[i] = s[i]
  OBVIOUS
<1>3. \A i \in (Len(s) + 1)..(Len(s) + Len(t)) : (s \o t)[i] = t[i - Len(s)] /\ i - Len(s) \in 1..Len(t)
  OBVIOUS
<1>4. \A j \in 1..Len(t) : (s \o t)[Len(s) + j] = t[j] /\ Len(s) + j \in 1..Len(s \o t)
  OBVIOUS
<1>5. \A i \in 1..Len(s \o t) : i \in 1..Len(s) \/ i \in (Len(s) + 1)..(Len(s) + Len(t))
  OBVIOUS
<1>6. 1..Len(s) \subseteq 1..Len(s \o t) /\ Len(s) \in Nat /\ Len(t) \in Nat
  BY <1>1
<1>7. /\ Range(s) = {s[i] : i \in 1..Len(s)} /\ Range(t) = {t[i] : i \in 1..Len(t)}
      /\ Range(s \o t) = {(s \o t)[i] : i \in 1..Len(s \o t)}
  BY <1>1, RangeIs
<1> DEFINE r == s \o t
<1>8. Range(r) = Range(s) \cup Range(t)
  <2> HIDE DEF r
  <2>1. \A x \in Range(r) : x \in Range(s) \cup Range(t)
    BY <1>2, <1>3, <1>5, <1>7 DEF r
  <2>2. \A x \in Range(s) : x \in Range(r)
    BY <1>2, <1>6, <1>7 DEF r
  <2>3. \A x \in Range(t) : x \in Range(r)
    BY <1>4, <1>7 DEF r
  <2>. QED
    BY <2>1, <2>2, <2>3
<1>9. ASSUME Once(s), Once(t), Apart(Range(s), Range(t)) PROVE Once(r)
  <2> SUFFICES ASSUME NEW i \in 1..Len(r), NEW j \in 1..Len(r), r[i] = r[j] PROVE i = j
    BY DEF Once
  <2>1. CASE i \in 1..Len(s) /\ j \in 1..Len(s)
    BY <1>2, <1>9, <2>1 DEF Once
  <2>2. CASE i \in (Len(s) + 1)..(Len(s) + Len(t)) /\ j \in (Len(s) + 1)..(Len(s) + Len(t))
    <3>1. t[i - Len(s)] = t[j - Len(s)]
      BY <1>3, <2>2
    <3>2. i - Len(s) = j - Len(s)
      BY <1>3, <1>9, <2>2, <3>1 DEF Once
    <3>. QED
      BY <1>6, <2>2, <3>2
  <2>3. ASSUME NEW x \in 1..Len(s), NEW y \in (Len(s) + 1)..(Len(s) + Len(t)), r[x] = r[y] PROVE FALSE
    BY <1>2, <1>3, <1>7, <1>9, <2>3 DEF Apart
  <2>. QED
    BY <1>5, <2>1, <2>2, <2>3
<1> HIDE DEF r
<1>. QED
  BY <1>1, <1>8, <1>9 DEF r

LEMMA CutOnce ==
  ASSUME NEW S, NEW s \in Seq(S), Once(s), NEW k \in 1..(Len(s) + 1)
  PROVE  LET A == SubSeq(s, 1, k - 1)
             B == SubSeq(s, k, Len(s))
         IN /\ A \in Seq(S) /\ B \in Seq(S) /\ Once(A) /\ Once(B)
            /\ Len(A) = k - 1 /\ Len(B) = Len(s) - k + 1
            /\ Apart(Range(A), Range(B)) /\ Range(s) = Range(A) \cup Range(B)
<1> DEFINE A == SubSeq(s, 1, k - 1)
           B == SubSeq(s, k, Len(s))
<1>1. A \in Seq(S) /\ Len(A) = k - 1 /\ \A i \in 1..(k - 1) : A[i] = s[i]
  OBVIOUS
<1>2. B \in Seq(S) /\ Len(B) = Len(s) - k + 1 /\ \A i \in 1..(Len(s) - k + 1) : B[i] = s[i + k - 1]
  OBVIOUS
<1>3. Len(s) \in Nat /\ k \in Nat
      /\ \A i \in 1..Len(s) : i \in 1..(k - 1) \/ (i - k + 1 \in 1..(Len(s) - k + 1) /\ (i - k + 1) + k - 1 = i)
  OBVIOUS
<1>4. \A i \in 1..(k - 1) : i \in 1..Len(s)
  OBVIOUS
<1>5. \A i \in 1..(Len(s) - k + 1) : i + k - 1 \in 1..Len(s) /\ i + k - 1 >= k
  OBVIOUS
<1> HIDE DEF A, B
<1>6. /\ Range(A) = {A[i] : i \in 1..Len(A)} /\ Range(B) = {B[i] : i \in 1..Len(B)}
      /\ Range(s) = {s[i] : i \in 1..Len(s)}
  BY <1>1, <1>2, RangeIs
<1>7. Once(A)
  BY <1>1, <1>4 DEF Once
<1>8. Once(B)
  <2>1. ASSUME NEW i \in 1..Len(B), NEW j \in 1..Len(B), B[i] = B[j] PROVE i = j
    <3>1. i + k - 1 = j + k - 1
      BY <1>2, <1>5, <2>1 DEF Once
    <3>. QED
      BY <1>2, <1>3, <3>1
  <2>. QED
    BY <2>1 DEF Once
<1>9. Apart(Range(A), Range(B))
  <2>1. ASSUME NEW i \in 1..(k - 1), NEW j \in 1..(Len(s) - k + 1), A[i] = B[j] PROVE FALSE
    <3>1. s[i] = s[j + k - 1]
      BY <1>1, <1>2, <2>1
    <3>2. i = j + k - 1
      BY <1>4, <1>5, <3>1 DEF Once
    <3>. QED
      BY <1>3, <1>5, <3>2
  <2>. QED
    BY <1>1, <1>2, <1>6, <2>1 DEF Apart
<1>10. Range(s) = Range(A) \cup Range(B)
  <2>1. ASSUME NEW i \in 1..Len(s) PROVE s[i] \in Range(A) \cup Range(B)
    <3>1. CASE i \in 1..(k - 1)
      BY <1>1, <1>6, <3>1
    <3>2. CASE i - k + 1 \in 1..(Len(s) - k + 1) /\ (i - k + 1) + k - 1 = i
      <4>1. B[i - k + 1] = s[i]
        BY <1>2, <3>2
      <4>. QED
        BY <1>2, <1>6, <3>2, <4>1
    <3>. QED
      BY <1>3, <3>1, <3>2
  <2>2. \A x \in Range(A) \cup Range(B) : x \in Range(s)
    BY <1>1, <1>2, <1>4, <1>5, <1>6
  <2>. QED
    BY <1>6, <2>1, <2>2
<1>. QED
  BY <1>1, <1>2, <1>7, <1>8, <1>9, <1>10 DEF A, B

\* A sequence of distinct elements around one of them.
LEMMA SplitOnce ==
  ASSUME NEW S, NEW s \in Seq(S), Once(s), NEW i \in 1..Len(s)
  PROVE  LET A == SubSeq(s, 1, i - 1)
             B == SubSeq(s, i + 1, Len(s))
         IN /\ A \in Seq(S) /\ B \in Seq(S) /\ Once(A) /\ Once(B)
            /\ Len(A) = i - 1 /\ Len(B) = Len(s) - i
            /\ Apart(Range(A), Range(B)) /\ s[i] \notin Range(A) \cup Range(B)
            /\ Range(s) = Range(A) \cup {s[i]} \cup Range(B)
<1> DEFINE A == SubSeq(s, 1, i - 1)
           C == SubSeq(s, i, Len(s))
           B == SubSeq(s, i + 1, Len(s))
           D == SubSeq(s, 1, i)
<1>0. Len(s) \in Nat /\ i \in Nat /\ i \in 1..(Len(s) + 1) /\ i + 1 \in 1..(Len(s) + 1) /\ (i + 1) - 1 = i
      /\ s[i] \in S
  OBVIOUS
<1>1. /\ A \in Seq(S) /\ C \in Seq(S) /\ Once(A) /\ Once(C) /\ Len(A) = i - 1
      /\ Apart(Range(A), Range(C)) /\ Range(s) = Range(A) \cup Range(C)
  BY <1>0, CutOnce
<1>2. /\ B \in Seq(S) /\ D \in Seq(S) /\ Once(B) /\ Once(D) /\ Len(B) = Len(s) - (i + 1) + 1
      /\ Apart(Range(D), Range(B)) /\ Range(s) = Range(D) \cup Range(B)
  BY <1>0, CutOnce
<1>3. /\ Len(D) = i /\ \A j \in 1..i : D[j] = s[j]
      /\ Len(A) = i - 1 /\ \A j \in 1..(i - 1) : A[j] = s[j]
  OBVIOUS
<1>4. Len(C) >= 1 /\ C[1] = s[i]
  OBVIOUS
<1> HIDE DEF A, B, C, D
<1>5. Range(A) = {A[j] : j \in 1..Len(A)} /\ Range(D) = {D[j] : j \in 1..Len(D)} /\ Range(C) = {C[j] : j \in 1..Len(C)}
  BY <1>1, <1>2, RangeIs
<1>6. \A j \in 1..i : j \in 1..(i - 1) \/ j = i
  BY <1>0
<1>7. \A j \in 1..(i - 1) : j \in 1..i
  BY <1>0
<1>8. Range(D) = Range(A) \cup {s[i]}
  <2>1. \A x \in Range(D) : x \in Range(A) \cup {s[i]}
    BY <1>3, <1>5, <1>6
  <2>2. \A x \in Range(A) : x \in Range(D)
    BY <1>3, <1>5, <1>7
  <2>3. s[i] \in Range(D)
    BY <1>0, <1>3, <1>5
  <2>. QED
    BY <2>1, <2>2, <2>3
<1>9. s[i] \in Range(C)
  <2>1. 1 \in 1..Len(C)
    BY <1>1, <1>4
  <2>. QED
    BY <1>4, <1>5, <2>1
<1>10. Len(B) = Len(s) - i
  BY <1>0, <1>2
<1>. QED
  BY <1>1, <1>2, <1>8, <1>9, <1>10 DEF Apart, A, B

LEMMA OneItem ==
  ASSUME NEW S, NEW x \in S
  PROVE  <<x>> \in Seq(S) /\ Len(<<x>>) = 1 /\ Once(<<x>>) /\ Range(<<x>>) = {x}
<1>1. <<x>> \in Seq(S) /\ Len(<<x>>) = 1 /\ <<x>>[1] = x
  OBVIOUS
<1> DEFINE s == <<x>>
<1> HIDE DEF s
<1>2. \A i \in 1..1 : i = 1
  OBVIOUS
<1>3. Once(s) /\ Range(s) = {s[i] : i \in 1..Len(s)}
  BY <1>1, <1>2, RangeIs DEF Once, s
<1>. QED
  BY <1>1, <1>2, <1>3 DEF s

LEMMA AppendOnce ==
  ASSUME NEW S, NEW s \in Seq(S), Once(s), NEW x \in S, x \notin Range(s)
  PROVE  /\ Append(s, x) \in Seq(S) /\ Once(Append(s, x)) /\ Range(Append(s, x)) = Range(s) \cup {x}
         /\ Len(Append(s, x)) = Len(s) + 1
<1> DEFINE t == <<x>>
<1>1. t \in Seq(S) /\ Once(t) /\ Range(t) = {x}
  BY OneItem
<1>2. Append(s, x) = s \o t /\ Len(Append(s, x)) = Len(s) + 1
  BY AppendIsConcat
<1> HIDE DEF t
<1>3. Apart(Range(s), Range(t))
  BY <1>1 DEF Apart
<1>4. s \o t \in Seq(S) /\ Range(s \o t) = Range(s) \cup Range(t) /\ Once(s \o t)
  BY <1>1, <1>3, JoinOnce
<1>. QED
  BY <1>1, <1>2, <1>4

\* An element put in somewhere.
LEMMA InsertOnce ==
  ASSUME NEW S, NEW s \in Seq(S), Once(s), NEW k \in 1..(Len(s) + 1), NEW x \in S, x \notin Range(s)
  PROVE  /\ InsertAt(s, k, x) \in Seq(S) /\ Once(InsertAt(s, k, x))
         /\ Range(InsertAt(s, k, x)) = Range(s) \cup {x}
<1> DEFINE A == SubSeq(s, 1, k - 1)
           B == SubSeq(s, k, Len(s))
           t == <<x>>
<1>1. /\ A \in Seq(S) /\ B \in Seq(S) /\ Once(A) /\ Once(B)
      /\ Apart(Range(A), Range(B)) /\ Range(s) = Range(A) \cup Range(B)
  BY CutOnce
<1>2. t \in Seq(S) /\ Once(t) /\ Range(t) = {x}
  BY OneItem
<1>3. InsertAt(s, k, x) = (A \o t) \o B
  BY DEF InsertAt
<1> HIDE DEF A, B, t
<1>4. Apart(Range(A), Range(t))
  BY <1>1, <1>2 DEF Apart
<1>5. A \o t \in Seq(S) /\ Range(A \o t) = Range(A) \cup Range(t) /\ Once(A \o t)
  <2>1. A \in Seq(S) /\ Once(A) /\ t \in Seq(S) /\ Once(t)
    BY <1>1, <1>2
  <2>. QED
    BY <1>4, <2>1, JoinOnce
<1> DEFINE r == A \o t
<1>6. r \in Seq(S) /\ Range(r) = Range(A) \cup Range(t) /\ Once(r)
  BY <1>5
<1> HIDE DEF r
<1>7. Apart(Range(r), Range(B))
  BY <1>1, <1>2, <1>6 DEF Apart
<1>8. r \o B \in Seq(S) /\ Once(r \o B) /\ Range(r \o B) = Range(r) \cup Range(B)
  <2>1. r \in Seq(S) /\ Once(r) /\ B \in Seq(S) /\ Once(B)
    BY <1>1, <1>6
  <2>. QED
    BY <1>7, <2>1, JoinOnce
<1>9. InsertAt(s, k, x) = r \o B
  BY <1>3 DEF r
<1>10. Range(r \o B) = Range(s) \cup {x}
  BY <1>1, <1>2, <1>6, <1>8
<1>. QED
  BY <1>8, <1>9, <1>10


\* arrayMove keeps what it moves about.
LEMMA MoveOnce ==
  ASSUME NEW S, NEW s \in Seq(S), Once(s), NEW i \in 1..Len(s), NEW k \in 1..Len(s)
  PROVE  LET t == InsertAt(RemoveAt(s, i), k, s[i])
         IN t \in Seq(S) /\ Once(t) /\ Range(t) = Range(s)
<1> DEFINE A == SubSeq(s, 1, i - 1)
           B == SubSeq(s, i + 1, Len(s))
           r == A \o B
<1>1. /\ A \in Seq(S) /\ B \in Seq(S) /\ Once(A) /\ Once(B)
      /\ Len(A) = i - 1 /\ Len(B) = Len(s) - i
      /\ Apart(Range(A), Range(B)) /\ s[i] \notin Range(A) \cup Range(B)
      /\ Range(s) = Range(A) \cup {s[i]} \cup Range(B)
  BY SplitOnce
<1>2. RemoveAt(s, i) = r /\ s[i] \in S
  BY DEF RemoveAt
<1> HIDE DEF A, B
<1>3. r \in Seq(S) /\ Once(r) /\ Range(r) = Range(A) \cup Range(B)
  BY <1>1, JoinOnce
<1>4. Len(r) = Len(A) + Len(B)
  BY <1>1
<1>5. k \in 1..(Len(r) + 1)
  <2>1. Len(s) \in Nat /\ i \in Nat
    OBVIOUS
  <2>. QED
    BY <1>1, <1>4, <2>1
<1> HIDE DEF r
<1> DEFINE x == s[i]
<1>6. x \in S /\ x \notin Range(r) /\ Range(s) = Range(r) \cup {x}
  BY <1>1, <1>2, <1>3
<1> HIDE DEF x
<1>7. InsertAt(r, k, x) \in Seq(S) /\ Once(InsertAt(r, k, x)) /\ Range(InsertAt(r, k, x)) = Range(r) \cup {x}
  BY <1>3, <1>5, <1>6, InsertOnce
<1>. QED
  BY <1>2, <1>6, <1>7 DEF x

-----------------------------------------------------------------------------
(* What is computed one element after the other *)

LEMMA LeastNat ==
  ASSUME NEW S \in SUBSET Nat, S # {}
  PROVE  \E n \in S : \A m \in S : n <= m
<1> DEFINE R == OpToRel(<, Nat)
<1>1. IsWellFoundedOn(R, Nat)
  BY NatLessThanWellFounded
<1>2. \A m, n \in Nat : <<m, n>> \in R <=> m < n
  BY DEF OpToRel
<1> HIDE DEF R
<1>3. PICK n \in S : \A m \in S : ~ (<<m, n>> \in R)
  BY <1>1, WFMin
<1>4. ASSUME NEW m \in S PROVE n <= m
  <2>1. m \in Nat /\ n \in Nat /\ ~ (m < n)
    BY <1>2, <1>3
  <2>. QED
    BY <2>1
<1>. QED
  BY <1>4

\* From a value and a step for each place there is a value at each place.
StepsFrom(f, n, A, b, G) ==
  f \in [0..n -> A] /\ f[0] = b /\ \A i \in 1..n : f[i] = G[i][f[i - 1]]

LEMMA StepByStep ==
  ASSUME NEW n \in Nat, NEW A, NEW b \in A, NEW G \in [1..n -> [A -> A]]
  PROVE  \E f : StepsFrom(f, n, A, b, G)
<1> DEFINE Good(m, f) == f \in [0..m -> A] /\ f[0] = b /\ \A i \in 1..m : f[i] = G[i][f[i - 1]]
           Bad == {m \in 0..n : ~ \E f : Good(m, f)}
<1>1. Bad = {}
  <2> SUFFICES ASSUME Bad # {} PROVE FALSE
    OBVIOUS
  <2>1. PICK m \in Bad : \A k \in Bad : m <= k
    <3>1. Bad \in SUBSET Nat
      OBVIOUS
    <3> HIDE DEF Bad
    <3>. QED
      BY <3>1, LeastNat
  <2>2. m # 0
    <3>1. Good(0, [i \in 0..0 |-> b])
      OBVIOUS
    <3>. QED
      BY <3>1
  <2>3. m \in 1..n /\ m - 1 \in 0..n /\ m - 1 \notin Bad
    <3>1. m \in 0..n
      OBVIOUS
    <3> HIDE DEF Bad
    <3>2. m \in 1..n /\ m - 1 \in 0..n /\ ~ (m <= m - 1)
      BY <2>2, <3>1
    <3>. QED
      BY <2>1, <3>2
  <2>4. PICK f : Good(m - 1, f)
    BY <2>3
  <2> DEFINE h == [i \in 0..m |-> IF i = m THEN G[m][f[m - 1]] ELSE f[i]]
  <2>5. f[m - 1] \in A /\ G[m][f[m - 1]] \in A
    BY <2>3, <2>4
  <2>6. h \in [0..m -> A]
    <3>1. \A i \in 0..m : i = m \/ i \in 0..(m - 1)
      BY <2>3
    <3>. QED
      BY <2>4, <2>5, <3>1
  <2>7. h[0] = b
    BY <2>3, <2>4
  <2>8. ASSUME NEW i \in 1..m PROVE h[i] = G[i][h[i - 1]]
    <3>1. i \in 0..m /\ i - 1 \in 0..m /\ i - 1 # m /\ h[i - 1] = f[i - 1]
      BY <2>3
    <3>2. CASE i = m
      BY <2>3, <3>1, <3>2
    <3>3. CASE i # m
      <4>1. i \in 1..(m - 1) /\ h[i] = f[i]
        BY <2>3, <3>1, <3>3
      <4>. QED
        BY <2>4, <3>1, <4>1
    <3>. QED
      BY <3>2, <3>3
  <2>9. Good(m, h)
    BY <2>6, <2>7, <2>8
  <2>. QED
    BY <2>1, <2>9
<1>2. n \in 0..n
  OBVIOUS
<1>. QED
  BY <1>1, <1>2 DEF StepsFrom

Flat(f, seqs) == f = [i \in 1..Len(seqs) |-> IF i = 1 THEN seqs[i] ELSE f[i - 1] \o seqs[i]]

LEMMA FlattenIs ==
  ASSUME NEW S, NEW seqs \in Seq(Seq(S)), Len(seqs) # 0
  PROVE  \E f : /\ Flat(f, seqs) /\ FlattenSeq(seqs) = f[Len(seqs)]
                /\ f[1] = seqs[1]
                /\ \A i \in 2..Len(seqs) : f[i] = f[i - 1] \o seqs[i]
<1> DEFINE n == Len(seqs)
<1>1. n \in Nat /\ n >= 1 /\ \A i \in 1..n : seqs[i] \in Seq(S)
  OBVIOUS
<1>2. FlattenSeq(seqs) = (CHOOSE f : Flat(f, seqs))[n]
  BY Zenon DEF FlattenSeq, Flat
<1> HIDE DEF n
<1>3. \E f : Flat(f, seqs)
  <2> DEFINE G == [i \in 1..n |-> [a \in Seq(S) |-> a \o seqs[i]]]
  <2>1. G \in [1..n -> [Seq(S) -> Seq(S)]] /\ <<>> \in Seq(S)
    BY <1>1
  <2>2. \A i \in 1..n : \A a \in Seq(S) : G[i][a] = a \o seqs[i]
    OBVIOUS
  <2> HIDE DEF G
  <2>3. PICK f \in [0..n -> Seq(S)] : f[0] = <<>> /\ \A i \in 1..n : f[i] = G[i][f[i - 1]]
    <3> DEFINE A == Seq(S)
               b == <<>>
    <3>1. n \in Nat /\ b \in A /\ G \in [1..n -> [A -> A]]
      BY <1>1, <2>1
    <3> HIDE DEF A, b
    <3>2. PICK f : StepsFrom(f, n, A, b, G)
      BY <3>1, StepByStep
    <3>. QED
      BY <3>2 DEF StepsFrom, A, b
  <2> DEFINE h == [i \in 1..n |-> f[i]]
  <2>4. \A i \in 1..n : f[i] = IF i = 1 THEN seqs[i] ELSE h[i - 1] \o seqs[i]
    <3>1. ASSUME NEW i \in 1..n PROVE f[i] = f[i - 1] \o seqs[i]
      <4>1. i - 1 \in 0..n
        BY <1>1
      <4>. QED
        BY <2>2, <2>3, <4>1
    <3>2. f[1] = seqs[1]
      <4>1. 1 \in 1..n /\ 1 - 1 = 0
        BY <1>1
      <4>2. f[1] = <<>> \o seqs[1]
        BY <2>3, <3>1, <4>1
      <4>3. seqs[1] \in Seq(S)
        BY <1>1, <4>1
      <4>. QED
        BY <4>2, <4>3, ConcatEmptySeq
    <3>3. \A i \in 1..n : i # 1 => i - 1 \in 1..n /\ h[i - 1] = f[i - 1]
      BY <1>1
    <3>. QED
      BY <3>1, <3>2, <3>3
  <2>5. h = [i \in 1..n |-> IF i = 1 THEN seqs[i] ELSE h[i - 1] \o seqs[i]]
    BY <2>4
  <2>. QED
    BY <2>5 DEF Flat, n
<1>4. PICK f : Flat(f, seqs) /\ FlattenSeq(seqs) = f[n]
  BY <1>2, <1>3
<1>5. f[1] = seqs[1] /\ \A i \in 2..n : f[i] = f[i - 1] \o seqs[i]
  <2>1. \A i \in 1..n : f[i] = IF i = 1 THEN seqs[i] ELSE f[i - 1] \o seqs[i]
    BY <1>4 DEF Flat, n
  <2>2. 1 \in 1..n /\ \A i \in 2..n : i \in 1..n /\ i # 1
    BY <1>1
  <2>. QED
    BY <2>1, <2>2
<1>. QED
  BY <1>4, <1>5 DEF n

\* Flattening keeps the elements, and keeps them distinct if they were.
LEMMA FlattenOnce ==
  ASSUME NEW S, NEW seqs \in Seq(Seq(S))
  PROVE  /\ FlattenSeq(seqs) \in Seq(S)
         /\ Range(FlattenSeq(seqs)) = UNION {Range(seqs[i]) : i \in 1..Len(seqs)}
         /\ (/\ \A i \in 1..Len(seqs) : Once(seqs[i])
             /\ \A i, j \in 1..Len(seqs) : i # j => Apart(Range(seqs[i]), Range(seqs[j])))
            => Once(FlattenSeq(seqs))
<1> DEFINE n == Len(seqs)
           Distinct == /\ \A i \in 1..n : Once(seqs[i])
                       /\ \A i, j \in 1..n : i # j => Apart(Range(seqs[i]), Range(seqs[j]))
           UpTo(i) == UNION {Range(seqs[j]) : j \in 1..i}
<1>1. n \in Nat /\ \A i \in 1..n : seqs[i] \in Seq(S)
  OBVIOUS
<1>2. CASE n = 0
  <2>1. seqs = <<>> /\ FlattenSeq(seqs) = <<>>
    BY <1>2 DEF FlattenSeq
  <2>2. <<>> \in Seq(S) /\ Once(<<>>) /\ Range(<<>>) = {} /\ 1..0 = {}
    BY DEF Once, Range
  <2>. QED
    BY <1>2, <2>1, <2>2
<1>3. CASE n # 0
  <2>1. PICK f : /\ FlattenSeq(seqs) = f[n] /\ f[1] = seqs[1]
                 /\ \A i \in 2..n : f[i] = f[i - 1] \o seqs[i]
    BY <1>3, FlattenIs
  <2> DEFINE Good(i) == f[i] \in Seq(S) /\ Range(f[i]) = UpTo(i) /\ (Distinct => Once(f[i]))
             Bad == {i \in 1..n : ~ Good(i)}
  <2>2. Bad = {}
    <3> SUFFICES ASSUME Bad # {} PROVE FALSE
      OBVIOUS
    <3>1. Bad \in SUBSET Nat
      OBVIOUS
    <3>2. PICK i \in Bad : \A j \in Bad : i <= j
      <4> HIDE DEF Bad
      <4>. QED
        BY <3>1, LeastNat
    <3>3. i \in 1..n /\ ~ Good(i)
      OBVIOUS
    <3>4. i # 1
      <4>1. UpTo(1) = Range(seqs[1]) /\ 1 \in 1..n
        BY <3>3
      <4>. QED
        BY <1>1, <2>1, <3>3, <4>1
    <3>5. i - 1 \in 1..n /\ i \in 2..n /\ ~ (i <= i - 1)
      BY <1>1, <3>3, <3>4
    <3>6. Good(i - 1)
      BY <3>2, <3>5
    <3>7. UpTo(i) = UpTo(i - 1) \cup Range(seqs[i])
      <4>1. \A j \in Nat : j \in 1..i <=> j \in 1..(i - 1) \/ j = i
        BY <3>3, <3>5
      <4>2. \A x \in UpTo(i) : x \in UpTo(i - 1) \cup Range(seqs[i])
        BY <4>1
      <4>3. \A x \in UpTo(i - 1) \cup Range(seqs[i]) : x \in UpTo(i)
        BY <3>3, <4>1
      <4>. QED
        BY <4>2, <4>3
    <3>8. ASSUME Distinct PROVE Apart(UpTo(i - 1), Range(seqs[i]))
      <4>1. \A j \in 1..(i - 1) : j \in 1..n /\ j # i
        BY <1>1, <3>3
      <4>2. \A j \in 1..(i - 1) : Apart(Range(seqs[j]), Range(seqs[i]))
        BY <3>3, <3>8, <4>1
      <4>. QED
        BY <4>2 DEF Apart
    <3> DEFINE a == f[i - 1]
               s == seqs[i]
    <3>9. a \in Seq(S) /\ s \in Seq(S) /\ f[i] = a \o s
      BY <1>1, <2>1, <3>3, <3>5, <3>6
    <3>10. Range(a) = UpTo(i - 1) /\ (Distinct => Once(a) /\ Once(s))
      BY <3>3, <3>6
    <3> HIDE DEF a, s, UpTo, Distinct
    <3>11. a \o s \in Seq(S) /\ Range(a \o s) = Range(a) \cup Range(s)
      BY <3>9, JoinOnce
    <3>12. ASSUME Distinct PROVE Once(a \o s)
      <4>1. Apart(Range(a), Range(s)) /\ Once(a) /\ Once(s)
        BY <3>8, <3>10, <3>12 DEF s
      <4>. QED
        BY <3>9, <4>1, JoinOnce
    <3>13. Good(i)
      BY <3>7, <3>9, <3>10, <3>11, <3>12 DEF s
    <3>. QED
      BY <3>3, <3>13
  <2>3. n \in 1..n
    BY <1>1, <1>3
  <2>4. Good(n)
    BY <2>2, <2>3
  <2>. QED
    BY <2>1, <2>4
<1>. QED
  BY <1>2, <1>3

\* A filter drops D and repeats nothing.
LEMMA FilteredOnce ==
  ASSUME NEW S, NEW s \in Seq(S), NEW D
  PROVE  /\ Filtered(s, D) \in Seq(S)
         /\ Range(Filtered(s, D)) = Range(s) \ D
         /\ Once(s) => Once(Filtered(s, D))
<1> DEFINE ss == [i \in 1..Len(s) |-> IF s[i] \in D THEN <<>> ELSE <<s[i]>>]
<1>1. /\ ss \in Seq(Seq(S)) /\ Len(ss) = Len(s) /\ Len(s) \in Nat
      /\ \A i \in 1..Len(s) : s[i] \in S /\ ss[i] = IF s[i] \in D THEN <<>> ELSE <<s[i]>>
  OBVIOUS
<1>2. Filtered(s, D) = FlattenSeq(ss)
  BY DEF Filtered
<1> HIDE DEF ss
<1>3. Range(<<>>) = {} /\ Once(<<>>)
  BY DEF Range, Once
<1>4. \A i \in 1..Len(s) : Range(ss[i]) = (IF s[i] \in D THEN {} ELSE {s[i]}) /\ Once(ss[i])
  BY <1>1, <1>3, OneItem
<1>5. FlattenSeq(ss) \in Seq(S) /\ Range(FlattenSeq(ss)) = UNION {Range(ss[i]) : i \in 1..Len(ss)}
  BY <1>1, FlattenOnce
<1>6. UNION {Range(ss[i]) : i \in 1..Len(ss)} = Range(s) \ D
  <2>1. Range(s) = {s[i] : i \in 1..Len(s)}
    BY RangeIs
  <2>2. \A x : (\E i \in 1..Len(s) : x \in Range(ss[i])) <=> x \in Range(s) \ D
    BY <1>4, <2>1
  <2>. QED
    BY <1>1, <2>2
<1>7. ASSUME Once(s) PROVE Once(FlattenSeq(ss))
  <2>1. \A i, j \in 1..Len(s) : i # j => s[i] # s[j]
    BY <1>7 DEF Once
  <2>2. ASSUME NEW i \in 1..Len(ss), NEW j \in 1..Len(ss), i # j PROVE Apart(Range(ss[i]), Range(ss[j]))
    <3>1. s[i] # s[j]
      BY <1>1, <2>1, <2>2
    <3>2. Range(ss[i]) \subseteq {s[i]} /\ Range(ss[j]) \subseteq {s[j]}
      BY <1>1, <1>4
    <3>. QED
      BY <3>1, <3>2 DEF Apart
  <2>3. \A i \in 1..Len(ss) : Once(ss[i])
    BY <1>1, <1>4
  <2>. QED
    BY <1>1, <2>2, <2>3, FlattenOnce
<1>. QED
  BY <1>2, <1>5, <1>6, <1>7

\* A set in some order.
LEMMA SetToSeqOnce ==
  ASSUME NEW T, IsFiniteSet(T)
  PROVE  /\ SetToSeq(T) \in Seq(T) /\ Once(SetToSeq(T)) /\ Range(SetToSeq(T)) = T
         /\ Len(SetToSeq(T)) = Cardinality(T)
<1> DEFINE n == Cardinality(T)
           f == SetToSeq(T)
<1>1. n \in Nat /\ ExistsBijection(1..n, T)
  BY FS_CardinalityType
<1>2. PICK g \in Bijection(1..n, T) : TRUE
  BY <1>1 DEF ExistsBijection
<1>3. g \in [1..n -> T] /\ IsInjective(g)
  BY <1>2 DEF Bijection, Injection, Surjection, IsInjective
<1>4. f \in [1..n -> T] /\ IsInjective(f)
  BY <1>3 DEF SetToSeq
<1>5. f \in Injection(1..n, T)
  BY <1>4 DEF Injection, IsInjective
<1> HIDE DEF f, n
<1>6. IsFiniteSet(1..n) /\ Cardinality(1..n) = n
  BY <1>1, FS_Interval
<1>7. f \in Surjection(1..n, T)
  BY <1>5, <1>6, FS_Injection DEF n
<1>8. \A x \in T : \E i \in 1..n : f[i] = x
  BY <1>7 DEF Surjection
<1>9. f \in Seq(T) /\ Len(f) = n
  BY <1>1, <1>4, SeqDef
<1>10. Range(f) = T
  BY <1>4, <1>8 DEF Range
<1>11. Once(f)
  BY <1>4, <1>9 DEF Once, IsInjective
<1>. QED
  BY <1>9, <1>10, <1>11 DEF f, n

\* indexOf finds what is there.
LEMMA IndexFound ==
  ASSUME NEW S, NEW s \in Seq(S), NEW x
  PROVE  LET at == SelectInSeq(s, LAMBDA item : item = x)
         IN /\ x \in Range(s) => at \in 1..Len(s) /\ s[at] = x
            /\ at # 0 => at \in 1..Len(s) /\ s[at] = x
<1> DEFINE I == {i \in 1..Len(s) : s[i] = x}
           at == SelectInSeq(s, LAMBDA item : item = x)
<1>1. at = IF I # {} THEN (CHOOSE i \in I : \A j \in I : i =< j) ELSE 0
  BY DEF SelectInSeq, Min
<1>2. ASSUME I # {} PROVE at \in I
  <2>1. I \in SUBSET Nat
    OBVIOUS
  <2>2. PICK i \in I : \A j \in I : i <= j
    <3> HIDE DEF I
    <3>. QED
      BY <1>2, <2>1, LeastNat
  <2>. QED
    BY <1>1, <1>2, <2>2
<1>3. x \in Range(s) => I # {}
  BY RangeIs
<1>4. \A i \in I : i \in 1..Len(s) /\ s[i] = x
  OBVIOUS
<1> HIDE DEF at, I
<1>5. (x \in Range(s) => at \in I) /\ (at # 0 => at \in I)
  BY <1>1, <1>2, <1>3
<1>. QED
  BY <1>4, <1>5 DEF at

-----------------------------------------------------------------------------
(* Layouts of the rail *)

Group == [members : Seq(Spaces), collapsed : BOOLEAN]
Members(L, g) == Range(L.groups[g].members)
PlacedIn(L) ==
  (Range(L.order) \cap Spaces) \cup UNION {Members(L, g) : g \in DOMAIN L.groups}

OrderOK(L) ==
  /\ L.order \in Seq(Spaces \cup GroupIds) /\ Once(L.order)
  /\ DOMAIN L.groups = Range(L.order) \cap GroupIds
GroupsOK(L) ==
  \A g \in DOMAIN L.groups :
    L.groups[g] \in Group /\ Once(L.groups[g].members) /\ Len(L.groups[g].members) >= 2
NothingTwice(L) ==
  \A g \in DOMAIN L.groups :
    /\ Apart(Members(L, g), Range(L.order))
    /\ \A h \in DOMAIN L.groups : h # g => Apart(Members(L, g), Members(L, h))
LayoutOK(L) == OrderOK(L) /\ GroupsOK(L) /\ NothingTwice(L)

LEMMA GroupIs ==
  ASSUME NEW L, GroupsOK(L), NEW g \in DOMAIN L.groups
  PROVE  /\ L.groups[g] \in Group /\ L.groups[g].members \in Seq(Spaces)
         /\ Once(L.groups[g].members) /\ Len(L.groups[g].members) >= 2
         /\ Members(L, g) \subseteq Spaces
<1>1. L.groups[g] \in Group /\ Once(L.groups[g].members) /\ Len(L.groups[g].members) >= 2
  BY DEF GroupsOK
<1>2. L.groups[g].members \in Seq(Spaces)
  BY <1>1 DEF Group
<1>. QED
  BY <1>1, <1>2, RangeIs DEF Members

\* N is L with s out of the group g, and everything else where it was or next to it.
LetGo(N, L, s, g) ==
  /\ LayoutOK(N) /\ PlacedIn(N) = PlacedIn(L)
  /\ DOMAIN N.groups \subseteq DOMAIN L.groups
  /\ \A h \in DOMAIN L.groups : h # g => h \in DOMAIN N.groups
  /\ \A h \in DOMAIN N.groups : Members(N, h) \subseteq Members(L, h)
  /\ g \in DOMAIN N.groups => s \notin Members(N, g)
  /\ Range(L.order) \cap Spaces \subseteq Range(N.order)

\* removeFromGroup moves the space next to its group, or dissolves the group.
LEMMA RemoveOK ==
  ASSUME NEW L, LayoutOK(L), NEW s \in Spaces, NEW g
  PROVE  LetGo(RemoveFromGroup(L, s, g), L, s, g)
<1> DEFINE N == RemoveFromGroup(L, s, g)
           m == L.groups[g].members
           remaining == Filtered(m, {s})
           at == SelectInSeq(L.order, LAMBDA item : item = g)
           X == Spaces \cup GroupIds
<1>1. CASE g \notin DOMAIN L.groups \/ s \notin Range(m)
  <2>1. N = L
    BY <1>1 DEF RemoveFromGroup
  <2>2. LetGo(L, L, s, g)
    BY <1>1 DEF LetGo, Members
  <2>. QED
    BY <2>1, <2>2
<1>2. CASE g \in DOMAIN L.groups /\ s \in Range(m)
  <2>1. /\ m \in Seq(Spaces) /\ Once(m) /\ L.groups[g] \in Group
        /\ g \in Range(L.order) /\ g \in GroupIds /\ g \notin Spaces
        /\ Apart(Range(m), Range(L.order)) /\ Range(m) \subseteq Spaces
        /\ L.order \in Seq(X) /\ Once(L.order)
        /\ \A h \in DOMAIN L.groups : h # g => Apart(Range(m), Members(L, h))
    BY <1>2, GroupIs, RailAssumption DEF LayoutOK, OrderOK, NothingTwice, Members
  <2>2. at \in 1..Len(L.order) /\ L.order[at] = g
    <3> HIDE DEF at, X
    <3>. QED
      BY <2>1, IndexFound DEF at
  <2>3. /\ remaining \in Seq(Spaces) /\ Once(remaining)
        /\ Range(remaining) = Range(m) \ {s}
    BY <2>1, FilteredOnce
  <2>4. CASE Len(remaining) >= 2
    <3> DEFINE o == InsertAt(L.order, at + 1, s)
    <3>1. N = [order |-> o, groups |-> [L.groups EXCEPT ![g].members = remaining]]
      BY <1>2, <2>4 DEF RemoveFromGroup
    <3>2. N.order = o /\ DOMAIN N.groups = DOMAIN L.groups
          /\ N.groups[g] = [L.groups[g] EXCEPT !.members = remaining]
          /\ \A h \in DOMAIN L.groups : h # g => N.groups[h] = L.groups[h]
      BY <1>2, <3>1
    <3>3. N.groups[g] \in Group /\ N.groups[g].members = remaining
      BY <2>1, <2>3, <3>2 DEF Group
    <3> HIDE DEF N, remaining, at, o, m, X
    <3>4. s \in X /\ s \notin Range(L.order) /\ at + 1 \in 1..(Len(L.order) + 1)
      <4>1. L.order \in Seq(X)
        BY <2>1
      <4>. QED
        BY <1>2, <2>1, <2>2, <4>1 DEF Apart, X
    <3>5. o \in Seq(X) /\ Once(o) /\ Range(o) = Range(L.order) \cup {s}
      BY <2>1, <3>4, InsertOnce DEF o
    <3>6. /\ Members(N, g) = Range(m) \ {s} /\ Members(L, g) = Range(m)
          /\ \A h \in DOMAIN L.groups : h # g => Members(N, h) = Members(L, h)
      BY <2>3, <3>2, <3>3 DEF Members, m
    <3>7. OrderOK(N)
      BY <2>1, <3>2, <3>5, RailAssumption DEF LayoutOK, OrderOK, X
    <3>8. GroupsOK(N)
      BY <2>3, <2>4, <3>2, <3>3 DEF LayoutOK, GroupsOK
    <3>9. NothingTwice(N)
      <4>1. ASSUME NEW h \in DOMAIN L.groups PROVE Apart(Members(N, h), Range(o))
        <5>1. Apart(Members(L, h), Range(L.order)) /\ Members(N, h) \subseteq Members(L, h)
          BY <3>6 DEF LayoutOK, NothingTwice
        <5>2. s \notin Members(N, h)
          BY <1>2, <2>1, <3>6 DEF Apart
        <5>. QED
          BY <3>5, <5>1, <5>2 DEF Apart
      <4>2. ASSUME NEW h \in DOMAIN L.groups, NEW k \in DOMAIN L.groups, h # k
            PROVE Apart(Members(N, h), Members(N, k))
        <5>1. Apart(Members(L, h), Members(L, k))
          BY <4>2 DEF LayoutOK, NothingTwice
        <5>2. Members(N, h) \subseteq Members(L, h) /\ Members(N, k) \subseteq Members(L, k)
          BY <3>6
        <5>. QED
          BY <5>1, <5>2 DEF Apart
      <4>. QED
        BY <3>2, <4>1, <4>2 DEF NothingTwice
    <3>10. PlacedIn(N) = PlacedIn(L)
      <4>1. (UNION {Members(L, h) : h \in DOMAIN L.groups}) = (UNION {Members(N, h) : h \in DOMAIN N.groups}) \cup {s}
        BY <1>2, <3>2, <3>6
      <4>. QED
        BY <3>2, <3>5, <4>1 DEF PlacedIn
    <3>11. s \notin Members(N, g) /\ \A h \in DOMAIN L.groups : Members(N, h) \subseteq Members(L, h)
      BY <3>6
    <3>12. LetGo(N, L, s, g)
      BY <3>2, <3>5, <3>7, <3>8, <3>9, <3>10, <3>11 DEF LayoutOK, LetGo
    <3>. QED
      BY <3>12 DEF N
  <2>5. CASE ~ (Len(remaining) >= 2)
    <3> DEFINE A == SubSeq(L.order, 1, at - 1)
               B == SubSeq(L.order, at + 1, Len(L.order))
               mid == Append(remaining, s)
               o == (A \o mid) \o B
    <3>1. N = [order |-> o, groups |-> Without(L.groups, {g})]
      BY <1>2, <2>5 DEF RemoveFromGroup
    <3>2. N.order = o /\ DOMAIN N.groups = DOMAIN L.groups \ {g}
          /\ \A h \in DOMAIN N.groups : N.groups[h] = L.groups[h]
      <4> HIDE DEF N, o
      <4>. QED
        BY <3>1 DEF Without
    <3>3. /\ A \in Seq(X) /\ B \in Seq(X) /\ Once(A) /\ Once(B)
          /\ Apart(Range(A), Range(B)) /\ g \notin Range(A) \cup Range(B)
          /\ Range(L.order) = Range(A) \cup {g} \cup Range(B)
      <4> HIDE DEF at, X
      <4>. QED
        BY <2>1, <2>2, SplitOnce
    <3>4. mid \in Seq(X) /\ mid = remaining \o <<s>> /\ remaining \in Seq(X)
      BY <2>3, AppendIsConcat, SeqMonotonic
    <3> HIDE DEF N, remaining, at, o, m, X, A, B, mid
    <3>5. s \in X /\ s \notin Range(L.order)
      BY <1>2, <2>1 DEF Apart, X
    <3>6. Once(mid) /\ Range(mid) = Range(m)
      <4> DEFINE t == <<s>>
      <4>1. t \in Seq(X) /\ Once(t) /\ Range(t) = {s}
        BY <3>5, OneItem
      <4>2. Apart(Range(remaining), Range(t))
        BY <2>3, <4>1 DEF Apart
      <4>3. mid = remaining \o t /\ remaining \in Seq(X) /\ Once(remaining)
        BY <2>3, <3>4
      <4> HIDE DEF t
      <4>4. remaining \o t \in Seq(X) /\ Range(remaining \o t) = Range(remaining) \cup Range(t) /\ Once(remaining \o t)
        BY <4>1, <4>2, <4>3, JoinOnce
      <4>. QED
        BY <1>2, <2>3, <4>1, <4>3, <4>4
    <3>7. Apart(Range(A), Range(mid)) /\ Apart(Range(mid), Range(B))
      BY <2>1, <3>3, <3>6 DEF Apart
    <3> DEFINE am == A \o mid
    <3>8. am \in Seq(X) /\ Range(am) = Range(A) \cup Range(mid) /\ Once(am)
      <4>1. A \in Seq(X) /\ Once(A) /\ mid \in Seq(X) /\ Once(mid) /\ Apart(Range(A), Range(mid))
        BY <3>3, <3>4, <3>6, <3>7
      <4>. QED
        BY <4>1, JoinOnce
    <3> HIDE DEF am
    <3>9. Apart(Range(am), Range(B))
      BY <3>3, <3>7, <3>8 DEF Apart
    <3>10. o \in Seq(X) /\ Once(o) /\ Range(o) = Range(am) \cup Range(B)
      <4>1. am \in Seq(X) /\ Once(am) /\ B \in Seq(X) /\ Once(B)
        BY <3>3, <3>8
      <4>. QED
        BY <3>9, <4>1, JoinOnce DEF o, am
    <3>11. Range(o) = (Range(L.order) \ {g}) \cup Range(m)
      BY <2>1, <3>3, <3>6, <3>8, <3>10
    <3>12. Members(L, g) = Range(m) /\ \A h \in DOMAIN N.groups : Members(N, h) = Members(L, h)
      BY <3>2 DEF Members, m
    <3>13. OrderOK(N)
      BY <2>1, <3>2, <3>10, <3>11, RailAssumption DEF LayoutOK, OrderOK, X
    <3>14. GroupsOK(N)
      BY <3>2 DEF LayoutOK, GroupsOK
    <3>15. NothingTwice(N)
      <4>1. ASSUME NEW h \in DOMAIN N.groups PROVE Apart(Members(N, h), Range(o))
        <5>1. h \in DOMAIN L.groups /\ Apart(Members(L, h), Range(L.order)) /\ Apart(Range(m), Members(L, h))
          BY <2>1, <3>2 DEF LayoutOK, NothingTwice
        <5>. QED
          BY <3>11, <3>12, <5>1 DEF Apart
      <4>2. ASSUME NEW h \in DOMAIN N.groups, NEW k \in DOMAIN N.groups, h # k
            PROVE Apart(Members(N, h), Members(N, k))
        BY <3>2, <3>12, <4>2 DEF LayoutOK, NothingTwice
      <4>. QED
        BY <3>2, <4>1, <4>2 DEF NothingTwice
    <3>16. PlacedIn(N) = PlacedIn(L)
      <4>1. (UNION {Members(L, h) : h \in DOMAIN L.groups})
              = (UNION {Members(N, h) : h \in DOMAIN N.groups}) \cup Range(m)
        BY <1>2, <3>2, <3>12
      <4>. QED
        BY <2>1, <3>2, <3>11, <4>1 DEF PlacedIn
    <3>17. Range(L.order) \cap Spaces \subseteq Range(o)
      BY <2>1, <3>11
    <3>18. LetGo(N, L, s, g)
      BY <3>2, <3>12, <3>13, <3>14, <3>15, <3>16, <3>17 DEF LayoutOK, LetGo
    <3>. QED
      BY <3>18 DEF N
  <2>. QED
    BY <2>4, <2>5
<1>. QED
  BY <1>1, <1>2

\* N is L with s in one more place at most, where it was in none but the top.
TakenIn(N, L, s) ==
  LayoutOK(N) /\ PlacedIn(L) \subseteq PlacedIn(N)

LEMMA AddOK ==
  ASSUME NEW L, LayoutOK(L), NEW s \in Spaces, NEW g,
         \A h \in DOMAIN L.groups : s \notin Members(L, h)
  PROVE  TakenIn(AddToGroup(L, s, g), L, s)
<1> DEFINE N == AddToGroup(L, s, g)
           m == L.groups[g].members
           o == Filtered(L.order, {s})
           X == Spaces \cup GroupIds
<1>1. CASE g \notin DOMAIN L.groups \/ s \in Range(m)
  <2>1. N = L
    BY <1>1 DEF AddToGroup
  <2>. QED
    BY <2>1 DEF TakenIn
<1>2. CASE g \in DOMAIN L.groups /\ s \notin Range(m)
  <2>1. N = [order |-> o, groups |-> [L.groups EXCEPT ![g].members = Append(m, s)]]
    BY <1>2 DEF AddToGroup
  <2>2. N.order = o /\ DOMAIN N.groups = DOMAIN L.groups
        /\ N.groups[g] = [L.groups[g] EXCEPT !.members = Append(m, s)]
        /\ \A h \in DOMAIN L.groups : h # g => N.groups[h] = L.groups[h]
    BY <1>2, <2>1
  <2>3. /\ m \in Seq(Spaces) /\ Once(m) /\ Len(m) >= 2 /\ L.groups[g] \in Group
        /\ L.order \in Seq(X) /\ Once(L.order)
    BY <1>2, GroupIs DEF LayoutOK, OrderOK
  <2>4. N.groups[g] \in Group /\ N.groups[g].members = Append(m, s) /\ Append(m, s) \in Seq(Spaces)
        /\ Len(Append(m, s)) >= 2 /\ Append(m, s) = m \o <<s>>
    <3> DEFINE am == Append(m, s)
    <3> HIDE DEF m
    <3>1. am \in Seq(Spaces) /\ Len(am) >= 2 /\ am = m \o <<s>>
      BY <2>3, AppendIsConcat
    <3> HIDE DEF N, am
    <3>2. N.groups[g] = [L.groups[g] EXCEPT !.members = am]
      BY <2>2 DEF am
    <3>3. N.groups[g] \in Group /\ N.groups[g].members = am
      BY <2>3, <3>1, <3>2 DEF Group
    <3>. QED
      BY <3>1, <3>3 DEF am
  <2> HIDE DEF N, m, o, X
  <2>5. o \in Seq(X) /\ Once(o) /\ Range(o) = Range(L.order) \ {s}
    BY <2>3, FilteredOnce DEF o
  <2>6. Once(Append(m, s)) /\ Range(Append(m, s)) = Range(m) \cup {s}
    <3> DEFINE t == <<s>>
    <3>1. t \in Seq(Spaces) /\ Once(t) /\ Range(t) = {s}
      BY OneItem
    <3>2. Append(m, s) = m \o t
      BY <2>4
    <3> HIDE DEF t
    <3>3. Apart(Range(m), Range(t))
      BY <1>2, <3>1 DEF Apart
    <3>4. m \in Seq(Spaces) /\ t \in Seq(Spaces) /\ Once(m) /\ Once(t)
      BY <2>3, <3>1
    <3>5. m \o t \in Seq(Spaces) /\ Range(m \o t) = Range(m) \cup Range(t) /\ Once(m \o t)
      BY <3>3, <3>4, JoinOnce
    <3>. QED
      BY <3>1, <3>2, <3>5
  <2>7. /\ Members(N, g) = Range(m) \cup {s} /\ Members(L, g) = Range(m)
        /\ \A h \in DOMAIN L.groups : h # g => Members(N, h) = Members(L, h)
    BY <2>2, <2>4, <2>6 DEF Members, m
  <2>8. OrderOK(N)
    BY <2>2, <2>3, <2>5, RailAssumption DEF LayoutOK, OrderOK, X
  <2>9. GroupsOK(N)
    BY <2>2, <2>4, <2>6 DEF LayoutOK, GroupsOK
  <2>10. NothingTwice(N)
    <3>1. \A h \in DOMAIN L.groups : Members(N, h) \subseteq Members(L, h) \cup {s}
      BY <2>7
    <3>2. ASSUME NEW h \in DOMAIN L.groups PROVE Apart(Members(N, h), Range(o))
      <4>1. Apart(Members(L, h), Range(L.order))
        BY DEF LayoutOK, NothingTwice
      <4>. QED
        BY <2>5, <3>1, <4>1 DEF Apart
    <3>3. ASSUME NEW h \in DOMAIN L.groups, NEW k \in DOMAIN L.groups, h # k
          PROVE Apart(Members(N, h), Members(N, k))
      <4>1. Apart(Members(L, h), Members(L, k)) /\ s \notin Members(L, h) /\ s \notin Members(L, k)
        BY <3>3 DEF LayoutOK, NothingTwice
      <4>2. Members(N, h) = Members(L, h) \/ Members(N, k) = Members(L, k)
        BY <2>7, <3>3
      <4>. QED
        BY <3>1, <4>1, <4>2 DEF Apart
    <3>. QED
      BY <2>2, <3>2, <3>3 DEF NothingTwice
  <2>11. PlacedIn(L) \subseteq PlacedIn(N)
    <3>1. s \in Members(N, g) /\ \A h \in DOMAIN L.groups : Members(L, h) \subseteq Members(N, h)
      BY <2>7
    <3>. QED
      BY <1>2, <2>2, <2>5, <3>1 DEF PlacedIn
  <2>12. TakenIn(N, L, s)
    BY <2>8, <2>9, <2>10, <2>11 DEF TakenIn, LayoutOK
  <2>. QED
    BY <2>12 DEF N
<1>. QED
  BY <1>1, <1>2

LEMMA CreateOK ==
  ASSUME NEW L, LayoutOK(L), NEW s \in Spaces, NEW t \in Spaces, s # t, t \in Range(L.order),
         GroupIds \ DOMAIN L.groups # {},
         \A h \in DOMAIN L.groups : s \notin Members(L, h)
  PROVE  TakenIn(CreateGroup(L, s, t), L, s)
<1> DEFINE N == CreateGroup(L, s, t)
           g == CHOOSE x \in GroupIds : x \notin DOMAIN L.groups
           rest == Filtered(L.order, {s})
           at == SelectInSeq(rest, LAMBDA item : item = t)
           o == [rest EXCEPT ![at] = g]
           X == Spaces \cup GroupIds
           new == [members |-> <<t, s>>, collapsed |-> FALSE]
<1>1. g \in GroupIds /\ g \notin DOMAIN L.groups
  OBVIOUS
<1>2. L.order \in Seq(X) /\ Once(L.order) /\ DOMAIN L.groups = Range(L.order) \cap GroupIds
  BY DEF LayoutOK, OrderOK
<1>3. rest \in Seq(X) /\ Once(rest) /\ Range(rest) = Range(L.order) \ {s}
  <2> HIDE DEF X
  <2>. QED
    BY <1>2, FilteredOnce
<1>4. at \in 1..Len(rest) /\ rest[at] = t
  <2>1. t \in Range(rest)
    BY <1>3
  <2> HIDE DEF rest, X
  <2>. QED
    BY <1>3, <2>1, IndexFound
<1>5. at # 0
  BY <1>4
<1>6. N = [order |-> o, groups |-> [h \in DOMAIN L.groups \cup {g} |-> IF h = g THEN new ELSE L.groups[h]]]
  <2> HIDE DEF at, rest, g
  <2>. QED
    BY <1>5 DEF CreateGroup, at, rest, g
<1>7. N.order = o /\ DOMAIN N.groups = DOMAIN L.groups \cup {g} /\ N.groups[g] = new
      /\ \A h \in DOMAIN L.groups : N.groups[h] = L.groups[h]
  <2> HIDE DEF N, o, g, new
  <2>1. N.order = o /\ N.groups = [h \in DOMAIN L.groups \cup {g} |-> IF h = g THEN new ELSE L.groups[h]]
    BY <1>6
  <2>. QED
    BY <1>1, <2>1
<1>8. /\ new \in Group /\ new.members = <<t, s>> /\ <<t, s>> \in Seq(Spaces) /\ Len(<<t, s>>) = 2
      /\ <<t, s>>[1] = t /\ <<t, s>>[2] = s
  BY DEF Group
<1>9. Once(<<t, s>>) /\ Range(<<t, s>>) = {t, s}
  <2> DEFINE u == <<t, s>>
  <2>1. u \in Seq(Spaces) /\ Len(u) = 2 /\ u[1] = t /\ u[2] = s
    BY <1>8
  <2> HIDE DEF u
  <2>2. \A i \in 1..2 : i = 1 \/ i = 2
    OBVIOUS
  <2>3. 1 \in 1..2 /\ 2 \in 1..2
    OBVIOUS
  <2>4. Range(u) = {u[i] : i \in 1..Len(u)}
    BY <2>1, RangeIs
  <2>5. Range(u) = {t, s}
    BY <2>1, <2>2, <2>3, <2>4
  <2>6. Once(u)
    BY <2>1, <2>2 DEF Once
  <2>. QED
    BY <2>5, <2>6 DEF u
<1> HIDE DEF N, g, at, rest, X, new
<1>10. o \in Seq(X) /\ Len(o) = Len(rest) /\ o[at] = g /\ \A i \in 1..Len(rest) : i # at => o[i] = rest[i]
  <2>1. g \in X
    BY <1>1 DEF X
  <2>. QED
    BY <1>3, <1>4, <2>1, ExceptSeq
<1> HIDE DEF o
<1>11. g \notin Range(rest)
  BY <1>1, <1>2, <1>3
<1>12. Range(rest) = {rest[i] : i \in 1..Len(rest)} /\ Range(o) = {o[i] : i \in 1..Len(rest)}
  BY <1>3, <1>10, RangeIs
<1>13. Once(o)
  BY <1>3, <1>10, <1>11, <1>12 DEF Once
<1>14. Range(o) = (Range(rest) \ {t}) \cup {g}
  <2>1. \A i \in 1..Len(rest) : i # at => rest[i] # t
    BY <1>3, <1>4 DEF Once
  <2>2. \A x : (\E i \in 1..Len(rest) : x = o[i]) <=> x = g \/ (x # t /\ \E i \in 1..Len(rest) : x = rest[i])
    BY <1>4, <1>10, <2>1
  <2>. QED
    BY <1>12, <2>2
<1>15. Members(N, g) = {t, s} /\ \A h \in DOMAIN L.groups : Members(N, h) = Members(L, h)
  BY <1>7, <1>8, <1>9 DEF Members
<1>16. g \notin Spaces
  BY <1>1, RailAssumption
<1>17. OrderOK(N)
  <2>1. DOMAIN N.groups = Range(o) \cap GroupIds
    BY <1>1, <1>2, <1>3, <1>7, <1>14, RailAssumption
  <2>. QED
    BY <1>7, <1>10, <1>13, <2>1 DEF OrderOK, X
<1>18. GroupsOK(N)
  BY <1>1, <1>7, <1>8, <1>9 DEF LayoutOK, GroupsOK
<1>19. \A h \in DOMAIN L.groups : Apart(Members(L, h), Range(L.order)) /\ Members(L, h) \subseteq Spaces
  BY GroupIs DEF LayoutOK, NothingTwice
<1>20. NothingTwice(N)
  <2>1. ASSUME NEW h \in DOMAIN N.groups PROVE Apart(Members(N, h), Range(o))
    <3>1. CASE h = g
      BY <1>3, <1>14, <1>15, <1>16, <3>1 DEF Apart
    <3>2. CASE h \in DOMAIN L.groups
      <4>1. g \notin Members(L, h)
        BY <1>16, <1>19, <3>2
      <4>. QED
        BY <1>3, <1>14, <1>15, <1>19, <3>2, <4>1 DEF Apart
    <3>. QED
      BY <1>7, <3>1, <3>2
  <2>2. ASSUME NEW h \in DOMAIN L.groups PROVE Apart(Members(N, h), Members(N, g))
    <3>1. t \notin Members(L, h) /\ s \notin Members(L, h)
      BY <1>19 DEF Apart
    <3>. QED
      BY <1>15, <3>1 DEF Apart
  <2>3. ASSUME NEW h \in DOMAIN L.groups, NEW k \in DOMAIN L.groups, h # k
        PROVE Apart(Members(N, h), Members(N, k))
    BY <1>15, <2>3 DEF LayoutOK, NothingTwice
  <2>4. \A h, k \in DOMAIN N.groups : h # k => Apart(Members(N, h), Members(N, k))
    BY <1>7, <2>2, <2>3 DEF Apart
  <2>. QED
    BY <1>7, <2>1, <2>4 DEF NothingTwice
<1>21. PlacedIn(L) \subseteq PlacedIn(N)
  <2>1. ASSUME NEW x \in Range(L.order) \cap Spaces PROVE x \in PlacedIn(N)
    <3>1. x \in Range(o) \/ x \in Members(N, g)
      BY <1>3, <1>14, <1>15
    <3>. QED
      BY <1>7, <3>1 DEF PlacedIn
  <2>2. ASSUME NEW h \in DOMAIN L.groups PROVE Members(L, h) \subseteq PlacedIn(N)
    BY <1>7, <1>15 DEF PlacedIn
  <2>. QED
    BY <2>1, <2>2 DEF PlacedIn
<1>22. TakenIn(N, L, s)
  BY <1>17, <1>18, <1>20, <1>21 DEF TakenIn, LayoutOK
<1>. QED
  BY <1>22 DEF N

-----------------------------------------------------------------------------
(* The flat list the rail draws *)

OneOf(open, L) == UNION {{GroupedItem(g, s) : s \in Members(L, g)} : g \in open}
DrawnItems(open, L) ==
  {TopItem(s) : s \in Range(L.order) \cap Spaces}
    \cup {HeaderItem(g) : g \in DOMAIN L.groups} \cup OneOf(open, L)

\* The drawn list shows each item of the layout once.
LEMMA FlatIsDrawn ==
  ASSUME LayoutOK(Layout), NEW open \in SUBSET (DOMAIN groups)
  PROVE  /\ BuildFlatIds(open) \in Seq(Item) /\ Once(BuildFlatIds(open))
         /\ Range(BuildFlatIds(open)) = DrawnItems(open, Layout)
<1> DEFINE Ms(g) == [i \in 1..Len(groups[g].members) |-> GroupedItem(g, groups[g].members[i])]
           Drawn(item) == IF item \in Spaces THEN <<TopItem(item)>>
                          ELSE <<HeaderItem(item)>> \o (IF item \in open THEN Ms(item) ELSE <<>>)
           ss == [i \in 1..Len(order) |-> Drawn(order[i])]
           X == Spaces \cup GroupIds
<1>1. BuildFlatIds(open) = FlattenSeq(ss)
  BY DEF BuildFlatIds
<1>2. /\ Layout.order = order /\ Layout.groups = groups
      /\ order \in Seq(X) /\ Once(order) /\ Len(order) \in Nat
      /\ DOMAIN groups = Range(order) \cap GroupIds
      /\ \A i \in 1..Len(order) : order[i] \in X
      /\ Range(order) = {order[i] : i \in 1..Len(order)}
  BY RangeIs DEF Layout, LayoutOK, OrderOK
<1>3. ASSUME NEW g \in DOMAIN groups
      PROVE  /\ Ms(g) \in Seq(Item) /\ Once(Ms(g))
             /\ Range(Ms(g)) = {GroupedItem(g, s) : s \in Members(Layout, g)}
  <2> DEFINE m == groups[g].members
             r == Ms(g)
  <2>1. m \in Seq(Spaces) /\ Once(m) /\ g \in GroupIds /\ Members(Layout, g) = Range(m) /\ Len(m) \in Nat
    BY <1>2, GroupIs DEF LayoutOK, Members
  <2>2. \A i \in 1..Len(m) : GroupedItem(g, m[i]) \in Item
    BY <2>1 DEF GroupedItem, Item
  <2>3. r = [i \in 1..Len(m) |-> GroupedItem(g, m[i])]
    OBVIOUS
  <2> HIDE DEF m, r
  <2>4. r \in Seq(Item) /\ Len(r) = Len(m) /\ \A i \in 1..Len(m) : r[i] = GroupedItem(g, m[i])
    BY <2>1, <2>2, <2>3
  <2>5. Once(r)
    <3>0. \A s : GroupedItem(g, s).space = s
      BY DEF GroupedItem
    <3>1. \A i, j \in 1..Len(m) : r[i] = r[j] => m[i] = m[j]
      BY <2>4, <3>0
    <3>. QED
      BY <2>1, <2>4, <3>1 DEF Once
  <2>6. Range(r) = {GroupedItem(g, s) : s \in Range(m)}
    <3>1. Range(r) = {r[i] : i \in 1..Len(m)} /\ Range(m) = {m[i] : i \in 1..Len(m)}
      BY <2>1, <2>4, RangeIs
    <3>. QED
      BY <2>4, <3>1
  <2>. QED
    BY <2>1, <2>4, <2>5, <2>6 DEF r
<1> HIDE DEF Ms
<1> DEFINE DrawnAs(item) == IF item \in Spaces THEN {TopItem(item)}
                          ELSE {HeaderItem(item)}
                                 \cup (IF item \in open THEN {GroupedItem(item, s) : s \in Members(Layout, item)} ELSE {})
<1>4. ASSUME NEW item \in Range(order)
      PROVE  Drawn(item) \in Seq(Item) /\ Once(Drawn(item)) /\ Range(Drawn(item)) = DrawnAs(item)
  <2>1. CASE item \in Spaces
    <3>1. TopItem(item) \in Item
      BY <2>1 DEF TopItem, Item
    <3>. QED
      BY <2>1, <3>1, OneItem
  <2>2. CASE item \notin Spaces
    <3> DEFINE h == <<HeaderItem(item)>>
               r == IF item \in open THEN Ms(item) ELSE <<>>
    <3>1. item \in DOMAIN groups /\ item \in GroupIds
      BY <1>2, <2>2
    <3>2. HeaderItem(item) \in Item
      BY <3>1 DEF HeaderItem, Item
    <3>3. h \in Seq(Item) /\ Once(h) /\ Range(h) = {HeaderItem(item)}
      BY <3>2, OneItem
    <3>4. r \in Seq(Item) /\ Once(r) 
          /\ Range(r) = IF item \in open THEN {GroupedItem(item, s) : s \in Members(Layout, item)} ELSE {}
      <4>1. <<>> \in Seq(Item) /\ Once(<<>>) /\ Range(<<>>) = {}
        BY DEF Once, Range
      <4>. QED
        BY <1>3, <3>1, <4>1
    <3>5. Apart(Range(h), Range(r))
      <4>1. \A s : HeaderItem(item) # GroupedItem(item, s)
        BY DEF HeaderItem, GroupedItem
      <4>. QED
        BY <3>3, <3>4, <4>1 DEF Apart
    <3>6. Drawn(item) = h \o r /\ DrawnAs(item) = Range(h) \cup Range(r)
      BY <2>2, <3>3, <3>4
    <3> HIDE DEF h, r
    <3>7. h \in Seq(Item) /\ Once(h) /\ r \in Seq(Item) /\ Once(r)
      BY <3>3, <3>4
    <3>8. h \o r \in Seq(Item) /\ Range(h \o r) = Range(h) \cup Range(r) /\ Once(h \o r)
      BY <3>5, <3>7, JoinOnce
    <3> HIDE DEF Drawn, DrawnAs
    <3>. QED
      BY <3>6, <3>8
  <2>. QED
    BY <2>1, <2>2
<1> HIDE DEF Drawn
<1>5. \A i \in 1..Len(order) : order[i] \in Range(order)
  BY <1>2
<1>6. ss \in Seq(Seq(Item)) /\ Len(ss) = Len(order) /\ \A i \in 1..Len(order) : ss[i] = Drawn(order[i])
  BY <1>2, <1>4, <1>5
<1> HIDE DEF ss
<1>7. \A i \in 1..Len(ss) : Once(ss[i]) /\ Range(ss[i]) = DrawnAs(order[i])
  BY <1>4, <1>5, <1>6
<1>8. ASSUME NEW i \in 1..Len(ss), NEW j \in 1..Len(ss), i # j PROVE Apart(Range(ss[i]), Range(ss[j]))
  <2>1. order[i] # order[j] /\ order[i] \in Range(order) /\ order[j] \in Range(order)
    BY <1>2, <1>5, <1>6, <1>8 DEF Once
  <2>2. \A a, b : DrawnAs(a) \cap DrawnAs(b) # {} => a = b
    <3>1. \A a, s, g : /\ TopItem(a).kind = "space" /\ TopItem(a).space = a
                       /\ HeaderItem(a).kind = "group" /\ HeaderItem(a).group = a
                       /\ GroupedItem(g, s).kind = "grouped" /\ GroupedItem(g, s).group = g
      BY DEF TopItem, HeaderItem, GroupedItem
    <3>2. \A a, x : x \in DrawnAs(a) =>
             IF a \in Spaces THEN x.kind = "space" /\ x.space = a
             ELSE x.kind \in {"group", "grouped"} /\ x.group = a
      BY <3>1
    <3> HIDE DEF DrawnAs
    <3>. QED
      BY <3>2
  <2>. QED
    BY <1>6, <1>7, <2>1, <2>2 DEF Apart
<1>9. FlattenSeq(ss) \in Seq(Item) /\ Once(FlattenSeq(ss))
      /\ Range(FlattenSeq(ss)) = UNION {Range(ss[i]) : i \in 1..Len(ss)}
  BY <1>6, <1>7, <1>8, FlattenOnce
<1>10. UNION {Range(ss[i]) : i \in 1..Len(ss)} = UNION {DrawnAs(item) : item \in Range(order)}
  <2> HIDE DEF DrawnAs
  <2>1. \A x : (\E i \in 1..Len(ss) : x \in Range(ss[i])) <=> (\E item \in Range(order) : x \in DrawnAs(item))
    BY <1>2, <1>5, <1>6, <1>7
  <2>. QED
    BY <2>1
<1>11. UNION {DrawnAs(item) : item \in Range(order)} = DrawnItems(open, Layout)
  <2>1. \A item \in Range(order) : item \in Spaces \/ (item \in DOMAIN groups /\ item \notin Spaces)
    BY <1>2, RailAssumption
  <2>2. \A g \in DOMAIN groups : g \in Range(order) /\ g \notin Spaces
    BY <1>2, RailAssumption
  <2>3. ASSUME NEW item \in Range(order) PROVE DrawnAs(item) \subseteq DrawnItems(open, Layout)
    <3>1. CASE item \in Spaces
      BY <1>2, <3>1 DEF DrawnItems
    <3>2. CASE item \in DOMAIN groups /\ item \notin Spaces
      BY <1>2, <3>2 DEF DrawnItems, OneOf
    <3>. QED
      BY <2>1, <3>1, <3>2
  <2>4. ASSUME NEW x \in DrawnItems(open, Layout) PROVE \E item \in Range(order) : x \in DrawnAs(item)
    <3>1. CASE \E s \in Range(order) \cap Spaces : x = TopItem(s)
      BY <3>1
    <3>2. CASE \E g \in DOMAIN groups : x = HeaderItem(g)
      BY <2>2, <3>2
    <3>3. CASE \E g \in open : \E s \in Members(Layout, g) : x = GroupedItem(g, s)
      BY <2>2, <3>3
    <3>. QED
      BY <1>2, <3>1, <3>2, <3>3 DEF DrawnItems, OneOf
  <2> HIDE DEF DrawnAs
  <2>. QED
    BY <2>3, <2>4
<1>. QED
  BY <1>1, <1>9, <1>10, <1>11

-----------------------------------------------------------------------------
(* Reading the flat list back *)

Content(item) == IF item.kind = "group" THEN item.group ELSE item.space

Reading(open) ==
  [order : Seq(Spaces \cup GroupIds), members : [open -> Seq(Spaces)], current : GroupIds \cup {"none"}]

\* What is read so far puts the contents C each in one place.
ReadsOnce(acc, open, C) ==
  /\ acc \in Reading(open) /\ Once(acc.order)
  /\ \A g \in open :
       /\ Once(acc.members[g]) /\ Apart(Range(acc.members[g]), Range(acc.order))
       /\ \A h \in open : h # g => Apart(Range(acc.members[g]), Range(acc.members[h]))
  /\ Range(acc.order) \cup UNION {Range(acc.members[g]) : g \in open} = C

\* An item of a drawn list: its group is a group, its space a space.
ItemOK(item) ==
  \/ item.kind = "group" /\ item.group \in GroupIds
  \/ item.kind \in {"space", "grouped"} /\ item.space \in Spaces

LEMMA PlaceReads ==
  ASSUME NEW open \in SUBSET GroupIds, NEW acc, NEW C, ReadsOnce(acc, open, C),
         NEW item, ItemOK(item), Content(item) \notin C
  PROVE  ReadsOnce(PlaceItem(acc, item, open), open, C \cup {Content(item)})
<1> DEFINE N == PlaceItem(acc, item, open)
           X == Spaces \cup GroupIds
           c == Content(item)
           inPlace == item.kind = "grouped" /\ acc.current = item.group /\ item.group \in open
           onTop == Append(acc.order, c)
<1>1. /\ acc.order \in Seq(X) /\ Once(acc.order) /\ acc.members \in [open -> Seq(Spaces)]
      /\ acc.current \in GroupIds \cup {"none"} /\ c \in X
      /\ c \notin Range(acc.order) /\ \A g \in open : c \notin Range(acc.members[g])
  BY DEF ReadsOnce, Reading, ItemOK, Content
<1>2. CASE ~ inPlace
  <2>1. N.order = onTop /\ N.members = acc.members /\ N.current \in GroupIds \cup {"none"} /\ N \in Reading(open)
    <3>1. onTop \in Seq(X)
      <4> HIDE DEF c, X
      <4>. QED
        BY <1>1
    <3>2. CASE item.kind = "group"
      <4>1. N = [acc EXCEPT !.order = Append(@, item.group), !.current = item.group] /\ c = item.group /\ c \in GroupIds
        BY <3>2, RailAssumption DEF PlaceItem, Content, ItemOK
      <4>2. N = [acc EXCEPT !.order = onTop, !.current = c]
        BY <4>1
      <4> HIDE DEF N, onTop, c
      <4>. QED
        BY <3>1, <4>1, <4>2 DEF ReadsOnce, Reading
    <3>3. CASE item.kind # "group"
      <4>1. N = [acc EXCEPT !.order = Append(@, item.space), !.current = "none"] /\ c = item.space
        BY <1>2, <3>3 DEF PlaceItem, Content
      <4>2. N = [acc EXCEPT !.order = onTop, !.current = "none"]
        BY <4>1
      <4> HIDE DEF N, onTop, c
      <4>. QED
        BY <3>1, <4>1, <4>2 DEF ReadsOnce, Reading
    <3>. QED
      BY <3>2, <3>3
  <2> HIDE DEF N, c, X
  <2>2. Once(onTop) /\ Range(onTop) = Range(acc.order) \cup {c}
    BY <1>1, AppendOnce
  <2> HIDE DEF onTop
  <2>3. \A g \in open : Apart(Range(acc.members[g]), Range(onTop))
    BY <1>1, <2>2 DEF ReadsOnce, Apart
  <2>4. Range(onTop) \cup UNION {Range(acc.members[g]) : g \in open} = C \cup {c}
    BY <2>2 DEF ReadsOnce
  <2>5. ReadsOnce(N, open, C \cup {c})
    BY <2>1, <2>2, <2>3, <2>4 DEF ReadsOnce
  <2>. QED
    BY <2>5 DEF N, c
<1>3. CASE inPlace
  <2> DEFINE g == item.group
             m == Append(acc.members[g], c)
  <2>1. g \in open /\ c \in Spaces /\ c = item.space
    BY <1>3 DEF Content, ItemOK
  <2>2. N = [acc EXCEPT !.members[g] = m]
    BY <1>3, <2>1 DEF PlaceItem
  <2>3. acc.members[g] \in Seq(Spaces) /\ Once(acc.members[g]) /\ c \notin Range(acc.members[g])
    BY <1>1, <2>1 DEF ReadsOnce
  <2> HIDE DEF N, c, X
  <2>4. m \in Seq(Spaces) /\ Once(m) /\ Range(m) = Range(acc.members[g]) \cup {c}
    <3> DEFINE old == acc.members[g]
    <3>1. old \in Seq(Spaces) /\ Once(old) /\ c \notin Range(old) /\ c \in Spaces
      BY <2>1, <2>3
    <3> HIDE DEF old
    <3>2. Append(old, c) \in Seq(Spaces) /\ Once(Append(old, c)) /\ Range(Append(old, c)) = Range(old) \cup {c}
      BY <3>1, AppendOnce
    <3>. QED
      BY <3>2 DEF old
  <2> HIDE DEF m, g
  <2>5. /\ N \in Reading(open) /\ N.order = acc.order /\ N.members[g] = m
        /\ \A h \in open : h # g => N.members[h] = acc.members[h]
    <3>1. N.order = acc.order /\ N.current = acc.current /\ N.members = [acc.members EXCEPT ![g] = m]
          /\ N \in Reading(open)
      BY <2>1, <2>2, <2>4 DEF ReadsOnce, Reading
    <3>. QED
      BY <1>1, <2>1, <3>1
  <2>6. \A h \in open : Range(acc.members[h]) \subseteq Range(N.members[h])
                        /\ Range(N.members[h]) \subseteq Range(acc.members[h]) \cup {c}
    BY <2>4, <2>5
  <2>7. \A h \in open : Once(N.members[h]) /\ Apart(Range(N.members[h]), Range(acc.order))
    <3>1. ASSUME NEW h \in open PROVE Apart(Range(N.members[h]), Range(acc.order))
      BY <1>1, <2>6 DEF ReadsOnce, Apart
    <3>. QED
      BY <2>4, <2>5, <3>1 DEF ReadsOnce
  <2>8. ASSUME NEW h \in open, NEW k \in open, h # k
        PROVE Apart(Range(N.members[h]), Range(N.members[k]))
    <3>1. Apart(Range(acc.members[h]), Range(acc.members[k]))
      BY <2>8 DEF ReadsOnce
    <3>2. N.members[h] = acc.members[h] \/ N.members[k] = acc.members[k]
      BY <2>5, <2>8
    <3>. QED
      BY <1>1, <2>6, <3>1, <3>2 DEF Apart
  <2>9. Range(N.order) \cup UNION {Range(N.members[h]) : h \in open} = C \cup {c}
    <3>1. c \in Range(N.members[g])
      BY <2>4, <2>5
    <3>2. C = Range(acc.order) \cup UNION {Range(acc.members[h]) : h \in open}
      BY DEF ReadsOnce
    <3>. QED
      BY <2>1, <2>5, <2>6, <3>1, <3>2
  <2>10. ReadsOnce(N, open, C \cup {c})
    BY <1>1, <2>5, <2>7, <2>8, <2>9 DEF ReadsOnce
  <2>. QED
    BY <2>10 DEF N, c
<1>. QED
  BY <1>2, <1>3

ReadFrom(f, flat, open) ==
  f = [i \in 0..Len(flat) |->
        IF i = 0 THEN [order |-> <<>>, members |-> [g \in open |-> <<>>], current |-> "none"]
        ELSE PlaceItem(f[i - 1], flat[i], open)]

LEMMA NothingRead ==
  ASSUME NEW open \in SUBSET GroupIds
  PROVE  ReadsOnce([order |-> <<>>, members |-> [g \in open |-> <<>>], current |-> "none"], open, {})
<1> DEFINE z == [order |-> <<>>, members |-> [g \in open |-> <<>>], current |-> "none"]
<1>1. Range(<<>>) = {} /\ Once(<<>>)
  BY DEF Range, Once
<1>2. z.order = <<>> /\ \A g \in open : z.members[g] = <<>>
  OBVIOUS
<1>3. z \in Reading(open)
  BY DEF Reading
<1> HIDE DEF z
<1>4. ReadsOnce(z, open, {})
  BY <1>1, <1>2, <1>3 DEF ReadsOnce, Apart
<1>. QED
  BY <1>4 DEF z

LEMMA PlaceTyped ==
  ASSUME NEW open \in SUBSET GroupIds, NEW acc \in Reading(open), NEW item, ItemOK(item)
  PROVE  PlaceItem(acc, item, open) \in Reading(open)
<1> DEFINE N == PlaceItem(acc, item, open)
<1>1. acc.order \in Seq(Spaces \cup GroupIds) /\ acc.members \in [open -> Seq(Spaces)]
  BY DEF Reading
<1>2. CASE item.kind = "group"
  <2>1. N = [acc EXCEPT !.order = Append(acc.order, item.group), !.current = item.group] /\ item.group \in GroupIds
    BY <1>2 DEF PlaceItem, ItemOK
  <2>2. Append(acc.order, item.group) \in Seq(Spaces \cup GroupIds)
    BY <1>1, <2>1
  <2>. QED
    BY <2>1, <2>2 DEF Reading
<1>3. CASE item.kind = "grouped" /\ acc.current = item.group /\ item.group \in open
  <2>1. N = [acc EXCEPT !.members[item.group] = Append(acc.members[item.group], item.space)] /\ item.space \in Spaces
    BY <1>3 DEF PlaceItem, ItemOK
  <2>2. Append(acc.members[item.group], item.space) \in Seq(Spaces)
    BY <1>1, <1>3, <2>1
  <2>3. N = [acc EXCEPT !.members = [acc.members EXCEPT ![item.group] = Append(acc.members[item.group], item.space)]]
    BY <2>1
  <2>4. [acc.members EXCEPT ![item.group] = Append(acc.members[item.group], item.space)] \in [open -> Seq(Spaces)]
    BY <1>1, <2>2
  <2>. QED
    BY <2>3, <2>4 DEF Reading
<1>4. CASE item.kind # "group" /\ ~ (item.kind = "grouped" /\ acc.current = item.group /\ item.group \in open)
  <2>1. N = [acc EXCEPT !.order = Append(acc.order, item.space), !.current = "none"] /\ item.space \in Spaces
    BY <1>4 DEF PlaceItem, ItemOK
  <2>2. Append(acc.order, item.space) \in Seq(Spaces \cup GroupIds)
    BY <1>1, <2>1
  <2>. QED
    BY <2>1, <2>2 DEF Reading
<1>. QED
  BY <1>2, <1>3, <1>4

\* Reading a list of items of distinct contents puts each in one place.
LEMMA ReadOnce ==
  ASSUME NEW open \in SUBSET GroupIds, NEW flat \in Seq(Item),
         \A i \in 1..Len(flat) : ItemOK(flat[i]),
         \A i, j \in 1..Len(flat) : Content(flat[i]) = Content(flat[j]) => i = j
  PROVE  ReadsOnce(Read(flat, open), open, {Content(flat[i]) : i \in 1..Len(flat)})
<1> DEFINE n == Len(flat)
           b == [order |-> <<>>, members |-> [g \in open |-> <<>>], current |-> "none"]
<1>1. n \in Nat
  OBVIOUS
<1>2. Read(flat, open) = (CHOOSE f : ReadFrom(f, flat, open))[n]
  BY Zenon DEF Read, ReadFrom
<1>3. ReadsOnce(b, open, {}) /\ b \in Reading(open)
  BY NothingRead DEF ReadsOnce
<1> HIDE DEF n, b
<1>4. \E f : ReadFrom(f, flat, open)
  <2> DEFINE A == Reading(open)
             G == [i \in 1..n |-> [a \in A |-> PlaceItem(a, flat[i], open)]]
  <2>1. \A i \in 1..n : \A a \in A : PlaceItem(a, flat[i], open) \in A
    BY PlaceTyped DEF n
  <2>2. n \in Nat /\ b \in A /\ G \in [1..n -> [A -> A]]
    BY <1>1, <1>3, <2>1
  <2>3. \A i \in 1..n : \A a \in A : G[i][a] = PlaceItem(a, flat[i], open)
    OBVIOUS
  <2> HIDE DEF A, G
  <2>4. PICK f : StepsFrom(f, n, A, b, G)
    BY <2>2, StepByStep
  <2>5. f = [i \in 0..n |-> f[i]]
    BY <2>4 DEF StepsFrom
  <2>6. \A i \in 0..n : f[i] = IF i = 0 THEN b ELSE PlaceItem(f[i - 1], flat[i], open)
    <3>1. \A i \in 0..n : i # 0 => i \in 1..n /\ i - 1 \in 0..n
      BY <1>1
    <3>. QED
      BY <2>3, <2>4, <3>1 DEF StepsFrom
  <2>7. f = [i \in 0..n |-> IF i = 0 THEN b ELSE PlaceItem(f[i - 1], flat[i], open)]
    BY <2>5, <2>6
  <2>. QED
    BY <2>7 DEF ReadFrom, n, b
<1>5. PICK f : ReadFrom(f, flat, open) /\ Read(flat, open) = f[n]
  BY <1>2, <1>4
<1>6. \A i \in 0..n : f[i] = IF i = 0 THEN b ELSE PlaceItem(f[i - 1], flat[i], open)
  <2>1. f = [i \in 0..n |-> IF i = 0 THEN b ELSE PlaceItem(f[i - 1], flat[i], open)]
    BY <1>5 DEF ReadFrom, n, b
  <2>. QED
    BY <2>1
<1> DEFINE C(i) == {Content(flat[j]) : j \in 1..i}
           Bad == {i \in 0..n : ~ ReadsOnce(f[i], open, C(i))}
<1>7. Bad = {}
  <2> SUFFICES ASSUME Bad # {} PROVE FALSE
    OBVIOUS
  <2>1. Bad \in SUBSET Nat
    OBVIOUS
  <2>2. PICK i \in Bad : \A j \in Bad : i <= j
    <3> HIDE DEF Bad
    <3>. QED
      BY <2>1, LeastNat
  <2>3. i \in 0..n /\ ~ ReadsOnce(f[i], open, C(i))
    OBVIOUS
  <2>4. i # 0
    <3>1. C(0) = {} /\ 0 \in 0..n
      BY <1>1
    <3>2. f[0] = b
      BY <1>6, <3>1
    <3>. QED
      BY <1>3, <2>3, <3>1, <3>2
  <2>5. i \in 1..n /\ i - 1 \in 0..n /\ ~ (i <= i - 1)
    BY <1>1, <2>3, <2>4
  <2>6. ReadsOnce(f[i - 1], open, C(i - 1))
    BY <2>2, <2>5
  <2>7. f[i] = PlaceItem(f[i - 1], flat[i], open) /\ ItemOK(flat[i])
    BY <1>6, <2>4, <2>3, <2>5 DEF n
  <2>8. Content(flat[i]) \notin C(i - 1)
    <3>1. \A j \in 1..(i - 1) : j \in 1..n /\ j # i
      BY <1>1, <2>5
    <3>. QED
      BY <2>5, <3>1 DEF n
  <2>9. C(i) = C(i - 1) \cup {Content(flat[i])}
    <3>1. \A j : j \in 1..i <=> j \in 1..(i - 1) \/ j = i
      BY <1>1, <2>5
    <3>. QED
      BY <3>1
  <2> HIDE DEF C, Bad
  <2>10. ReadsOnce(f[i], open, C(i))
    BY <2>6, <2>7, <2>8, <2>9, PlaceReads
  <2>. QED
    BY <2>3, <2>10
<1>8. n \in 0..n
  BY <1>1
<1>9. ReadsOnce(f[n], open, C(n))
  BY <1>7, <1>8
<1>. QED
  BY <1>5, <1>9 DEF n

\* What a drawn list is about: the spaces of the top level, the groups, and the spaces
\* of the open groups.
Contents(open, L) == Range(L.order) \cup UNION {Members(L, g) : g \in open}

LEMMA ContentsOfDrawn ==
  ASSUME LayoutOK(Layout), NEW open \in SUBSET (DOMAIN groups),
         NEW flat \in Seq(Item), Once(flat), Range(flat) = DrawnItems(open, Layout)
  PROVE  /\ \A i \in 1..Len(flat) : ItemOK(flat[i])
         /\ \A i, j \in 1..Len(flat) : Content(flat[i]) = Content(flat[j]) => i = j
         /\ {Content(flat[i]) : i \in 1..Len(flat)} = Contents(open, Layout)
<1> DEFINE D == DrawnItems(open, Layout)
<1>1. /\ Layout.order = order /\ Layout.groups = groups
      /\ DOMAIN groups = Range(order) \cap GroupIds /\ Range(order) \subseteq Spaces \cup GroupIds
      /\ \A g \in DOMAIN groups : Members(Layout, g) \subseteq Spaces
  BY GroupIs, RangeIs DEF Layout, LayoutOK, OrderOK
<1>2. \A g \in DOMAIN groups : /\ Apart(Members(Layout, g), Range(order))
                              /\ \A h \in DOMAIN groups : h # g => Apart(Members(Layout, g), Members(Layout, h))
  BY <1>1 DEF LayoutOK, NothingTwice
<1>3. \A s, g : /\ TopItem(s).kind = "space" /\ TopItem(s).space = s
                /\ HeaderItem(g).kind = "group" /\ HeaderItem(g).group = g
                /\ GroupedItem(g, s).kind = "grouped" /\ GroupedItem(g, s).space = s
  BY DEF TopItem, HeaderItem, GroupedItem
<1>4. \A x : x \in D <=> \/ \E s \in Range(order) \cap Spaces : x = TopItem(s)
                         \/ \E g \in DOMAIN groups : x = HeaderItem(g)
                         \/ \E g \in open : \E s \in Members(Layout, g) : x = GroupedItem(g, s)
  BY <1>1 DEF DrawnItems, OneOf
<1>5. /\ \A s : Content(TopItem(s)) = s
      /\ \A g : Content(HeaderItem(g)) = g
      /\ \A g, s : Content(GroupedItem(g, s)) = s
  BY <1>3 DEF Content
<1>6. /\ \A s \in Spaces : ItemOK(TopItem(s))
      /\ \A g \in GroupIds : ItemOK(HeaderItem(g))
      /\ \A g : \A s \in Spaces : ItemOK(GroupedItem(g, s))
  BY <1>3 DEF ItemOK
<1> HIDE DEF D
<1>7. Range(flat) = {flat[i] : i \in 1..Len(flat)} /\ Range(flat) = D
  BY RangeIs DEF D
<1>8. \A x \in D : ItemOK(x)
  <2>1. open \subseteq DOMAIN groups
    OBVIOUS
  <2>. QED
    BY <1>1, <1>4, <1>6, <2>1
<1>9. ASSUME NEW x \in D, NEW y \in D, Content(x) = Content(y) PROVE x = y
  <2>1. \A s \in Spaces : \A g \in GroupIds : s # g
    BY RailAssumption
  <2>2. ASSUME NEW s \in Range(order) \cap Spaces, x = TopItem(s) PROVE x = y
    <3>1. Content(y) = s
      BY <1>5, <1>9, <2>2
    <3>2. \A g \in DOMAIN groups : y # HeaderItem(g)
      BY <1>1, <1>5, <2>1, <3>1
    <3>3. \A g \in open : s \notin Members(Layout, g)
      BY <1>2 DEF Apart
    <3>. QED
      BY <1>4, <1>5, <2>2, <3>1, <3>2, <3>3
  <2>3. ASSUME NEW g \in DOMAIN groups, x = HeaderItem(g) PROVE x = y
    <3>1. Content(y) = g /\ g \in GroupIds /\ g \notin Spaces
      BY <1>1, <1>5, <1>9, <2>1, <2>3
    <3>2. \A h \in open : g \notin Members(Layout, h)
      BY <1>1, <3>1
    <3>. QED
      BY <1>4, <1>5, <2>3, <3>1, <3>2
  <2>4. ASSUME NEW g \in open, NEW s \in Members(Layout, g), x = GroupedItem(g, s) PROVE x = y
    <3>1. Content(y) = s /\ s \in Spaces
      BY <1>1, <1>5, <1>9, <2>4
    <3>2. s \notin Range(order) /\ \A h \in open : s \in Members(Layout, h) => h = g
      BY <1>2 DEF Apart
    <3>3. s \notin DOMAIN groups
      BY <1>1, <2>1, <3>1
    <3>. QED
      BY <1>4, <1>5, <2>4, <3>1, <3>2, <3>3
  <2>. QED
    BY <1>4, <2>2, <2>3, <2>4
<1>10. {Content(x) : x \in D} = Contents(open, Layout)
  <2>1. ASSUME NEW x \in D PROVE Content(x) \in Contents(open, Layout)
    BY <1>1, <1>4, <1>5 DEF Contents
  <2>2. ASSUME NEW c \in Contents(open, Layout) PROVE \E x \in D : Content(x) = c
    <3>1. CASE c \in Range(order) \cap Spaces
      BY <1>4, <1>5, <3>1
    <3>2. CASE c \in DOMAIN groups
      BY <1>4, <1>5, <3>2
    <3>3. CASE \E g \in open : c \in Members(Layout, g)
      BY <1>4, <1>5, <3>3
    <3>. QED
      BY <1>1, <3>1, <3>2, <3>3 DEF Contents
  <2>. QED
    BY <2>1, <2>2
<1>11. \A i, j \in 1..Len(flat) : Content(flat[i]) = Content(flat[j]) => i = j
  BY <1>7, <1>9 DEF Once
<1>12. {Content(flat[i]) : i \in 1..Len(flat)} = {Content(x) : x \in D}
  BY <1>7
<1>. QED
  BY <1>7, <1>8, <1>10, <1>11, <1>12

\* A permutation of the drawn list folds back into a layout of the same spaces.
LEMMA FoldedBack ==
  ASSUME LayoutOK(Layout), NEW open \in SUBSET (DOMAIN groups),
         NEW flat \in Seq(Item), Once(flat), Range(flat) = DrawnItems(open, Layout)
  PROVE  /\ LayoutOK(FlatToHierarchical(flat, open))
         /\ PlacedIn(Layout) \subseteq PlacedIn(FlatToHierarchical(flat, open))
<1> DEFINE N == FlatToHierarchical(flat, open)
           X == Spaces \cup GroupIds
           read == Read(flat, open)
           small == {g \in open : Len(read.members[g]) < 2}
           PutBack(item) == IF item \in small THEN read.members[item] ELSE <<item>>
           ss == [i \in 1..Len(read.order) |-> PutBack(read.order[i])]
           C == Contents(open, Layout)
<1>1. N = [order |-> FlattenSeq(ss),
           groups |-> [g \in (DOMAIN groups \cap Range(read.order)) \ small |->
                         IF g \in open THEN [groups[g] EXCEPT !.members = read.members[g]] ELSE groups[g]]]
  BY DEF FlatToHierarchical
<1>2. /\ Layout.order = order /\ Layout.groups = groups
      /\ DOMAIN groups = Range(order) \cap GroupIds /\ Range(order) \subseteq X
      /\ \A g \in DOMAIN groups : Members(Layout, g) \subseteq Spaces
      /\ open \in SUBSET GroupIds /\ open \subseteq DOMAIN groups
  BY GroupIs, RangeIs DEF Layout, LayoutOK, OrderOK
<1>3. ReadsOnce(read, open, C)
  <2>1. /\ \A i \in 1..Len(flat) : ItemOK(flat[i])
        /\ \A i, j \in 1..Len(flat) : Content(flat[i]) = Content(flat[j]) => i = j
        /\ {Content(flat[i]) : i \in 1..Len(flat)} = C
    BY ContentsOfDrawn
  <2> HIDE DEF read, C
  <2>. QED
    BY <1>2, <2>1, ReadOnce DEF read
<1> HIDE DEF read, N, X, C
<1>4. /\ read.order \in Seq(X) /\ Once(read.order) /\ Len(read.order) \in Nat
      /\ Range(read.order) = {read.order[i] : i \in 1..Len(read.order)} /\ Range(read.order) \subseteq X
      /\ \A g \in open : /\ read.members[g] \in Seq(Spaces) /\ Once(read.members[g])
                         /\ Range(read.members[g]) \subseteq Spaces /\ Apart(Range(read.members[g]), Range(read.order))
                         /\ \A h \in open : h # g => Apart(Range(read.members[g]), Range(read.members[h]))
  BY <1>3, RangeIs DEF ReadsOnce, Reading, X
<1>5. C = Range(read.order) \cup UNION {Range(read.members[g]) : g \in open}
  BY <1>3 DEF ReadsOnce
<1>6. DOMAIN groups = Range(read.order) \cap GroupIds
  <2>1. \A g \in open : Apart(Range(read.members[g]), GroupIds)
    BY <1>4, RailAssumption DEF Apart
  <2>2. C \cap GroupIds = DOMAIN groups
    <3>1. \A g \in open : Apart(Members(Layout, g), GroupIds)
      BY <1>2, RailAssumption DEF Apart
    <3>. QED
      BY <1>2, <3>1 DEF C, Contents, Apart
  <2>3. \A x \in GroupIds : x \in C <=> x \in Range(read.order)
    BY <1>5, <2>1 DEF Apart
  <2>. QED
    BY <2>2, <2>3
<1>7. small \subseteq open /\ \A g \in open : g \notin small => Len(read.members[g]) >= 2
  <2>1. \A g \in open : Len(read.members[g]) \in Nat
    BY <1>4
  <2>. QED
    BY <2>1
<1> HIDE DEF small
<1>8. ASSUME NEW x \in Range(read.order)
      PROVE  /\ PutBack(x) \in Seq(X) /\ Once(PutBack(x))
             /\ Range(PutBack(x)) = IF x \in small THEN Range(read.members[x]) ELSE {x}
  <2>1. CASE x \in small
    <3>1. read.members[x] \in Seq(X)
      BY <1>4, <1>7, <2>1, SeqMonotonic DEF X
    <3>. QED
      BY <1>4, <1>7, <2>1, <3>1
  <2>2. CASE x \notin small
    <3>1. x \in X
      BY <1>4
    <3>. QED
      BY <2>2, <3>1, OneItem
  <2>. QED
    BY <2>1, <2>2
<1>9. \A i \in 1..Len(read.order) : read.order[i] \in Range(read.order)
  BY <1>4
<1> HIDE DEF PutBack
<1>10. ss \in Seq(Seq(X)) /\ Len(ss) = Len(read.order)
       /\ \A i \in 1..Len(read.order) : ss[i] = PutBack(read.order[i])
  BY <1>4, <1>8, <1>9
<1> HIDE DEF ss
<1> DEFINE DrawnAs(x) == IF x \in small THEN Range(read.members[x]) ELSE {x}
<1>11. \A i \in 1..Len(ss) : Once(ss[i]) /\ Range(ss[i]) = DrawnAs(read.order[i])
  BY <1>8, <1>9, <1>10
<1>12. ASSUME NEW i \in 1..Len(ss), NEW j \in 1..Len(ss), i # j PROVE Apart(Range(ss[i]), Range(ss[j]))
  <2>1. read.order[i] # read.order[j] /\ read.order[i] \in Range(read.order) /\ read.order[j] \in Range(read.order)
    BY <1>4, <1>9, <1>10, <1>12 DEF Once
  <2>2. ASSUME NEW x \in Range(read.order), NEW y \in Range(read.order), x # y PROVE Apart(DrawnAs(x), DrawnAs(y))
    <3>1. CASE x \in small
      <4>1. /\ Apart(Range(read.members[x]), Range(read.order))
            /\ y \in small => Apart(Range(read.members[x]), Range(read.members[y]))
        BY <1>4, <1>7, <2>2, <3>1
      <4>. QED
        BY <2>2, <3>1, <4>1 DEF Apart
    <3>2. CASE x \notin small /\ y \in small
      <4>1. Apart(Range(read.members[y]), Range(read.order))
        BY <1>4, <1>7, <3>2
      <4>. QED
        BY <2>2, <3>2, <4>1 DEF Apart
    <3>3. CASE x \notin small /\ y \notin small
      BY <2>2, <3>3 DEF Apart
    <3>. QED
      BY <3>1, <3>2, <3>3
  <2> HIDE DEF DrawnAs
  <2>3. Apart(DrawnAs(read.order[i]), DrawnAs(read.order[j]))
    BY <2>1, <2>2
  <2>. QED
    BY <1>11, <2>3
<1>13. /\ FlattenSeq(ss) \in Seq(X) /\ Once(FlattenSeq(ss))
       /\ Range(FlattenSeq(ss)) = UNION {Range(ss[i]) : i \in 1..Len(ss)}
  BY <1>10, <1>11, <1>12, FlattenOnce
<1>14. UNION {Range(ss[i]) : i \in 1..Len(ss)}
         = (Range(read.order) \ small) \cup UNION {Range(read.members[g]) : g \in small}
  <2>1. small \subseteq Range(read.order)
    BY <1>2, <1>6, <1>7
  <2>2. \A x : (\E i \in 1..Len(ss) : x \in Range(ss[i])) <=> (\E y \in Range(read.order) : x \in DrawnAs(y))
    <3> HIDE DEF DrawnAs
    <3>. QED
      BY <1>4, <1>9, <1>10, <1>11
  <2>3. \A x : (\E y \in Range(read.order) : x \in DrawnAs(y))
                 <=> (x \in Range(read.order) \ small \/ \E g \in small : x \in Range(read.members[g]))
    BY <2>1
  <2> HIDE DEF DrawnAs
  <2>4. \A x : x \in UNION {Range(ss[i]) : i \in 1..Len(ss)}
                 <=> x \in (Range(read.order) \ small) \cup UNION {Range(read.members[g]) : g \in small}
    BY <2>2, <2>3
  <2>. QED
    BY <2>4
<1> DEFINE o == FlattenSeq(ss)
<1>15. /\ o \in Seq(X) /\ Once(o)
       /\ Range(o) = (Range(read.order) \ small) \cup UNION {Range(read.members[g]) : g \in small}
  BY <1>13, <1>14
<1>16. /\ N.order = o /\ DOMAIN N.groups = DOMAIN groups \ small
       /\ \A g \in DOMAIN N.groups :
            N.groups[g] = IF g \in open THEN [groups[g] EXCEPT !.members = read.members[g]] ELSE groups[g]
  <2>1. (DOMAIN groups \cap Range(read.order)) \ small = DOMAIN groups \ small
    BY <1>6
  <2> HIDE DEF o
  <2>. QED
    BY <1>1, <2>1 DEF o
<1> HIDE DEF o, DrawnAs
<1>17. \A g \in DOMAIN groups : groups[g] \in Group /\ Once(groups[g].members) /\ Len(groups[g].members) >= 2
  BY <1>2, GroupIs DEF LayoutOK
<1>18. ASSUME NEW g \in DOMAIN N.groups
       PROVE  /\ N.groups[g] \in Group /\ Once(N.groups[g].members) /\ Len(N.groups[g].members) >= 2
              /\ Members(N, g) = IF g \in open THEN Range(read.members[g]) ELSE Members(Layout, g)
  <2>1. CASE g \in open
    <3>1. N.groups[g] \in Group /\ N.groups[g].members = read.members[g]
      BY <1>4, <1>16, <1>17, <2>1 DEF Group
    <3>. QED
      BY <1>4, <1>7, <1>16, <2>1, <3>1 DEF Members
  <2>2. CASE g \notin open
    BY <1>2, <1>16, <1>17, <2>2 DEF Members
  <2>. QED
    BY <2>1, <2>2
<1>19. OrderOK(N)
  <2>1. Range(o) \cap GroupIds = DOMAIN groups \ small
    <3>1. \A g \in small : Apart(Range(read.members[g]), GroupIds)
      BY <1>4, <1>7, RailAssumption DEF Apart
    <3>. QED
      BY <1>6, <1>15, <3>1 DEF Apart
  <2>. QED
    BY <1>15, <1>16, <2>1 DEF OrderOK, X
<1>20. GroupsOK(N)
  BY <1>18 DEF GroupsOK
<1>21. \A g \in DOMAIN groups \ open : Apart(Members(Layout, g), C)
  <2>1. ASSUME NEW g \in DOMAIN groups \ open PROVE Apart(Members(Layout, g), C)
    <3>1. Apart(Members(Layout, g), Range(order))
          /\ \A h \in open : Apart(Members(Layout, g), Members(Layout, h))
      BY <1>2 DEF LayoutOK, NothingTwice
    <3>. QED
      BY <1>2, <3>1 DEF C, Contents, Apart
  <2>. QED
    BY <2>1
<1>22. NothingTwice(N)
  <2>1. Range(o) \subseteq C /\ \A g \in open : Range(read.members[g]) \subseteq C
    BY <1>5, <1>7, <1>15
  <2>2. ASSUME NEW g \in DOMAIN N.groups PROVE Apart(Members(N, g), Range(o))
    <3>1. CASE g \in open
      <4>1. g \notin small /\ Members(N, g) = Range(read.members[g])
        BY <1>16, <1>18, <3>1
      <4>2. \A h \in small : Apart(Range(read.members[g]), Range(read.members[h]))
        BY <1>4, <1>7, <3>1, <4>1
      <4>3. Apart(Range(read.members[g]), Range(read.order))
        BY <1>4, <3>1
      <4>4. Apart(Range(read.members[g]), Range(o))
        <5> DEFINE m == Range(read.members[g])  r == Range(read.order)  q(h) == Range(read.members[h])
        <5>1. Range(o) = (r \ small) \cup UNION {q(h) : h \in small}
          BY <1>15
        <5>2. Apart(m, r) /\ \A h \in small : Apart(m, q(h))
          BY <4>2, <4>3
        <5> HIDE DEF o, m, r, q
        <5>3. Apart(m, Range(o))
          BY <5>1, <5>2 DEF Apart
        <5>. QED
          BY <5>3 DEF m
      <4>. QED
        BY <4>1, <4>4
    <3>2. CASE g \notin open
      BY <1>16, <1>18, <1>21, <2>1, <3>2 DEF Apart
    <3>. QED
      BY <3>1, <3>2
  <2>3. ASSUME NEW g \in DOMAIN N.groups, NEW h \in DOMAIN N.groups, h # g
        PROVE Apart(Members(N, g), Members(N, h))
    <3>1. CASE g \in open /\ h \in open
      BY <1>4, <1>18, <2>3, <3>1
    <3>2. CASE g \notin open /\ h \notin open
      <4>1. Apart(Members(Layout, g), Members(Layout, h))
        BY <1>2, <1>16, <2>3 DEF LayoutOK, NothingTwice
      <4>. QED
        BY <1>18, <3>2, <4>1
    <3>3. CASE g \in open /\ h \notin open
      BY <1>16, <1>18, <1>21, <2>1, <3>3 DEF Apart
    <3>4. CASE g \notin open /\ h \in open
      BY <1>16, <1>18, <1>21, <2>1, <3>4 DEF Apart
    <3>. QED
      BY <3>1, <3>2, <3>3, <3>4
  <2>. QED
    BY <1>16, <2>2, <2>3 DEF NothingTwice
<1>23. PlacedIn(Layout) \subseteq PlacedIn(N)
  <2>1. ASSUME NEW s \in C \cap Spaces PROVE s \in PlacedIn(N)
    <3>1. CASE s \in Range(read.order)
      <4>1. s \notin small
        BY <1>2, <1>7, RailAssumption
      <4>. QED
        BY <1>15, <1>16, <3>1, <4>1 DEF PlacedIn
    <3>2. ASSUME NEW g \in open, s \in Range(read.members[g]) PROVE s \in PlacedIn(N)
      <4>1. CASE g \in small
        BY <1>15, <1>16, <3>2, <4>1 DEF PlacedIn
      <4>2. CASE g \notin small
        <5>1. g \in DOMAIN N.groups /\ s \in Members(N, g)
          BY <1>2, <1>16, <1>18, <3>2, <4>2
        <5>. QED
          BY <5>1 DEF PlacedIn
      <4>. QED
        BY <4>1, <4>2
    <3>. QED
      BY <1>5, <3>1, <3>2
  <2>2. ASSUME NEW g \in DOMAIN groups \ open PROVE Members(Layout, g) \subseteq PlacedIn(N)
    <3>1. g \in DOMAIN N.groups /\ Members(N, g) = Members(Layout, g)
      BY <1>7, <1>16, <1>18
    <3>. QED
      BY <3>1 DEF PlacedIn
  <2>3. ASSUME NEW g \in open PROVE Members(Layout, g) \subseteq C \cap Spaces
    BY <1>2 DEF C, Contents
  <2>4. Range(order) \subseteq C
    BY <1>2 DEF C, Contents
  <2>. QED
    BY <1>2, <2>1, <2>2, <2>3, <2>4 DEF PlacedIn
<1>24. LayoutOK(N)
  BY <1>19, <1>20, <1>22 DEF LayoutOK
<1>. QED
  BY <1>23, <1>24 DEF N

-----------------------------------------------------------------------------
(* The drops *)

\* The place of x in s, or 0.
IndexIn(s, x) == SelectInSeq(s, LAMBDA item : item = x)

LEMMA IndexInIs ==
  ASSUME NEW S, NEW s \in Seq(S), NEW x, IndexIn(s, x) # 0
  PROVE  IndexIn(s, x) \in 1..Len(s) /\ s[IndexIn(s, x)] = x
BY IndexFound DEF IndexIn

\* A drop beside an item permutes the flat list and folds it back.
LEMMA BesideOK ==
  ASSUME LayoutOK(Layout), NEW active, NEW over, NEW before
  PROVE  TakenIn(DropBeside(active, over, before), Layout, active)
<1> DEFINE flat == BuildFlatIds(Expanded)
           from == IndexIn(flat, active)
           at == IndexIn(flat, over)
           to == IF before THEN (IF from < at THEN at - 1 ELSE at)
                 ELSE (IF from > at THEN at + 1 ELSE at)
           moved == InsertAt(RemoveAt(flat, from), to, active)
<1>1. Expanded \in SUBSET (DOMAIN groups)
  BY DEF Expanded
<1>2. flat \in Seq(Item) /\ Once(flat) /\ Range(flat) = DrawnItems(Expanded, Layout)
  BY <1>1, FlatIsDrawn
<1>3. DropBeside(active, over, before) =
        IF from = 0 \/ at = 0 \/ to = from THEN Layout ELSE FlatToHierarchical(moved, Expanded)
  BY DEF DropBeside, IndexIn
<1>4. TakenIn(Layout, Layout, active)
  BY DEF TakenIn
<1>5. (from # 0 => from \in 1..Len(flat) /\ flat[from] = active) /\ (at # 0 => at \in 1..Len(flat))
  <2> HIDE DEF flat
  <2>. QED
    BY <1>2, IndexInIs
<1>6. ASSUME from # 0, at # 0 PROVE TakenIn(FlatToHierarchical(moved, Expanded), Layout, active)
  <2>1. from \in 1..Len(flat) /\ at \in 1..Len(flat) /\ Len(flat) \in Nat /\ active = flat[from]
    BY <1>2, <1>5, <1>6
  <2> HIDE DEF flat, from, at
  <2>2. to \in 1..Len(flat)
    BY <2>1
  <2> HIDE DEF to
  <2>3. moved \in Seq(Item) /\ Once(moved) /\ Range(moved) = Range(flat)
    BY <1>2, <2>1, <2>2, MoveOnce
  <2> HIDE DEF moved
  <2>. QED
    BY <1>1, <1>2, <2>3, FoldedBack DEF TakenIn
<1>. QED
  BY <1>3, <1>4, <1>6

\* What is picked up, as long as it is under way: a space of the top level that is in
\* no group, a space that is in no group but the one it was picked up in, or a group.
HeldOK(active) ==
  \/ active.kind = "group"
  \/ /\ active.kind \in {"space", "grouped"} /\ active.space \in Spaces
     /\ \A h \in DOMAIN groups :
          (active.kind = "grouped" /\ active.group = h) \/ active.space \notin Members(Layout, h)

LEMMA OntoOK ==
  ASSUME LayoutOK(Layout), NEW active, HeldOK(active), NEW over,
         over \in DrawnItems(Expanded, Layout), CanGroup(active, over), active.space # over.space,
         over.kind = "space" => GroupIds \ DOMAIN groups # {}
  PROVE  TakenIn(DropOnto(active, over), Layout, active)
<1> DEFINE s == active.space
           N == Taken(active)
<1>1. active.kind \in {"space", "grouped"} /\ s \in Spaces
  BY DEF HeldOK, CanGroup
<1>2. /\ LayoutOK(N) /\ PlacedIn(N) = PlacedIn(Layout)
      /\ DOMAIN N.groups \subseteq DOMAIN groups
      /\ \A h \in DOMAIN N.groups : s \notin Members(N, h)
      /\ Range(order) \cap Spaces \subseteq Range(N.order)
  <2>1. CASE active.kind = "grouped"
    <3> DEFINE g == active.group
    <3>1. LetGo(N, Layout, s, g)
      BY <1>1, <2>1, RemoveOK DEF Taken
    <3>2. \A h \in DOMAIN groups : h = g \/ s \notin Members(Layout, h)
      BY <1>1, <2>1 DEF HeldOK
    <3>3. Layout.order = order /\ Layout.groups = groups
      BY DEF Layout
    <3> HIDE DEF N, s, g
    <3>. QED
      BY <3>1, <3>2, <3>3 DEF LetGo
  <2>2. CASE active.kind = "space"
    <3>1. N = Layout
      BY <2>2 DEF Taken
    <3>2. \A h \in DOMAIN groups : s \notin Members(Layout, h)
      BY <1>1, <2>2 DEF HeldOK
    <3>. QED
      BY <3>1, <3>2 DEF Layout
  <2>. QED
    BY <1>1, <2>1, <2>2
<1> HIDE DEF N
<1>3. CASE over.kind = "space"
  <2>1. over.space \in Range(order) \cap Spaces
    BY <1>3 DEF DrawnItems, OneOf, TopItem, HeaderItem, GroupedItem, Layout
  <2>2. over.space \in Spaces /\ over.space \in Range(N.order) /\ GroupIds \ DOMAIN N.groups # {} /\ s # over.space
    BY <1>2, <1>3, <2>1
  <2> HIDE DEF s
  <2>3. TakenIn(CreateGroup(N, s, over.space), N, s)
    BY <1>1, <1>2, <2>2, CreateOK
  <2>. QED
    BY <1>2, <1>3, <2>3 DEF DropOnto, TakenIn, N, s
<1>4. CASE over.kind # "space"
  <2>1. TakenIn(AddToGroup(N, s, over.group), N, s)
    BY <1>1, <1>2, AddOK
  <2>. QED
    BY <1>2, <1>4, <2>1 DEF DropOnto, TakenIn, N
<1>. QED
  BY <1>3, <1>4

-----------------------------------------------------------------------------
(* The effect that follows the server's list *)

LEMMA PlacedIs ==
  ASSUME LayoutOK(Layout)
  PROVE  Placed = PlacedIn(Layout) /\ Placed \subseteq Spaces
<1>1. Layout.order = order /\ Layout.groups = groups
  BY DEF Layout
<1>2. DOMAIN groups \subseteq Range(order) /\ \A g \in DOMAIN groups : Members(Layout, g) \subseteq Spaces
  BY <1>1, GroupIs DEF LayoutOK, OrderOK
<1>3. \A g \in DOMAIN groups : Members(Layout, g) = Range(groups[g].members)
  BY <1>1 DEF Members
<1>. QED
  BY <1>1, <1>2, <1>3 DEF Placed, PlacedIn

LEMMA GroupsFinite ==
  ASSUME LayoutOK(Layout)
  PROVE  IsFiniteSet(DOMAIN groups)
<1>1. order \in Seq(Spaces \cup GroupIds) /\ DOMAIN groups \subseteq Range(order)
  BY DEF LayoutOK, OrderOK, Layout
<1>2. order \in Surjection(1..Len(order), Range(order)) /\ Len(order) \in Nat
  BY <1>1, RangeIs DEF Surjection
<1>3. IsFiniteSet(1..Len(order))
  BY <1>2, FS_Interval
<1>4. IsFiniteSet(Range(order))
  BY <1>2, <1>3, FS_Surjection
<1>. QED
  BY <1>1, <1>4, FS_Subset

\* What the sync makes of the layout is whole, holds every joined space, and leaves
\* no group a space it did not have.
LEMMA SyncOK ==
  ASSUME LayoutOK(Layout), IsFiniteSet(joined), joined \subseteq Spaces, SyncServers
  PROVE  /\ LayoutOK(Layout') /\ joined \subseteq PlacedIn(Layout')
         /\ \A g \in DOMAIN groups' : g \in DOMAIN groups /\ Members(Layout', g) \subseteq Members(Layout, g)
<1> DEFINE gone == Placed \ joined
           added == joined \ Placed
           Kept(g) == Filtered(groups[g].members, gone)
           dissolved == {g \in DOMAIN groups : Len(Kept(g)) < 2}
           n == Cardinality(dissolved)
           ds == SetToSeq(dissolved)
           parts == [i \in 1..n |-> Kept(ds[i])]
           A == Filtered(order, gone \cup dissolved)
           B == FlattenSeq(parts)
           C == SetToSeq(added)
           X == Spaces \cup GroupIds
<1>1. Layout.order = order /\ Layout.groups = groups /\ Layout'.order = order' /\ Layout'.groups = groups'
  BY DEF Layout
<1>2. Placed = PlacedIn(Layout) /\ Placed \subseteq Spaces
  BY PlacedIs
<1>3. CASE gone = {} /\ added = {}
  <2>1. UNCHANGED <<order, groups>> /\ joined \subseteq Placed
    BY <1>3 DEF SyncServers
  <2>2. Layout' = Layout
    BY <2>1 DEF Layout
  <2>. QED
    BY <1>1, <1>2, <2>1, <2>2
<1>4. CASE ~(gone = {} /\ added = {})
  <2>1. /\ order' = A \o B \o C
        /\ groups' = [g \in DOMAIN groups \ dissolved |-> [groups[g] EXCEPT !.members = Kept(g)]]
    BY <1>4 DEF SyncServers
  <2>2. \A g \in DOMAIN groups :
          /\ groups[g] \in Group /\ groups[g].members \in Seq(Spaces)
          /\ Once(groups[g].members) /\ Members(Layout, g) = Range(groups[g].members)
          /\ Members(Layout, g) \subseteq Placed
    BY <1>1, <1>2, GroupIs DEF LayoutOK, Members, PlacedIn
  <2>3. \A g \in DOMAIN groups :
          /\ Kept(g) \in Seq(Spaces) /\ Once(Kept(g)) /\ Range(Kept(g)) = Members(Layout, g) \ gone
    <3> HIDE DEF gone
    <3>. QED
      BY <2>2, FilteredOnce
  <2>4. order \in Seq(X) /\ Once(order) /\ DOMAIN groups = Range(order) \cap GroupIds
    BY <1>1 DEF LayoutOK, OrderOK
  <2>5. Range(order) \cap Spaces \subseteq Placed /\ dissolved \subseteq GroupIds /\ dissolved \subseteq DOMAIN groups
    BY <2>4 DEF Placed
  <2>6. /\ A \in Seq(X) /\ Once(A) /\ Range(A) = Range(order) \ (gone \cup dissolved)
    <3> HIDE DEF gone, dissolved
    <3>. QED
      BY <2>4, FilteredOnce
  <2>7. /\ ds \in Seq(dissolved) /\ Once(ds) /\ Range(ds) = dissolved /\ Len(ds) = n
    <3>1. IsFiniteSet(dissolved)
      BY GroupsFinite, FS_Subset
    <3> HIDE DEF dissolved
    <3>. QED
      BY <3>1, SetToSeqOnce
  <2>8. /\ C \in Seq(added) /\ Once(C) /\ Range(C) = added
    <3>1. IsFiniteSet(added)
      BY FS_Subset
    <3> HIDE DEF added
    <3>. QED
      BY <3>1, SetToSeqOnce
  <2>9. /\ B \in Seq(Spaces) /\ Once(B)
        /\ Range(B) = UNION {Members(Layout, g) \ gone : g \in dissolved}
    <3>1. n \in Nat /\ Len(parts) = n /\ parts \in Seq(Seq(Spaces))
          /\ \A i \in 1..n : ds[i] \in dissolved /\ parts[i] = Kept(ds[i])
      <4>1. n \in Nat /\ \A i \in 1..n : ds[i] \in dissolved
        <5> HIDE DEF ds, n, dissolved
        <5>. QED
          BY <2>7
      <4>2. \A i \in 1..n : Kept(ds[i]) \in Seq(Spaces)
        <5> HIDE DEF Kept, ds, n, dissolved
        <5>. QED
          BY <2>3, <2>5, <4>1
      <4> HIDE DEF n, Kept, ds, dissolved
      <4>. QED
        BY <4>1, <4>2
    <3>2. \A i \in 1..Len(parts) : Once(parts[i])
      <4> HIDE DEF Kept, parts, ds, n, dissolved
      <4>. QED
        BY <2>3, <2>5, <3>1
    <3>3. \A i \in 1..Len(parts) : Range(parts[i]) = Members(Layout, ds[i]) \ gone
      <4> HIDE DEF Kept, parts, ds, n, dissolved, gone
      <4>. QED
        BY <2>3, <2>5, <3>1
    <3>4. ASSUME NEW i \in 1..Len(parts), NEW j \in 1..Len(parts), i # j
          PROVE  Apart(Range(parts[i]), Range(parts[j]))
      <4>1. ds[i] \in DOMAIN groups /\ ds[j] \in DOMAIN groups /\ ds[i] # ds[j]
        <5> HIDE DEF ds, n, dissolved, parts
        <5>. QED
          BY <2>5, <2>7, <3>1, <3>4 DEF Once
      <4>2. Apart(Members(Layout, ds[i]), Members(Layout, ds[j]))
        <5> HIDE DEF ds
        <5>. QED
          BY <1>1, <4>1 DEF LayoutOK, NothingTwice
      <4> HIDE DEF ds, parts, gone
      <4>. QED
        BY <3>3, <4>2 DEF Apart
    <3>5. UNION {Range(parts[i]) : i \in 1..Len(parts)} = UNION {Members(Layout, g) \ gone : g \in dissolved}
      <4>1. dissolved = {ds[i] : i \in 1..Len(parts)}
        <5> HIDE DEF ds, dissolved, n, parts
        <5>. QED
          BY <2>7, <3>1, RangeIs
      <4> HIDE DEF ds, dissolved, n, parts, gone
      <4>. QED
        BY <3>3, <4>1
    <3> HIDE DEF parts, gone, dissolved
    <3>. QED
      BY <3>1, <3>2, <3>4, <3>5, FlattenOnce
  <2>10. /\ order' \in Seq(X) /\ Once(order')
         /\ Range(order') = Range(A) \cup Range(B) \cup Range(C)
    <3>1. Apart(Range(A), Range(B))
      <4>1. \A g \in DOMAIN groups : Apart(Members(Layout, g), Range(order))
        BY <1>1 DEF LayoutOK, NothingTwice
      <4> HIDE DEF A, B, gone, dissolved
      <4>. QED
        BY <2>5, <2>6, <2>9, <4>1 DEF Apart
    <3>2. Range(B) \subseteq Placed
      <4> HIDE DEF B, gone, dissolved
      <4>. QED
        BY <2>2, <2>5, <2>9
    <3>3. Apart(Range(A) \cup Range(B), Range(C))
      <4>1. Apart(Placed, added) /\ added \subseteq Spaces
        BY DEF Apart
      <4>2. Range(A) \cap Spaces \subseteq Placed
        <5> HIDE DEF A, gone, dissolved
        <5>. QED
          BY <2>5, <2>6
      <4> HIDE DEF A, B, C, added
      <4>. QED
        BY <2>8, <3>2, <4>1, <4>2 DEF Apart
    <3>4. B \in Seq(X) /\ C \in Seq(X)
      <4>1. Seq(Spaces) \subseteq Seq(X) /\ Seq(added) \subseteq Seq(X)
        <5>1. Spaces \subseteq X /\ added \subseteq X
          OBVIOUS
        <5> HIDE DEF X, added
        <5>. QED
          BY <5>1
      <4> HIDE DEF B, C, X, added
      <4>. QED
        BY <2>8, <2>9, <4>1
    <3> HIDE DEF A, B, C, X
    <3>5. A \o B \in Seq(X) /\ Range(A \o B) = Range(A) \cup Range(B) /\ Once(A \o B)
      <4>1. A \in Seq(X) /\ B \in Seq(X) /\ Once(A) /\ Once(B)
        BY <2>6, <2>9, <3>4
      <4>. QED
        BY <3>1, <4>1, JoinOnce
    <3>6. (A \o B) \o C \in Seq(X) /\ Range((A \o B) \o C) = Range(A \o B) \cup Range(C) /\ Once((A \o B) \o C)
      <4>1. C \in Seq(X) /\ Once(C)
        BY <2>8, <3>4
      <4>2. Apart(Range(A \o B), Range(C))
        BY <3>3, <3>5
      <4> DEFINE AB == A \o B
      <4>3. AB \in Seq(X) /\ Once(AB) /\ Apart(Range(AB), Range(C))
        BY <3>5, <4>2
      <4> HIDE DEF AB
      <4>4. AB \o C \in Seq(X) /\ Range(AB \o C) = Range(AB) \cup Range(C) /\ Once(AB \o C)
        BY <4>1, <4>3, JoinOnce
      <4>. QED
        BY <4>4 DEF AB
    <3>7. order' = (A \o B) \o C
      BY <2>1
    <3>. QED
      BY <3>5, <3>6, <3>7
  <2>11. DOMAIN groups' = DOMAIN groups \ dissolved
         /\ \A g \in DOMAIN groups' :
              /\ groups'[g] \in Group /\ groups'[g].members = Kept(g) /\ Len(Kept(g)) >= 2
              /\ Members(Layout', g) = Members(Layout, g) \ gone
    <3>1. DOMAIN groups' = DOMAIN groups \ dissolved
          /\ \A g \in DOMAIN groups' : groups'[g] = [groups[g] EXCEPT !.members = Kept(g)]
      <4> HIDE DEF dissolved, Kept
      <4>. QED
        BY <2>1
    <3>2. \A g \in DOMAIN groups \ dissolved : Len(Kept(g)) >= 2
      <4>1. \A g \in DOMAIN groups : Len(Kept(g)) \in Nat
        <5> HIDE DEF Kept
        <5>. QED
          BY <2>3
      <4>. QED
        BY <4>1
    <3>3. \A g \in DOMAIN groups' : groups'[g] \in Group /\ groups'[g].members = Kept(g)
      <4> HIDE DEF dissolved, Kept
      <4>. QED
        BY <2>2, <2>3, <3>1 DEF Group
    <3> HIDE DEF dissolved, Kept
    <3>. QED
      BY <1>1, <2>3, <3>1, <3>2, <3>3 DEF Members
  <2> HIDE DEF A, B, C, Kept, dissolved
  <2>12. OrderOK(Layout')
    <3>1. Range(order') \cap GroupIds = DOMAIN groups'
      <4>1. Apart(Range(B), GroupIds) /\ Apart(added, GroupIds) /\ Apart(gone, GroupIds)
        BY <1>2, <2>9, RangeIs, RailAssumption DEF Apart
      <4> HIDE DEF gone, added
      <4>. QED
        BY <2>4, <2>6, <2>8, <2>10, <2>11, <4>1 DEF Apart
    <3>. QED
      BY <1>1, <2>10, <3>1 DEF OrderOK
  <2>13. GroupsOK(Layout')
    BY <1>1, <2>3, <2>11 DEF GroupsOK
  <2>14. NothingTwice(Layout')
    <3>1. ASSUME NEW g \in DOMAIN groups' PROVE Apart(Members(Layout', g), Range(order'))
      <4>1. g \in DOMAIN groups \ dissolved /\ Members(Layout', g) \subseteq Members(Layout, g)
        BY <2>11
      <4>2. Apart(Members(Layout, g), Range(order))
            /\ \A h \in DOMAIN groups : h # g => Apart(Members(Layout, g), Members(Layout, h))
        BY <1>1, <4>1 DEF LayoutOK, NothingTwice
      <4>3. Apart(Members(Layout, g), added)
        BY <2>2, <4>1 DEF Apart
      <4>4. Apart(Members(Layout, g), Range(A))
        BY <2>6, <4>2 DEF Apart
      <4>5. Apart(Members(Layout, g), Range(B))
        BY <2>5, <2>9, <4>1, <4>2 DEF Apart
      <4> HIDE DEF added
      <4>. QED
        BY <2>8, <2>10, <4>1, <4>3, <4>4, <4>5 DEF Apart
    <3>2. ASSUME NEW g \in DOMAIN groups', NEW h \in DOMAIN groups', h # g
          PROVE  Apart(Members(Layout', g), Members(Layout', h))
      <4>1. Apart(Members(Layout, g), Members(Layout, h))
        BY <1>1, <2>11, <3>2 DEF LayoutOK, NothingTwice
      <4>. QED
        BY <2>11, <4>1 DEF Apart
    <3>. QED
      BY <1>1, <3>1, <3>2 DEF NothingTwice
  <2>15. joined \subseteq PlacedIn(Layout')
    <3>1. ASSUME NEW s \in joined PROVE s \in PlacedIn(Layout')
      <4>1. s \in Spaces /\ s \notin gone
        BY <3>1
      <4>2. CASE s \in added
        BY <1>1, <2>8, <2>10, <4>1, <4>2 DEF PlacedIn
      <4>3. CASE s \in Range(order)
        <5>1. s \notin dissolved
          BY <2>5, <4>1, RailAssumption
        <5>. QED
          BY <1>1, <2>6, <2>10, <4>1, <4>3, <5>1 DEF PlacedIn
      <4>4. ASSUME NEW g \in DOMAIN groups, s \in Members(Layout, g) PROVE s \in PlacedIn(Layout')
        <5>1. CASE g \in dissolved
          BY <1>1, <2>9, <2>10, <4>1, <4>4, <5>1 DEF PlacedIn
        <5>2. CASE g \notin dissolved
          <6>1. g \in DOMAIN groups' /\ s \in Members(Layout', g)
            BY <2>11, <4>1, <4>4, <5>2
          <6>. QED
            BY <1>1, <6>1 DEF PlacedIn
        <5>. QED
          BY <5>1, <5>2
      <4>. QED
        BY <1>1, <1>2, <4>2, <4>3, <4>4 DEF PlacedIn
    <3>. QED
      BY <3>1
  <2>. QED
    BY <2>11, <2>12, <2>13, <2>14, <2>15 DEF LayoutOK
<1>. QED
  BY <1>3, <1>4

-----------------------------------------------------------------------------
(* The invariant *)

RailInv ==
  /\ joined \subseteq Spaces /\ IsFiniteSet(joined) /\ twinned \in BOOLEAN
  /\ twinned \/ /\ LayoutOK(Layout)
                /\ followed => joined \subseteq PlacedIn(Layout)
                /\ \A item \in drag : HeldOK(item)

LEMMA SameLayout ==
  ASSUME NEW L, NEW M, M.order = L.order, M.groups = L.groups, LayoutOK(L)
  PROVE  LayoutOK(M) /\ PlacedIn(M) = PlacedIn(L) /\ \A g : Members(M, g) = Members(L, g)
<1>1. (\A g : Members(M, g) = Members(L, g)) /\ PlacedIn(M) = PlacedIn(L)
  BY DEF Members, PlacedIn
<1>2. OrderOK(M) /\ GroupsOK(M)
  BY DEF LayoutOK, OrderOK, GroupsOK
<1>3. NothingTwice(M)
  BY <1>1 DEF LayoutOK, NothingTwice
<1>. QED
  BY <1>1, <1>2, <1>3 DEF LayoutOK

LEMMA ToggleOK ==
  ASSUME LayoutOK(Layout), NEW g, ToggleGroupCollapsed(g)
  PROVE  LayoutOK(Layout') /\ PlacedIn(Layout') = PlacedIn(Layout)
<1>1. Layout.order = order /\ Layout.groups = groups /\ Layout'.order = order' /\ Layout'.groups = groups'
  BY DEF Layout
<1>2. /\ g \in DOMAIN groups /\ order' = order /\ DOMAIN groups' = DOMAIN groups
      /\ \A h \in DOMAIN groups : groups'[h] = IF h = g THEN [groups[h] EXCEPT !.collapsed = ~@] ELSE groups[h]
  BY DEF ToggleGroupCollapsed
<1>3. \A h \in DOMAIN groups : groups[h] \in Group /\ Once(groups[h].members) /\ Len(groups[h].members) >= 2
  BY <1>1, GroupIs DEF LayoutOK
<1>4. \A h \in DOMAIN groups : groups'[h] \in Group /\ groups'[h].members = groups[h].members
  BY <1>2, <1>3 DEF Group
<1>5. \A h \in DOMAIN groups : Members(Layout', h) = Members(Layout, h)
  BY <1>1, <1>4 DEF Members
<1>6. OrderOK(Layout')
  BY <1>1, <1>2 DEF LayoutOK, OrderOK
<1>7. GroupsOK(Layout')
  BY <1>1, <1>2, <1>3, <1>4 DEF GroupsOK
<1>8. NothingTwice(Layout')
  BY <1>1, <1>2, <1>5 DEF LayoutOK, NothingTwice
<1>. QED
  BY <1>1, <1>2, <1>5, <1>6, <1>7, <1>8 DEF LayoutOK, PlacedIn

LEMMA PickedOK ==
  ASSUME LayoutOK(Layout), NEW item, item \in Range(BuildFlatIds(Expanded))
  PROVE  HeldOK(item) /\ item \in DrawnItems(Expanded, Layout)
<1>1. Expanded \in SUBSET (DOMAIN groups)
  BY DEF Expanded
<1>2. item \in DrawnItems(Expanded, Layout)
  BY <1>1, FlatIsDrawn
<1>3. Layout.order = order /\ Layout.groups = groups
  BY DEF Layout
<1>4. ASSUME NEW s \in Range(order) \cap Spaces, item = TopItem(s) PROVE HeldOK(item)
  <2>1. \A h \in DOMAIN groups : s \notin Members(Layout, h)
    BY <1>3, <1>4 DEF LayoutOK, NothingTwice, Apart
  <2>. QED
    BY <1>4, <2>1 DEF HeldOK, TopItem
<1>5. ASSUME NEW g \in DOMAIN groups, item = HeaderItem(g) PROVE HeldOK(item)
  BY <1>5 DEF HeldOK, HeaderItem
<1>6. ASSUME NEW g \in Expanded, NEW s \in Members(Layout, g), item = GroupedItem(g, s) PROVE HeldOK(item)
  <2>1. s \in Spaces /\ g \in DOMAIN groups
    BY <1>1, <1>3, <1>6, GroupIs DEF LayoutOK
  <2>2. \A h \in DOMAIN groups : h = g \/ s \notin Members(Layout, h)
    BY <1>3, <1>6, <2>1 DEF LayoutOK, NothingTwice, Apart
  <2>. QED
    BY <1>6, <2>1, <2>2 DEF HeldOK, GroupedItem
<1>7. \/ \E s \in Range(order) \cap Spaces : item = TopItem(s)
      \/ \E g \in DOMAIN groups : item = HeaderItem(g)
      \/ \E g \in Expanded : \E s \in Members(Layout, g) : item = GroupedItem(g, s)
  BY <1>2, <1>3 DEF DrawnItems, OneOf
<1>. QED
  BY <1>2, <1>4, <1>5, <1>6, <1>7

LEMMA DropOK ==
  ASSUME LayoutOK(Layout), \A item \in drag : HeldOK(item), NEW over, NEW intent, Drop(over, intent), ~twinned'
  PROVE  LayoutOK(Layout') /\ PlacedIn(Layout) \subseteq PlacedIn(Layout')
<1>1. PICK active \in drag :
        /\ intent = "onto" => CanGroup(active, over)
        /\ LET next == IF intent = "onto" THEN DropOnto(active, over)
                       ELSE DropBeside(active, over, intent = "before")
           IN order' = next.order /\ groups' = next.groups
        /\ twinned' = (twinned \/ (intent = "onto" /\ active.space = over.space))
  BY DEF Drop
<1> DEFINE next == IF intent = "onto" THEN DropOnto(active, over)
                   ELSE DropBeside(active, over, intent = "before")
<1>2. over \in DrawnItems(Expanded, Layout)
  BY PickedOK DEF Drop
<1>3. intent = "onto" /\ over.kind = "space" => GroupIds \ DOMAIN groups # {}
  BY DEF Drop
<1>4. intent = "onto" => active.space # over.space
  BY <1>1
<1>5. TakenIn(next, Layout, active)
  <2>1. CASE intent = "onto"
    BY <1>1, <1>2, <1>3, <1>4, <2>1, OntoOK
  <2>2. CASE intent # "onto"
    BY <2>2, BesideOK
  <2>. QED
    BY <2>1, <2>2
<1>6. Layout'.order = next.order /\ Layout'.groups = next.groups
  BY <1>1 DEF Layout
<1> HIDE DEF next
<1>7. LayoutOK(Layout') /\ PlacedIn(Layout') = PlacedIn(next)
  <2>1. LayoutOK(next)
    BY <1>5 DEF TakenIn
  <2> DEFINE M == Layout'
  <2>2. M.order = next.order /\ M.groups = next.groups
    BY <1>6
  <2> HIDE DEF M
  <2>3. LayoutOK(M) /\ PlacedIn(M) = PlacedIn(next)
    BY <2>1, <2>2, SameLayout
  <2>. QED
    BY <2>3 DEF M
<1>. QED
  BY <1>5, <1>7 DEF TakenIn

LEMMA RailInvHolds == RailSpec => []RailInv
<1>1. RailInit => RailInv
  <2> SUFFICES ASSUME RailInit PROVE RailInv
    OBVIOUS
  <2>1. order = <<>> /\ groups = <<>> /\ joined = {} /\ drag = {} /\ twinned = FALSE
    BY DEF RailInit
  <2>2. Layout.order = <<>> /\ DOMAIN Layout.groups = {}
    BY <2>1 DEF Layout
  <2>3. Range(<<>>) = {} /\ Once(<<>>) /\ <<>> \in Seq(Spaces \cup GroupIds)
    BY DEF Range, Once
  <2>4. LayoutOK(Layout)
    BY <2>2, <2>3 DEF LayoutOK, OrderOK, GroupsOK, NothingTwice
  <2>. QED
    BY <2>1, <2>4, FS_EmptySet DEF RailInv
<1>2. RailInv /\ [RailNext]_railVars => RailInv'
  <2> SUFFICES ASSUME RailInv, [RailNext]_railVars PROVE RailInv'
    OBVIOUS
  <2> USE DEF RailInv
  <2>1. ASSUME NEW s \in Spaces, Joins(s) \/ Leaves(s) PROVE RailInv'
    <3>1. /\ joined' \subseteq Spaces /\ followed' = FALSE /\ order' = order /\ groups' = groups
          /\ drag' = drag /\ twinned' = twinned
      BY <2>1 DEF Joins, Leaves
    <3>2. IsFiniteSet(joined')
      <4>1. CASE Joins(s)
        BY <4>1, FS_AddElement DEF Joins
      <4>2. CASE Leaves(s)
        BY <4>2, FS_Subset DEF Leaves
      <4>. QED
        BY <2>1, <4>1, <4>2
    <3>3. Layout' = Layout /\ \A item : HeldOK(item) => HeldOK(item)'
      BY <3>1 DEF Layout, HeldOK
    <3>. QED
      BY <3>1, <3>2, <3>3
  <2>2. CASE SyncServers
    <3>1. joined' = joined /\ drag' = drag /\ twinned' = twinned
      BY <2>2 DEF SyncServers
    <3>2. CASE ~twinned
      <4>1. /\ LayoutOK(Layout') /\ joined \subseteq PlacedIn(Layout')
            /\ \A g \in DOMAIN groups' : g \in DOMAIN groups /\ Members(Layout', g) \subseteq Members(Layout, g)
        BY <2>2, <3>2, SyncOK
      <4>2. \A item \in drag' : HeldOK(item)'
        BY <3>1, <3>2, <4>1 DEF HeldOK
      <4>. QED
        BY <3>1, <4>1, <4>2
    <3>. QED
      BY <3>1, <3>2
  <2>3. ASSUME NEW g \in GroupIds, ToggleGroupCollapsed(g) PROVE RailInv'
    <3>1. joined' = joined /\ drag' = {} /\ followed' = followed /\ twinned' = twinned
      BY <2>3 DEF ToggleGroupCollapsed
    <3>2. CASE ~twinned
      <4>1. LayoutOK(Layout') /\ PlacedIn(Layout') = PlacedIn(Layout)
        BY <2>3, <3>2, ToggleOK
      <4>. QED
        BY <3>1, <3>2, <4>1
    <3>. QED
      BY <3>1, <3>2
  <2>4. ASSUME NEW item \in Item, DragStart(item) PROVE RailInv'
    <3>1. /\ joined' = joined /\ drag' = {item} /\ followed' = followed /\ twinned' = twinned
          /\ order' = order /\ groups' = groups /\ item \in Range(BuildFlatIds(Expanded))
      BY <2>4 DEF DragStart
    <3>2. Layout' = Layout
      BY <3>1 DEF Layout
    <3>3. CASE ~twinned
      <4>1. HeldOK(item)
        BY <3>1, <3>3, PickedOK
      <4>2. HeldOK(item)'
        BY <3>1, <3>2, <4>1 DEF HeldOK
      <4>. QED
        BY <3>1, <3>2, <3>3, <4>2
    <3>. QED
      BY <3>1, <3>3
  <2>5. CASE DragCancel \/ UNCHANGED railVars
    <3>1. /\ joined' = joined /\ followed' = followed /\ twinned' = twinned
          /\ order' = order /\ groups' = groups /\ (drag' = {} \/ drag' = drag)
      BY <2>5 DEF DragCancel, railVars
    <3>2. Layout' = Layout /\ \A item : HeldOK(item) => HeldOK(item)'
      BY <3>1 DEF Layout, HeldOK
    <3>. QED
      BY <3>1, <3>2
  <2>6. ASSUME NEW over \in Item, NEW intent \in {"onto", "before", "after"}, Drop(over, intent) PROVE RailInv'
    <3>1. joined' = joined /\ followed' = followed /\ drag' = {}
      BY <2>6 DEF Drop
    <3>2. twinned' \in BOOLEAN /\ (twinned => twinned')
      BY <2>6 DEF Drop
    <3>3. CASE ~twinned'
      <4>1. LayoutOK(Layout') /\ PlacedIn(Layout) \subseteq PlacedIn(Layout')
        BY <2>6, <3>2, <3>3, DropOK
      <4>. QED
        BY <3>1, <3>2, <3>3, <4>1
    <3>. QED
      BY <3>1, <3>2, <3>3
  <2>. QED
    BY <2>1, <2>2, <2>3, <2>4, <2>5, <2>6 DEF RailNext
<1>. QED
  BY <1>1, <1>2, PTL DEF RailSpec

-----------------------------------------------------------------------------
(* From the invariant to the property *)

LEMMA OncePlaced ==
  ASSUME NEW S, NEW q \in Seq(S), Once(q), NEW x \in Range(q)
  PROVE  \E i \in 1..Len(q) : {j \in 1..Len(q) : q[j] = x} = {i}
<1>1. PICK i \in 1..Len(q) : q[i] = x
  BY RangeIs
<1>. QED
  BY <1>1 DEF Once

LEMMA PlacesOf ==
  ASSUME LayoutOK(Layout), NEW s \in Spaces
  PROVE  /\ Places(s) = {} \/ \E p : Places(s) = {p}
         /\ s \in PlacedIn(Layout) => Places(s) # {}
<1> DEFINE top == {<<"rail", i>> : i \in {j \in 1..Len(order) : order[j] = s}}
           At(g) == {i \in 1..Len(groups[g].members) : groups[g].members[i] = s}
           within(g) == {<<g, i>> : i \in At(g)}
<1>1. Layout.order = order /\ Layout.groups = groups
  BY DEF Layout
<1>2. Places(s) = top \cup UNION {within(g) : g \in DOMAIN groups}
  BY DEF Places
<1>3. order \in Seq(Spaces \cup GroupIds) /\ Once(order)
  BY <1>1 DEF LayoutOK, OrderOK
<1>4. \A g \in DOMAIN groups :
        /\ groups[g].members \in Seq(Spaces) /\ Once(groups[g].members)
        /\ Members(Layout, g) = Range(groups[g].members)
  BY <1>1, GroupIs DEF LayoutOK, Members
<1>5. s \notin Range(order) => top = {}
  BY <1>3, RangeIs
<1>6. \A g \in DOMAIN groups : s \notin Members(Layout, g) => within(g) = {}
  BY <1>4, RangeIs
<1>7. CASE s \in Range(order)
  <2>1. PICK i \in 1..Len(order) : {j \in 1..Len(order) : order[j] = s} = {i}
    BY <1>3, <1>7, OncePlaced
  <2>2. \A g \in DOMAIN groups : within(g) = {}
    <3>1. \A g \in DOMAIN groups : s \notin Members(Layout, g)
      BY <1>1, <1>7 DEF LayoutOK, NothingTwice, Apart
    <3> HIDE DEF within
    <3>. QED
      BY <1>6, <3>1
  <2>3. top = {<<"rail", i>>}
    BY <2>1
  <2> DEFINE p == <<"rail", i>>
  <2> HIDE DEF top, within, p
  <2>4. Places(s) = {p}
    <3>1. top = {p}
      BY <2>3 DEF p
    <3>. QED
      BY <1>2, <2>2, <3>1
  <2>. QED
    BY <2>4
<1>8. ASSUME NEW g \in DOMAIN groups, s \in Members(Layout, g)
      PROVE  \E p : Places(s) = {p}
  <2>1. PICK i \in 1..Len(groups[g].members) : At(g) = {i}
    BY <1>4, <1>8, OncePlaced
  <2>2. within(g) = {<<g, i>>}
    <3> HIDE DEF At
    <3>. QED
      BY <2>1
  <2>3. \A h \in DOMAIN groups : h # g => within(h) = {}
    <3>1. \A h \in DOMAIN groups : h # g => s \notin Members(Layout, h)
      BY <1>1, <1>8 DEF LayoutOK, NothingTwice, Apart
    <3> HIDE DEF within
    <3>. QED
      BY <1>6, <3>1
  <2>4. top = {}
    <3>1. s \notin Range(order)
      BY <1>1, <1>8 DEF LayoutOK, NothingTwice, Apart
    <3>. QED
      BY <1>5, <3>1
  <2> DEFINE p == <<g, i>>
  <2> HIDE DEF top, within, p
  <2>5. Places(s) = {p}
    <3>1. within(g) = {p}
      BY <2>2 DEF p
    <3>2. UNION {within(h) : h \in DOMAIN groups} = {p}
      BY <2>3, <3>1
    <3>. QED
      BY <1>2, <2>4, <3>2
  <2>. QED
    BY <2>5
<1>9. CASE s \notin Range(order) /\ \A g \in DOMAIN groups : s \notin Members(Layout, g)
  <2>1. top = {} /\ \A g \in DOMAIN groups : within(g) = {}
    <3> HIDE DEF within, top
    <3>. QED
      BY <1>5, <1>6, <1>9
  <2>2. Places(s) = {}
    <3> HIDE DEF within, top
    <3>. QED
      BY <1>2, <2>1
  <2>. QED
    BY <1>1, <1>9, <2>2 DEF PlacedIn
<1> HIDE DEF top, within
<1>. QED
  BY <1>7, <1>8, <1>9

\* Whatever is dragged and whatever joins or leaves meanwhile, no space is drawn
\* twice or lost and no group is empty, doubled or unreachable, as long as no space
\* is dropped onto itself (stores/serverRailStore.ts, AppRail.tsx).
THEOREM RailStaysWhole == RailSpec => []LayoutIsWhole
<1>1. RailInv => LayoutIsWhole
  <2> SUFFICES ASSUME RailInv, ~twinned PROVE LayoutIsWhole
    BY DEF LayoutIsWhole
  <2>1. LayoutOK(Layout) /\ (followed => joined \subseteq PlacedIn(Layout))
    BY DEF RailInv
  <2>2. Layout.order = order /\ Layout.groups = groups
    BY DEF Layout
  <2>3. ASSUME NEW s \in Spaces
        PROVE  Cardinality(Places(s)) <= 1 /\ (followed /\ s \in joined => Places(s) # {})
    <3>1. Places(s) = {} \/ \E p : Places(s) = {p}
      BY <2>1, PlacesOf
    <3>2. Cardinality(Places(s)) = 0 \/ Cardinality(Places(s)) = 1
      BY <3>1, FS_EmptySet, FS_Singleton
    <3>3. followed /\ s \in joined => Places(s) # {}
      BY <2>1, PlacesOf
    <3>. QED
      BY <3>2, <3>3
  <2>4. order \in Seq(Spaces \cup GroupIds) /\ Once(order) /\ DOMAIN groups = Range(order) \cap GroupIds
    BY <2>1, <2>2 DEF LayoutOK, OrderOK
  <2>5. ASSUME NEW g \in DOMAIN groups
        PROVE  Cardinality({i \in 1..Len(order) : order[i] = g}) = 1 /\ Len(groups[g].members) >= 2
    <3>1. PICK i \in 1..Len(order) : {j \in 1..Len(order) : order[j] = g} = {i}
      BY <2>4, OncePlaced
    <3>2. Cardinality({j \in 1..Len(order) : order[j] = g}) = 1
      BY <3>1, FS_Singleton
    <3>. QED
      BY <2>1, <2>2, <3>2, GroupIs DEF LayoutOK
  <2>6. Range(order) \subseteq Spaces \cup DOMAIN groups
    BY <2>4, RangeIs
  <2>. QED
    BY <2>3, <2>5, <2>6 DEF LayoutIsWhole
<1>. QED
  BY <1>1, RailInvHolds, PTL
=============================================================================
