------------------------ MODULE FilesProofs --------------------------------
(***************************************************************************)
(* What is proved of the files, for any keys, rows, videos, users, uploads *)
(* and transactions: the links they are shown with, the player of the      *)
(* client, the derivatives core-api makes of videos, the locks its upload  *)
(* transactions take and what they charge.                                 *)
(*                                                                         *)
(* ChargedOnce relates a counter to a sum over a set, which the library    *)
(* folds by a recursive function.  That such a function exists, and that   *)
(* the order in which it takes the elements does not matter, is shown by   *)
(* the smallest set for which it would fail.                               *)
(***************************************************************************)
EXTENDS AttachmentLinks, VideoPlayer, VideoDerivatives, UploadQuota, FiniteSetTheorems,
        WellFoundedInduction, TLAPS

-----------------------------------------------------------------------------
(* A promised link works for every choice of the timeouts that meets         *)
(* LinkAssumption: a cached link is dated at most RequestTimeout too late,   *)
(* so one that is used has more than ResolveTimeout left when the row asks.  *)

\* The date of a link is off by its way from core-api at most.
DatedSoundly(links) == \A l \in links : l.until <= l.truth + RequestTimeout

\* What a request holds works for as long as a row may wait for it, and its calls
\* are not older than their timeout.
Sound(q, t) ==
  /\ q.asked <= t
  /\ q.by # {} => t <= q.asked + ResolveTimeout
  /\ \A l \in q.have : l.truth > q.asked + ResolveTimeout
  /\ DatedSoundly(q.fetched)
  /\ \A c \in q.calls : c.step = "ask" => c.sent <= t /\ t <= c.sent + RequestTimeout

LinkInv ==
  /\ LinkTypeOK
  /\ DatedSoundly(cache)
  /\ \A i \in Ids : Sound(request[i], now)

\* A link that is just signed is dated soundly and outlives the wait.
LEMMA SignedLinks ==
  ASSUME NEW c \in HttpCall, NEW K \in SUBSET Keys, NEW signing \in c.sent .. now, now \in Nat,
         now <= c.sent + RequestTimeout, NEW asked \in Nat, asked <= now
  PROVE  /\ Signed(c, K, signing) \subseteq Link
         /\ DatedSoundly(Signed(c, K, signing))
         /\ \A l \in Signed(c, K, signing) : l.truth > asked + ResolveTimeout
<1>1. c.sent \in Nat /\ c.of \in Whose
  BY DEF HttpCall
<1>2. signing \in Nat /\ signing <= now /\ now <= signing + RequestTimeout
  BY <1>1, LinkAssumption
<1>3. ASSUME NEW k \in K
      PROVE  LET l == [key |-> k, until |-> now + Life, truth |-> signing + Life, of |-> c.of]
             IN /\ l \in Link
                /\ l.until <= l.truth + RequestTimeout
                /\ l.truth > asked + ResolveTimeout
  BY <1>1, <1>2, LinkAssumption DEF Link
<1>. QED
  BY <1>3 DEF Signed, DatedSoundly

\* A new call is sent now.
LEMMA NewCall ==
  ASSUME LinkTypeOK, NEW K \in SUBSET Keys
  PROVE  Call(K) \in HttpCall /\ Call(K).sent = now
<1>1. CASE \E s \in session : s.fresh
  <2>1. (CHOOSE s \in session : TRUE) \in session
    BY <1>1
  <2>. QED
    BY <1>1, <2>1 DEF Call, HttpCall, LinkTypeOK
<1>2. CASE ~ \E s \in session : s.fresh
  BY <1>2 DEF Call, HttpCall, LinkTypeOK
<1>. QED
  BY <1>1, <1>2

LEMMA NewSingles ==
  ASSUME LinkTypeOK, NEW K \in SUBSET Keys
  PROVE  /\ Singles(K) \subseteq HttpCall
         /\ \A c \in Singles(K) : c.sent = now
<1>1. \A k \in K : Call({k}) \in HttpCall /\ Call({k}).sent = now
  BY NewCall
<1>. QED
  BY <1>1 DEF Singles

\* A renewal starts or stays under way.
LEMMA RenewalType ==
  ASSUME LinkTypeOK, NEW calls
  PROVE  RenewalFor(calls) \subseteq Renewal
<1>1. [of |-> account, sent |-> now] \in Renewal
  BY DEF LinkTypeOK, Renewal
<1>. QED
  BY <1>1 DEF RenewalFor, LinkTypeOK

\* A new request holds only cached links with enough time left.
LEMMA NewRequest ==
  ASSUME LinkInv, NEW K \in SUBSET Keys, NEW by \in SUBSET Rows, NEW links \in SUBSET cache
  PROVE  Asked(K, by, links) \in Request /\ Sound(Asked(K, by, links), now)
<1> DEFINE missing == K \ KeysOf(Found(K, links))
           q(leg, calls) == [leg |-> leg, by |-> by, keys |-> K, asked |-> now, have |-> Found(K, links),
                             fetched |-> {}, calls |-> calls]
<1>1. now \in Nat /\ Found(K, links) \in SUBSET Link /\ missing \in SUBSET Keys
  BY DEF LinkInv, LinkTypeOK, Found
<1>2. \A l \in Found(K, links) : l.truth > now + ResolveTimeout
  <2>. SUFFICES ASSUME NEW l \in Found(K, links) PROVE l.truth > now + ResolveTimeout
    OBVIOUS
  <2>1. l \in cache /\ l \in Link /\ l.until > now + EarlyRefresh
    BY DEF Found, Usable, LinkInv, LinkTypeOK
  <2>2. l.until \in Nat /\ l.truth \in Nat /\ l.until <= l.truth + RequestTimeout
    BY <2>1 DEF Link, LinkInv, DatedSoundly
  <2>. QED
    BY <1>1, <2>1, <2>2, LinkAssumption
<1>3. ASSUME NEW leg \in {"batch", "singles"}, NEW calls \in SUBSET HttpCall, \A c \in calls : c.sent = now
      PROVE  q(leg, calls) \in Request /\ Sound(q(leg, calls), now)
  BY <1>1, <1>2, <1>3, LinkAssumption DEF Request, Sound, DatedSoundly
<1>4. CASE missing = {}
  <2>1. Asked(K, by, links) = q("singles", {})
    BY <1>4 DEF Asked
  <2>. QED
    BY <2>1, <1>3
<1>5. CASE missing # {} /\ CanProbeBatchEndpoint
  <2>1. {Call(missing)} \in SUBSET HttpCall /\ \A c \in {Call(missing)} : c.sent = now
    BY <1>1, NewCall DEF LinkInv
  <2>2. Asked(K, by, links) = q("batch", {Call(missing)})
    BY <1>5 DEF Asked
  <2>. QED
    BY <2>1, <2>2, <1>3
<1>6. CASE missing # {} /\ ~CanProbeBatchEndpoint
  <2>1. Singles(missing) \in SUBSET HttpCall /\ \A c \in Singles(missing) : c.sent = now
    BY <1>1, NewSingles DEF LinkInv
  <2>2. Asked(K, by, links) = q("singles", Singles(missing))
    BY <1>6 DEF Asked
  <2>. QED
    BY <2>1, <2>2, <1>3
<1>. QED
  BY <1>4, <1>5, <1>6

\* A request that goes on with what it got stays sound, in the step of any action
\* that takes no time.
LEMMA GoesOn ==
  ASSUME now \in Nat, NEW q \in Request, Sound(q, now), NEW leg \in {"none", "batch", "singles", "failed"},
         NEW got \in SUBSET Link, DatedSoundly(got), \A l \in got : l.truth > q.asked + ResolveTimeout,
         NEW calls \in SUBSET HttpCall, \A c \in calls : c \in q.calls \/ c.sent = now
  PROVE  Goes(q, leg, got, calls) \in Request /\ Sound(Goes(q, leg, got, calls), now)
<1>1. Goes(q, leg, got, calls) =
        [leg |-> leg, by |-> q.by, keys |-> q.keys, asked |-> q.asked, have |-> q.have \cup got,
         fetched |-> q.fetched \cup got, calls |-> calls]
  BY DEF Goes
<1>2. Goes(q, leg, got, calls) \in Request
  BY <1>1 DEF Request
<1> DEFINE g == Goes(q, leg, got, calls)
<1>3. g.asked = q.asked /\ g.by = q.by /\ g.have = q.have \cup got /\ g.fetched = q.fetched \cup got /\ g.calls = calls
  BY <1>1
<1>4. \A l \in g.have : l.truth > q.asked + ResolveTimeout
  BY <1>3 DEF Sound
<1>5. DatedSoundly(g.fetched)
  BY <1>3 DEF Sound, DatedSoundly
<1>6. \A c \in g.calls : c.step = "ask" => c.sent <= now /\ now <= c.sent + RequestTimeout
  <2>. SUFFICES ASSUME NEW c \in calls, c.step = "ask" PROVE c.sent <= now /\ now <= c.sent + RequestTimeout
    BY <1>3
  <2>1. CASE c \in q.calls
    BY <2>1 DEF Sound
  <2>2. CASE c.sent = now
    BY <2>2, LinkAssumption
  <2>. QED
    BY <2>1, <2>2
<1>7. Sound(g, now)
  BY <1>3, <1>4, <1>5, <1>6 DEF Sound
<1>. QED
  BY <1>2, <1>7

\* A failure leaves a request sound.
LEMMA FailedStaysSound ==
  ASSUME now \in Nat, NEW q \in Request, Sound(q, now), NEW calls \in SUBSET q.calls
  PROVE  Failed(q, calls) \in Request /\ Sound(Failed(q, calls), now)
<1>1. q.calls \in SUBSET HttpCall /\ q.leg \in {"none", "batch", "singles", "failed"}
  BY DEF Request
<1>2. Goes(q, "failed", {}, {}) \in Request /\ Sound(Goes(q, "failed", {}, {}), now)
  BY GoesOn DEF DatedSoundly
<1>3. Goes(q, q.leg, {}, q.calls \ calls) \in Request /\ Sound(Goes(q, q.leg, {}, q.calls \ calls), now)
  BY <1>1, GoesOn DEF DatedSoundly
<1>. QED
  BY <1>2, <1>3 DEF Failed

\* A row that stops waiting leaves its requests sound.
LEMMA UnawaitedStaysSound ==
  ASSUME NEW q \in Request, Sound(q, now), NEW r
  PROVE  Unawaited(q, r) \in Request /\ Sound(Unawaited(q, r), now)
<1>1. Unawaited(q, r) =
        [leg |-> q.leg, by |-> q.by \ {r}, keys |-> q.keys, asked |-> q.asked, have |-> q.have,
         fetched |-> q.fetched, calls |-> q.calls]
  BY DEF Unawaited, Request
<1>. QED
  BY <1>1 DEF Request, Sound

\* An empty place in the table of requests.
LEMMA EmptyPlace ==
  ASSUME now \in Nat
  PROVE  NoRequest \in Request /\ Sound(NoRequest, now)
BY DEF NoRequest, Request, Sound, DatedSoundly

\* A step that takes no time and puts sound requests in the table.
LEMMA SoundStep ==
  ASSUME LinkInv, UNCHANGED now, account' \in Whose, session' \subseteq [of : Whose, fresh : BOOLEAN],
         renewal' \subseteq Renewal, cache' \subseteq Link, DatedSoundly(cache'),
         DOMAIN request' = Ids, request' = [i \in Ids |-> request'[i]],
         \A i \in Ids : request'[i] \in Request /\ Sound(request'[i], now)
  PROVE  LinkInv'
BY DEF LinkInv, LinkTypeOK

\* A new request takes an empty place.
LEMMA AskStep ==
  ASSUME LinkInv, NEW K \in SUBSET Keys, NEW by \in SUBSET Rows, NEW links \in SUBSET cache, Ask(K, by, links),
         UNCHANGED <<now, account, session>>, cache' \subseteq cache
  PROVE  LinkInv'
<1>1. PICK i \in Ids : /\ request' = [request EXCEPT ![i] = Asked(K, by, links)]
                       /\ renewal' = RenewalFor(Asked(K, by, links).calls)
  BY DEF Ask
<1>2. Asked(K, by, links) \in Request /\ Sound(Asked(K, by, links), now)
  BY NewRequest
<1>3. renewal' \subseteq Renewal
  BY <1>1, RenewalType DEF LinkInv
<1>4. request \in [Ids -> Request] /\ \A j \in Ids : Sound(request[j], now)
  BY DEF LinkInv, LinkTypeOK
<1>5. /\ DOMAIN request' = Ids /\ request' = [j \in Ids |-> request'[j]]
      /\ \A j \in Ids : request'[j] \in Request /\ Sound(request'[j], now)
  BY <1>1, <1>2, <1>4
<1>6. /\ account' \in Whose /\ session' \subseteq [of : Whose, fresh : BOOLEAN]
      /\ cache' \subseteq Link /\ DatedSoundly(cache')
  BY DEF LinkInv, LinkTypeOK, DatedSoundly
<1>. QED
  BY <1>3, <1>5, <1>6, SoundStep

\* A request that changes its place to another sound one.
LEMMA OneStep ==
  ASSUME LinkInv, NEW i \in Ids, NEW q \in Request, Sound(q, now), request' = [request EXCEPT ![i] = q],
         renewal' \subseteq Renewal, UNCHANGED <<now, account, session>>, cache' \subseteq Link, DatedSoundly(cache')
  PROVE  LinkInv'
<1>1. request \in [Ids -> Request] /\ \A j \in Ids : Sound(request[j], now)
  BY DEF LinkInv, LinkTypeOK
<1>2. /\ DOMAIN request' = Ids /\ request' = [j \in Ids |-> request'[j]]
      /\ \A j \in Ids : request'[j] \in Request /\ Sound(request'[j], now)
  BY <1>1
<1>3. account' \in Whose /\ session' \subseteq [of : Whose, fresh : BOOLEAN]
  BY DEF LinkInv, LinkTypeOK
<1>. QED
  BY <1>2, <1>3, SoundStep

\* A row is drawn again, with a cache that lost links at most.
LEMMA RenderStep ==
  ASSUME LinkInv, NEW r \in Rows, NEW h, NEW links \in SUBSET cache, Rendered(r, h, links),
         UNCHANGED <<now, account, session>>, cache' = links
  PROVE  LinkInv'
<1>1. ToResolve(h) \in SUBSET Keys /\ {r} \in SUBSET Rows
  BY DEF ToResolve
<1>2. CASE ToResolve(h) = {}
  BY <1>2 DEF Rendered, LinkInv, LinkTypeOK, DatedSoundly
<1>3. CASE ToResolve(h) # {}
  <2>1. Ask(ToResolve(h), {r}, links)
    BY <1>3 DEF Rendered
  <2>. QED
    BY <1>1, <2>1, AskStep
<1>. QED
  BY <1>2, <1>3

LEMMA LinkInvInit == LinksInit => LinkInv
<1>. SUFFICES ASSUME LinksInit PROVE LinkInv
  OBVIOUS
<1>1. now \in Nat /\ account \in Whose
  BY LinkAssumption DEF LinksInit, Whose
<1>2. NoRequest \in Request /\ Sound(NoRequest, now)
  BY <1>1, EmptyPlace
<1>3. session \subseteq [of : Whose, fresh : BOOLEAN]
  BY <1>1 DEF LinksInit
<1>. QED
  BY <1>1, <1>2, <1>3 DEF LinksInit, LinkInv, LinkTypeOK, DatedSoundly

\* Every step of the cache, the session, the rows and the network keeps the invariant.
LEMMA LinkInvStep == LinkInv /\ [LinksNext]_linkVars => LinkInv'
<1>. SUFFICES ASSUME LinkInv, [LinksNext]_linkVars PROVE LinkInv'
  OBVIOUS
<1>0. /\ now \in Nat /\ account \in Whose /\ session \subseteq [of : Whose, fresh : BOOLEAN]
      /\ renewal \subseteq Renewal /\ cache \subseteq Link /\ DatedSoundly(cache)
      /\ request \in [Ids -> Request]
      /\ \A i \in Ids : request[i] \in Request /\ Sound(request[i], now)
  BY DEF LinkInv, LinkTypeOK
<1>1. CASE SessionAges
  <2>1. \A s \in session : [of |-> s.of, fresh |-> FALSE] \in [of : Whose, fresh : BOOLEAN]
    <3>. SUFFICES ASSUME NEW s \in session PROVE [of |-> s.of, fresh |-> FALSE] \in [of : Whose, fresh : BOOLEAN]
      OBVIOUS
    <3>1. s \in [of : Whose, fresh : BOOLEAN]
      BY <1>0
    <3>2. s.of \in Whose
      BY <3>1
    <3>. QED
      BY <3>2
  <2>2. {[of |-> s.of, fresh |-> FALSE] : s \in session} \subseteq [of : Whose, fresh : BOOLEAN]
    BY <2>1
  <2>3. session' \subseteq [of : Whose, fresh : BOOLEAN]
    BY <1>1, <2>2 DEF SessionAges
  <2>. QED
    BY <1>0, <1>1, <2>3 DEF SessionAges, LinkInv, LinkTypeOK
<1>2. CASE RenewalAnswers
  <2>1. PICK n \in renewal :
          /\ renewal' = {} /\ session' = {[of |-> n.of, fresh |-> TRUE]}
          /\ request' = [i \in Ids |-> Goes(request[i], request[i].leg, {},
               (request[i].calls \ Renewing(request[i])) \cup {AskedWith(c, n) : c \in Renewing(request[i])})]
          /\ UNCHANGED <<now, account, cache>>
    BY <1>2 DEF RenewalAnswers
  <2>2. n.of \in Whose
    BY <1>0, <2>1 DEF Renewal
  <2>3. ASSUME NEW i \in Ids PROVE request'[i] \in Request /\ Sound(request'[i], now)
    <3> DEFINE q == request[i]
               calls == (q.calls \ Renewing(q)) \cup {AskedWith(c, n) : c \in Renewing(q)}
    <3>1. q \in Request /\ Sound(q, now) /\ q.calls \in SUBSET HttpCall /\ q.leg \in {"none", "batch", "singles", "failed"}
      BY <1>0 DEF Request
    <3>2. \A c \in Renewing(q) : AskedWith(c, n) \in HttpCall /\ AskedWith(c, n).sent = now
      BY <1>0, <2>2, <3>1 DEF Renewing, AskedWith, HttpCall
    <3>3. calls \in SUBSET HttpCall /\ \A c \in calls : c \in q.calls \/ c.sent = now
      BY <3>1, <3>2
    <3>4. Goes(q, q.leg, {}, calls) \in Request /\ Sound(Goes(q, q.leg, {}, calls), now)
      <4>1. {} \in SUBSET Link /\ DatedSoundly({}) /\ \A l \in {} : l.truth > q.asked + ResolveTimeout
        BY DEF DatedSoundly
      <4>. HIDE DEF calls, q
      <4>. QED
        BY <1>0, <3>1, <3>3, <4>1, GoesOn
    <3>. QED
      BY <2>1, <3>4
  <2>4. session' \subseteq [of : Whose, fresh : BOOLEAN] /\ renewal' \subseteq Renewal
    BY <2>1, <2>2
  <2>. QED
    BY <1>0, <2>1, <2>3, <2>4, SoundStep
<1>3. CASE RenewalFails
  <2>1. ASSUME NEW i \in Ids PROVE request'[i] \in Request /\ Sound(request'[i], now)
    <3>1. Renewing(request[i]) \in SUBSET request[i].calls
      BY DEF Renewing
    <3>. QED
      BY <1>0, <1>3, <3>1, FailedStaysSound DEF RenewalFails
  <2>. QED
    BY <1>0, <1>3, <2>1, SoundStep DEF RenewalFails
<1>4. ASSUME NEW i \in Ids, BatchAnswers(i) PROVE LinkInv'
  <2>1. PICK c \in request[i].calls : \E granted \in SUBSET c.keys, signing \in c.sent .. now :
          /\ c.step = "ask"
          /\ request' = [request EXCEPT ![i] =
               Goes(request[i], "singles", Signed(c, granted, signing), Singles(c.keys \ granted))]
          /\ renewal' = RenewalFor(Singles(c.keys \ granted))
    BY <1>4 DEF BatchAnswers
  <2>2. PICK granted \in SUBSET c.keys, signing \in c.sent .. now :
          /\ c.step = "ask"
          /\ request' = [request EXCEPT ![i] =
               Goes(request[i], "singles", Signed(c, granted, signing), Singles(c.keys \ granted))]
          /\ renewal' = RenewalFor(Singles(c.keys \ granted))
    BY <2>1
  <2>3. c \in HttpCall /\ now <= c.sent + RequestTimeout /\ request[i].asked \in Nat /\ request[i].asked <= now
    BY <1>0, <2>1, <2>2 DEF Request, Sound
  <2>4. granted \in SUBSET Keys /\ c.keys \ granted \in SUBSET Keys
    BY <2>3 DEF HttpCall
  <2>5. /\ Signed(c, granted, signing) \in SUBSET Link /\ DatedSoundly(Signed(c, granted, signing))
        /\ \A l \in Signed(c, granted, signing) : l.truth > request[i].asked + ResolveTimeout
    BY <1>0, <2>3, <2>4, SignedLinks
  <2>6. Singles(c.keys \ granted) \in SUBSET HttpCall /\ \A d \in Singles(c.keys \ granted) : d.sent = now
    BY <2>4, NewSingles DEF LinkInv
  <2>7. LET q == Goes(request[i], "singles", Signed(c, granted, signing), Singles(c.keys \ granted))
        IN q \in Request /\ Sound(q, now)
    BY <1>0, <2>5, <2>6, GoesOn
  <2>8. renewal' \subseteq Renewal
    BY <2>2, RenewalType DEF LinkInv
  <2>9. UNCHANGED <<now, account, session, cache>>
    BY <1>4 DEF BatchAnswers
  <2>. QED
    BY <1>0, <2>2, <2>7, <2>8, <2>9, OneStep
<1>5. ASSUME NEW i \in Ids, BatchIsMissing(i) PROVE LinkInv'
  <2>1. PICK c \in request[i].calls :
          /\ request' = [request EXCEPT ![i] = Goes(request[i], "singles", {}, Singles(c.keys))]
          /\ renewal' = RenewalFor(Singles(c.keys))
    BY <1>5 DEF BatchIsMissing
  <2>2. c.keys \in SUBSET Keys
    BY <1>0 DEF Request, HttpCall
  <2>3. Singles(c.keys) \in SUBSET HttpCall /\ \A d \in Singles(c.keys) : d.sent = now
    BY <2>2, NewSingles DEF LinkInv
  <2>4. LET q == Goes(request[i], "singles", {}, Singles(c.keys)) IN q \in Request /\ Sound(q, now)
    BY <1>0, <2>3, GoesOn DEF DatedSoundly
  <2>5. renewal' \subseteq Renewal
    BY <2>1, RenewalType DEF LinkInv
  <2>6. UNCHANGED <<now, account, session, cache>>
    BY <1>5 DEF BatchIsMissing
  <2>. QED
    BY <1>0, <2>1, <2>4, <2>5, <2>6, OneStep
<1>6. ASSUME NEW i \in Ids, SingleAnswers(i) PROVE LinkInv'
  <2>1. PICK c \in request[i].calls : \E signing \in c.sent .. now :
          /\ c.step = "ask"
          /\ request' = [request EXCEPT ![i] =
               Goes(request[i], "singles", Signed(c, c.keys, signing), request[i].calls \ {c})]
    BY <1>6 DEF SingleAnswers
  <2>2. PICK signing \in c.sent .. now :
          /\ c.step = "ask"
          /\ request' = [request EXCEPT ![i] =
               Goes(request[i], "singles", Signed(c, c.keys, signing), request[i].calls \ {c})]
    BY <2>1
  <2>3. c \in HttpCall /\ now <= c.sent + RequestTimeout /\ request[i].asked \in Nat /\ request[i].asked <= now
    BY <1>0, <2>1, <2>2 DEF Request, Sound
  <2>4. c.keys \in SUBSET Keys /\ request[i].calls \ {c} \in SUBSET HttpCall
    BY <1>0, <2>3 DEF HttpCall, Request
  <2>5. /\ Signed(c, c.keys, signing) \in SUBSET Link /\ DatedSoundly(Signed(c, c.keys, signing))
        /\ \A l \in Signed(c, c.keys, signing) : l.truth > request[i].asked + ResolveTimeout
    BY <1>0, <2>3, <2>4, SignedLinks
  <2>6. LET q == Goes(request[i], "singles", Signed(c, c.keys, signing), request[i].calls \ {c})
        IN q \in Request /\ Sound(q, now)
    BY <1>0, <2>4, <2>5, GoesOn
  <2>7. UNCHANGED <<now, account, session, renewal, cache>>
    BY <1>6 DEF SingleAnswers
  <2>. QED
    BY <1>0, <2>2, <2>6, <2>7, OneStep
<1>7. ASSUME NEW i \in Ids, CallFails(i) PROVE LinkInv'
  <2>1. PICK c \in request[i].calls : request' = [request EXCEPT ![i] = Failed(request[i], {c})]
    BY <1>7 DEF CallFails
  <2>2. Failed(request[i], {c}) \in Request /\ Sound(Failed(request[i], {c}), now)
    BY <1>0, FailedStaysSound
  <2>3. UNCHANGED <<now, account, session, renewal, cache>>
    BY <1>7 DEF CallFails
  <2>. QED
    BY <1>0, <2>1, <2>2, <2>3, OneStep
<1>8. ASSUME NEW i \in Ids, SessionRefused(i) PROVE LinkInv'
  <2> DEFINE again(c) == [keys |-> c.keys, step |-> "renew", sent |-> now, of |-> c.of, again |-> TRUE]
             next(c) == Goes(request[i], request[i].leg, {}, (request[i].calls \ {c}) \cup {again(c)})
  <2>1. PICK c \in request[i].calls : /\ request' = [request EXCEPT ![i] = next(c)]
                                      /\ renewal' = RenewalFor({again(c)})
    BY <1>8 DEF SessionRefused
  <2>2. request[i].calls \in SUBSET HttpCall /\ request[i].leg \in {"none", "batch", "singles", "failed"}
    BY <1>0 DEF Request
  <2>3. again(c) \in HttpCall /\ again(c).sent = now
    BY <1>0, <2>2 DEF HttpCall
  <2>4. (request[i].calls \ {c}) \cup {again(c)} \in SUBSET HttpCall
    BY <2>2, <2>3
  <2>5. \A d \in (request[i].calls \ {c}) \cup {again(c)} : d \in request[i].calls \/ d.sent = now
    BY <2>3
  <2>6. next(c) \in Request /\ Sound(next(c), now)
    <3>. HIDE DEF again
    <3>1. {} \in SUBSET Link /\ DatedSoundly({}) /\ \A l \in {} : l.truth > request[i].asked + ResolveTimeout
      BY DEF DatedSoundly
    <3>. QED
      BY <1>0, <2>2, <2>4, <2>5, <3>1, GoesOn
  <2>7. renewal' \subseteq Renewal
    BY <2>1, RenewalType DEF LinkInv
  <2>8. UNCHANGED <<now, account, session, cache>>
    BY <1>8 DEF SessionRefused
  <2>. QED
    BY <1>0, <2>1, <2>6, <2>7, <2>8, OneStep
<1>9. ASSUME NEW i \in Ids, Finish(i) PROVE LinkInv'
  <2>1. request[i].fetched \in SUBSET Link /\ DatedSoundly(request[i].fetched)
    BY <1>0 DEF Request, Sound
  <2>2. CacheWith(request[i]) \subseteq Link /\ DatedSoundly(CacheWith(request[i]))
    BY <1>0, <2>1 DEF CacheWith, DatedSoundly
  <2>3. /\ request' = [request EXCEPT ![i] = NoRequest] /\ cache' = CacheWith(request[i])
        /\ UNCHANGED <<now, account, session, renewal>>
    BY <1>9 DEF Finish
  <2>4. DatedSoundly(cache')
    BY <2>2, <2>3 DEF DatedSoundly
  <2>. QED
    BY <1>0, <2>2, <2>3, <2>4, EmptyPlace, OneStep
<1>10. ASSUME NEW i \in Ids, ResolveTimesOut(i) PROVE LinkInv'
  <2>1. PICK r \in request[i].by \cap Rows : request' = [request EXCEPT ![i] = Unawaited(request[i], r)]
    BY <1>10 DEF ResolveTimesOut
  <2>2. Unawaited(request[i], r) \in Request /\ Sound(Unawaited(request[i], r), now)
    BY <1>0, UnawaitedStaysSound
  <2>3. UNCHANGED <<now, account, session, renewal, cache>>
    BY <1>10 DEF ResolveTimesOut
  <2>. QED
    BY <1>0, <2>1, <2>2, <2>3, OneStep
<1>11. ASSUME NEW r \in Rows, Mount(r) PROVE LinkInv'
  <2>1. PICK K \in (SUBSET Keys) \ {{}} : Rendered(r, HookOf(K), cache)
    BY <1>11 DEF Mount
  <2>2. UNCHANGED <<now, account, session>> /\ cache' = cache
    BY <1>11 DEF Mount
  <2>. QED
    BY <2>1, <2>2, RenderStep
<1>12. ASSUME NEW r \in Rows, Unmount(r) PROVE LinkInv'
  <2>1. \A i \in Ids : request'[i] \in Request /\ Sound(request'[i], now)
    BY <1>0, <1>12, UnawaitedStaysSound DEF Unmount
  <2>. QED
    BY <1>0, <1>12, <2>1, SoundStep DEF Unmount
<1>13. ASSUME NEW r \in Rows, Retry(r) PROVE LinkInv'
  <2>1. PICK k \in resolver[r].keys :
          /\ cache' = WithoutKey(k)
          /\ Rendered(r, [resolver[r] EXCEPT !.res[k] = "loading"], WithoutKey(k))
    BY <1>13 DEF Retry
  <2>2. WithoutKey(k) \in SUBSET cache
    BY DEF WithoutKey
  <2>3. UNCHANGED <<now, account, session>>
    BY <1>13 DEF Retry
  <2>. QED
    BY <2>1, <2>2, <2>3, RenderStep
<1>14. ASSUME NEW k \in Keys, AskForOne(k) PROVE LinkInv'
  <2>1. Ask({k}, {}, cache) /\ UNCHANGED <<now, account, session, cache>>
    BY <1>14 DEF AskForOne
  <2>2. {k} \in SUBSET Keys /\ {} \in SUBSET Rows /\ cache' \subseteq cache
    BY <2>1
  <2>. QED
    BY <2>1, <2>2, AskStep
<1>15. CASE SignOut
  <2>1. \A i \in Ids : request'[i] \in Request /\ Sound(request'[i], now)
    <3>1. \A q \in Request : Sound(q, now) => Orphan(q) \in Request /\ Sound(Orphan(q), now)
      BY DEF Orphan, Request, Sound
    <3>. QED
      BY <1>0, <1>15, <3>1, EmptyPlace DEF SignOut
  <2>2. /\ account' \in Whose /\ session' = {} /\ cache' = {} /\ UNCHANGED now
        /\ renewal' \subseteq Renewal /\ DOMAIN request' = Ids /\ request' = [i \in Ids |-> request'[i]]
    BY <1>0, <1>15 DEF SignOut, ClearedCache, Whose
  <2>. QED
    BY <2>1, <2>2, SoundStep DEF DatedSoundly
<1>16. ASSUME NEW a \in Accounts, SignInAs(a) PROVE LinkInv'
  <2>1. account' \in Whose /\ session' \subseteq [of : Whose, fresh : BOOLEAN]
    BY <1>16 DEF SignInAs, Whose
  <2>. QED
    BY <1>16, <2>1 DEF SignInAs, LinkInv, LinkTypeOK, DatedSoundly
<1>17. CASE TimePasses
  <2>1. ASSUME NEW i \in Ids PROVE Sound(request[i], now + 1)
    <3>1. request[i].asked \in Nat /\ \A c \in request[i].calls : c.sent \in Nat
      BY <1>0 DEF Request, HttpCall
    <3>. QED
      BY <1>0, <1>17, <3>1, LinkAssumption DEF TimePasses, Sound
  <2>. QED
    BY <1>0, <1>17, <2>1 DEF TimePasses, LinkInv, LinkTypeOK, DatedSoundly
<1>18. CASE UNCHANGED linkVars
  BY <1>18 DEF linkVars, LinkInv, LinkTypeOK, DatedSoundly
<1>. QED
  BY <1>1, <1>2, <1>3, <1>4, <1>5, <1>6, <1>7, <1>8, <1>9, <1>10, <1>11, <1>12, <1>13, <1>14, <1>15, <1>16,
     <1>17, <1>18 DEF LinksNext

\* What a row was promised works as long as it waits for the rest, whatever the
\* timeouts are: downloadUrls.ts gives up a link EARLY_REFRESH before its date,
\* which covers the 12 s of the way and the 15 s of the wait.
THEOREM PromisedLinksAlwaysWork == LinksSpec => []PromisedLinksWork
<1>1. LinkInv => PromisedLinksWork
  <2>. SUFFICES ASSUME LinkInv, NEW i \in Ids, request[i].by # {}, NEW l \in request[i].have
                PROVE  l.truth > now
    BY DEF PromisedLinksWork
  <2>1. /\ request[i].asked \in Nat /\ l.truth \in Nat /\ now \in Nat
        /\ now <= request[i].asked + ResolveTimeout /\ l.truth > request[i].asked + ResolveTimeout
    BY DEF LinkInv, LinkTypeOK, Request, Link, Sound
  <2>. QED
    BY <2>1, LinkAssumption
<1>. QED
  BY LinkInvInit, LinkInvStep, <1>1, PTL DEF LinksSpec
-----------------------------------------------------------------------------
(* A spinner has a request *)

Busy(s) == s \in {"none", "loading"}

Hooks == [keys : SUBSET Keys, res : [Keys -> {"none", "loading", "url", "error"}], busy : SUBSET Keys]

Asks(q, r, k) == r \in q.by /\ k \in q.keys

\* The keys a row marks as under way are those it shows a spinner for, and each has
\* a request; a free place of the table answers to nobody.
WaitInv ==
  /\ resolver \in [Rows -> Hooks]
  /\ \A r \in Rows : \A k \in resolver[r].keys : k \in resolver[r].busy <=> Busy(resolver[r].res[k])
  /\ \A r \in Rows : \A k \in resolver[r].keys \cap resolver[r].busy : \E i \in Ids : Asks(request[i], r, k)
  /\ \A i \in Ids : request[i].leg = "none" => request[i].by = {}

\* A step that asks no less than before and leaves the rows as they are.
LEMMA StillAsked ==
  ASSUME WaitInv, resolver' = resolver,
         \A i \in Ids : /\ request'[i].by = request[i].by /\ request'[i].keys = request[i].keys
                        /\ request'[i].leg = "none" => request[i].leg = "none"
  PROVE  WaitInv'
BY DEF WaitInv, Asks

\* A step that writes one request and goes on asking.
LEMMA StillAskedByOne ==
  ASSUME WaitInv, LinkInv, resolver' = resolver, NEW i \in Ids, NEW leg \in {"batch", "singles", "failed"}, NEW got, NEW calls,
         request' = [request EXCEPT ![i] = Goes(request[i], leg, got, calls)]
  PROVE  WaitInv'
<1>1. request \in [Ids -> Request]
  BY DEF LinkInv, LinkTypeOK
<1>2. \A j \in Ids : request'[j] = IF j = i THEN Goes(request[i], leg, got, calls) ELSE request[j]
  BY <1>1
<1>3. /\ Goes(request[i], leg, got, calls).by = request[i].by
      /\ Goes(request[i], leg, got, calls).keys = request[i].keys
      /\ Goes(request[i], leg, got, calls).leg = leg
  BY DEF Goes
<1>4. leg # "none"
  OBVIOUS
<1>. HIDE DEF Goes
<1>. QED
  BY <1>2, <1>3, <1>4, StillAsked

LEMMA FailedStillAsks ==
  ASSUME NEW q \in Request, NEW calls
  PROVE  /\ Failed(q, calls).by = q.by /\ Failed(q, calls).keys = q.keys
         /\ Failed(q, calls).leg = "none" => q.leg = "none"
BY DEF Failed, Goes

\* The effect of a row that was drawn: every key it shows a spinner for and has no
\* request for is asked for.
LEMMA RenderAsks ==
  ASSUME WaitInv, LinkInv, NEW r \in Rows, NEW h \in Hooks, NEW links \in SUBSET cache, Rendered(r, h, links),
         \A k \in h.keys : k \in h.busy => Busy(h.res[k]) /\ \E i \in Ids : Asks(request[i], r, k)
  PROVE  WaitInv'
<1> DEFINE g == [keys |-> h.keys, res |-> h.res, busy |-> h.busy \cup ToResolve(h)]
<1>1. /\ resolver \in [Rows -> Hooks] /\ request \in [Ids -> Request]
      /\ \A i \in Ids : request[i].leg = "none" => request[i].by = {}
  BY DEF WaitInv, LinkInv, LinkTypeOK
<1>2. [h EXCEPT !.busy = h.busy \cup ToResolve(h)] = g
  BY DEF Hooks
<1>3. resolver' = [resolver EXCEPT ![r] = g]
  BY <1>2 DEF Rendered
<1>4. h.keys \in SUBSET Keys /\ h.busy \in SUBSET Keys /\ h.res \in [Keys -> {"none", "loading", "url", "error"}]
      /\ ToResolve(h) \in SUBSET Keys
  BY DEF Hooks, ToResolve
<1>5. g \in Hooks
  BY <1>4 DEF Hooks
<1>6. /\ resolver' \in [Rows -> Hooks]
      /\ \A s \in Rows : resolver'[s] = IF s = r THEN g ELSE resolver[s]
  BY <1>1, <1>3, <1>5
<1>7. \A k \in g.keys : k \in g.busy <=> Busy(g.res[k])
  BY <1>4 DEF ToResolve, Busy
<1>8. \A s \in Rows : \A k \in resolver'[s].keys : k \in resolver'[s].busy <=> Busy(resolver'[s].res[k])
  BY <1>6, <1>7 DEF WaitInv
<1>. HIDE DEF g
<1>9. /\ \A i \in Ids : request'[i].leg = "none" => request'[i].by = {}
      /\ \A s, k : \A i \in Ids : Asks(request[i], s, k) => Asks(request'[i], s, k)
      /\ \A k \in ToResolve(h) : \E i \in Ids : Asks(request'[i], r, k)
  <2>1. CASE ToResolve(h) = {}
    BY <1>1, <2>1 DEF Rendered
  <2>2. CASE ToResolve(h) # {}
    <3> DEFINE new == Asked(ToResolve(h), {r}, links)
    <3>1. PICK i \in Ids : request[i].leg = "none" /\ request' = [request EXCEPT ![i] = new]
      BY <2>2 DEF Rendered, Ask
    <3>2. new.by = {r} /\ new.keys = ToResolve(h) /\ new.leg # "none"
      BY DEF Asked
    <3>. HIDE DEF new
    <3>3. \A j \in Ids : request'[j] = IF j = i THEN new ELSE request[j]
      BY <1>1, <3>1
    <3>. QED
      BY <1>1, <3>1, <3>2, <3>3 DEF Asks
  <2>. QED
    BY <2>1, <2>2
<1>10. ASSUME NEW s \in Rows, NEW k \in resolver'[s].keys \cap resolver'[s].busy
       PROVE  \E i \in Ids : Asks(request'[i], s, k)
  <2>1. CASE s # r
    BY <1>6, <1>9, <2>1 DEF WaitInv
  <2>2. CASE s = r
    <3>1. k \in h.keys /\ (k \in h.busy \/ k \in ToResolve(h))
      BY <1>6, <2>2 DEF g
    <3>. QED
      BY <1>9, <2>2, <3>1
  <2>. QED
    BY <2>1, <2>2
<1>. QED
  BY <1>6, <1>8, <1>9, <1>10 DEF WaitInv

\* A row that is told something of a request waits for none of its keys.
LEMMA ResolvedHook ==
  ASSUME NEW h \in Hooks, NEW q \in Request, NEW links
  PROVE  /\ Resolved(h, q, links) \in Hooks
         /\ Resolved(h, q, links).keys = h.keys
         /\ Resolved(h, q, links).busy = h.busy \ q.keys
         /\ \A k \in Keys : Resolved(h, q, links).res[k] =
              IF k \notin q.keys THEN h.res[k] ELSE IF k \in KeysOf(links) THEN "url" ELSE "error"
<1> DEFINE res == [k \in Keys |-> IF k \notin q.keys THEN h.res[k]
                                  ELSE IF k \in KeysOf(links) THEN "url" ELSE "error"]
           g == [keys |-> h.keys, res |-> res, busy |-> h.busy \ q.keys]
<1>1. h.keys \in SUBSET Keys /\ h.busy \in SUBSET Keys /\ h.res \in [Keys -> {"none", "loading", "url", "error"}]
  BY DEF Hooks
<1>2. Resolved(h, q, links) = g
  BY DEF Resolved, Released
<1>3. res \in [Keys -> {"none", "loading", "url", "error"}]
  BY <1>1
<1>. QED
  BY <1>1, <1>2, <1>3 DEF Hooks

\* Who hears of request i stops waiting for its keys; who does not hear of it waits
\* for others.
LEMMA HeardOf ==
  ASSUME WaitInv, LinkInv, NEW i \in Ids, NEW who \in SUBSET request[i].by, NEW links,
         resolver' = [r \in Rows |-> IF r \in who THEN Resolved(resolver[r], request[i], links) ELSE resolver[r]],
         \A j \in Ids \ {i} : request'[j] = request[j],
         request'[i].keys = request[i].keys \/ request[i].by \cap Rows \subseteq who,
         request[i].by \ who \subseteq request'[i].by \/ request[i].by \cap Rows \subseteq who,
         request'[i].leg = "none" => request'[i].by = {}
  PROVE  WaitInv'
<1>1. resolver \in [Rows -> Hooks] /\ request[i] \in Request
  BY DEF WaitInv, LinkInv, LinkTypeOK
<1>2. \A r \in Rows : resolver'[r] \in Hooks
  BY <1>1, ResolvedHook
<1>3. ASSUME NEW r \in Rows, NEW k \in resolver'[r].keys
      PROVE  /\ k \in resolver'[r].busy <=> Busy(resolver'[r].res[k])
             /\ k \in resolver'[r].busy => \E j \in Ids : Asks(request'[j], r, k)
  <2>1. resolver[r] \in Hooks /\ k \in Keys
    BY <1>1, <1>2 DEF Hooks
  <2>2. CASE r \in who
    <3> DEFINE h == Resolved(resolver[r], request[i], links)
    <3>1. resolver'[r] = h
      BY <2>2
    <3>2. /\ h.keys = resolver[r].keys /\ h.busy = resolver[r].busy \ request[i].keys
          /\ h.res[k] = IF k \notin request[i].keys THEN resolver[r].res[k]
                        ELSE IF k \in KeysOf(links) THEN "url" ELSE "error"
      BY <1>1, <2>1, ResolvedHook
    <3>. HIDE DEF h
    <3>3. k \in resolver[r].keys /\ (k \in resolver[r].busy <=> Busy(resolver[r].res[k]))
      BY <3>1, <3>2 DEF WaitInv
    <3>4. k \in h.busy <=> Busy(h.res[k])
      BY <3>2, <3>3 DEF Busy
    <3>5. ASSUME k \in h.busy PROVE \E j \in Ids : Asks(request'[j], r, k)
      <4>1. k \in resolver[r].keys \cap resolver[r].busy /\ k \notin request[i].keys
        BY <3>2, <3>3, <3>5
      <4>2. PICK j \in Ids : Asks(request[j], r, k)
        BY <4>1 DEF WaitInv
      <4>. QED
        BY <4>1, <4>2 DEF Asks
    <3>. QED
      BY <3>1, <3>4, <3>5
  <2>3. CASE r \notin who
    <3>1. resolver'[r] = resolver[r]
      BY <2>3
    <3>2. ASSUME k \in resolver[r].busy PROVE \E j \in Ids : Asks(request'[j], r, k)
      <4>1. PICK j \in Ids : Asks(request[j], r, k)
        BY <3>1, <3>2 DEF WaitInv
      <4>. QED
        BY <2>3, <4>1 DEF Asks
    <3>. QED
      BY <3>1, <3>2 DEF WaitInv
  <2>. QED
    BY <2>2, <2>3
<1>4. \A j \in Ids : request'[j].leg = "none" => request'[j].by = {}
  BY DEF WaitInv
<1>5. resolver' \in [Rows -> Hooks]
  BY <1>2
<1>. QED
  BY <1>3, <1>4, <1>5 DEF WaitInv
LEMMA WaitInvInit == LinksInit => WaitInv
<1>. SUFFICES ASSUME LinksInit PROVE WaitInv
  OBVIOUS
<1>1. Unmounted \in Hooks /\ Unmounted.keys = {}
  BY DEF Unmounted, HookOf, Hooks
<1>2. resolver = [r \in Rows |-> Unmounted] /\ \A i \in Ids : request[i].by = {}
  BY DEF LinksInit, NoRequest
<1>. QED
  BY <1>1, <1>2 DEF WaitInv

\* Every step keeps the wait of each row answered for.
LEMMA WaitInvStep == LinkInv /\ WaitInv /\ [LinksNext]_linkVars => WaitInv'
<1>. SUFFICES ASSUME LinkInv, WaitInv, [LinksNext]_linkVars PROVE WaitInv'
  OBVIOUS
<1>0. /\ request \in [Ids -> Request] /\ resolver \in [Rows -> Hooks]
      /\ \A i \in Ids : request[i].leg = "none" => request[i].by = {}
      /\ \A r \in Rows : \A k \in resolver[r].keys : k \in resolver[r].busy <=> Busy(resolver[r].res[k])
      /\ \A i \in Ids : request[i].by \in SUBSET Rows
  BY DEF WaitInv, LinkInv, LinkTypeOK, Request
<1>1. CASE SessionAges
  BY <1>1, StillAsked DEF SessionAges
<1>2. CASE RenewalAnswers
  <2>1. PICK n \in renewal :
          request' = [i \in Ids |-> Goes(request[i], request[i].leg, {},
            (request[i].calls \ Renewing(request[i])) \cup {AskedWith(c, n) : c \in Renewing(request[i])})]
    BY <1>2 DEF RenewalAnswers
  <2>2. ASSUME NEW i \in Ids
        PROVE  /\ request'[i].by = request[i].by /\ request'[i].keys = request[i].keys
               /\ request'[i].leg = "none" => request[i].leg = "none"
    BY <2>1 DEF Goes
  <2>3. resolver' = resolver
    BY <1>2 DEF RenewalAnswers
  <2>. QED
    BY <2>2, <2>3, StillAsked
<1>3. CASE RenewalFails
  <2>1. resolver' = resolver /\ request' = [i \in Ids |-> Failed(request[i], Renewing(request[i]))]
    BY <1>3 DEF RenewalFails
  <2>2. ASSUME NEW i \in Ids
        PROVE  /\ request'[i].by = request[i].by /\ request'[i].keys = request[i].keys
               /\ request'[i].leg = "none" => request[i].leg = "none"
    BY <1>0, <2>1, FailedStillAsks
  <2>. QED
    BY <2>1, <2>2, StillAsked
<1>4. ASSUME NEW i \in Ids, BatchAnswers(i) PROVE WaitInv'
  <2>1. PICK c \in request[i].calls : \E granted \in SUBSET c.keys, signing \in c.sent .. now :
          request' = [request EXCEPT ![i] =
            Goes(request[i], "singles", Signed(c, granted, signing), Singles(c.keys \ granted))]
    BY <1>4 DEF BatchAnswers
  <2>2. PICK granted \in SUBSET c.keys, signing \in c.sent .. now :
          request' = [request EXCEPT ![i] =
            Goes(request[i], "singles", Signed(c, granted, signing), Singles(c.keys \ granted))]
    BY <2>1
  <2>3. resolver' = resolver
    BY <1>4 DEF BatchAnswers
  <2>. QED
    BY <2>2, <2>3, StillAskedByOne
<1>5. ASSUME NEW i \in Ids, BatchIsMissing(i) PROVE WaitInv'
  <2>1. PICK c \in request[i].calls : request' = [request EXCEPT ![i] = Goes(request[i], "singles", {}, Singles(c.keys))]
    BY <1>5 DEF BatchIsMissing
  <2>2. resolver' = resolver
    BY <1>5 DEF BatchIsMissing
  <2>. QED
    BY <2>1, <2>2, StillAskedByOne
<1>6. ASSUME NEW i \in Ids, SingleAnswers(i) PROVE WaitInv'
  <2>1. PICK c \in request[i].calls : \E signing \in c.sent .. now :
          request' = [request EXCEPT ![i] =
            Goes(request[i], "singles", Signed(c, c.keys, signing), request[i].calls \ {c})]
    BY <1>6 DEF SingleAnswers
  <2>2. resolver' = resolver
    BY <1>6 DEF SingleAnswers
  <2>. QED
    BY <2>1, <2>2, StillAskedByOne
<1>7. ASSUME NEW i \in Ids, CallFails(i) PROVE WaitInv'
  <2>1. PICK c \in request[i].calls : request' = [request EXCEPT ![i] = Failed(request[i], {c})]
    BY <1>7 DEF CallFails
  <2>2. resolver' = resolver
    BY <1>7 DEF CallFails
  <2>3. \A j \in Ids : request'[j] = IF j = i THEN Failed(request[i], {c}) ELSE request[j]
    BY <1>0, <2>1
  <2>. QED
    BY <1>0, <2>2, <2>3, FailedStillAsks, StillAsked
<1>8. ASSUME NEW i \in Ids, SessionRefused(i) PROVE WaitInv'
  <2> DEFINE next(c) == Goes(request[i], request[i].leg, {}, (request[i].calls \ {c}) \cup
                          {[keys |-> c.keys, step |-> "renew", sent |-> now, of |-> c.of, again |-> TRUE]})
  <2>1. PICK c \in request[i].calls : request' = [request EXCEPT ![i] = next(c)]
    BY <1>8 DEF SessionRefused
  <2>2. next(c).by = request[i].by /\ next(c).keys = request[i].keys /\ next(c).leg = request[i].leg
    BY DEF Goes
  <2>3. resolver' = resolver
    BY <1>8 DEF SessionRefused
  <2>. HIDE DEF next
  <2>4. \A j \in Ids : request'[j] = IF j = i THEN next(c) ELSE request[j]
    BY <1>0, <2>1
  <2>. QED
    BY <2>2, <2>3, <2>4, StillAsked
<1>9. ASSUME NEW i \in Ids, Finish(i) PROVE WaitInv'
  <2> DEFINE links == IF request[i].leg = "failed" THEN {} ELSE request[i].have
             who == request[i].by
  <2>1. /\ resolver' = [r \in Rows |-> IF r \in who THEN Resolved(resolver[r], request[i], links) ELSE resolver[r]]
        /\ request' = [request EXCEPT ![i] = NoRequest]
    BY <1>9 DEF Finish, Answered
  <2>2. request'[i].by = {} /\ \A j \in Ids \ {i} : request'[j] = request[j]
    BY <1>0, <2>1 DEF NoRequest
  <2>3. request[i].by \cap Rows \subseteq who
    OBVIOUS
  <2>. HIDE DEF links
  <2>. QED
    BY <2>1, <2>2, <2>3, HeardOf
<1>10. ASSUME NEW i \in Ids, ResolveTimesOut(i) PROVE WaitInv'
  <2>1. PICK r \in request[i].by \cap Rows :
          /\ resolver' = [resolver EXCEPT ![r] = Resolved(resolver[r], request[i], {})]
          /\ request' = [request EXCEPT ![i] = Unawaited(request[i], r)]
    BY <1>10 DEF ResolveTimesOut
  <2>2. resolver' = [s \in Rows |-> IF s \in {r} THEN Resolved(resolver[s], request[i], {}) ELSE resolver[s]]
    BY <1>0, <2>1
  <2>3. /\ Unawaited(request[i], r).by = request[i].by \ {r}
        /\ Unawaited(request[i], r).keys = request[i].keys
        /\ Unawaited(request[i], r).leg = request[i].leg
    BY <1>0 DEF Unawaited, Request
  <2>4. request'[i] = Unawaited(request[i], r) /\ \A j \in Ids \ {i} : request'[j] = request[j]
    BY <1>0, <2>1
  <2>5. {r} \in SUBSET request[i].by
    BY <2>1
  <2>6. /\ request'[i].keys = request[i].keys /\ request[i].by \ {r} \subseteq request'[i].by
        /\ request'[i].leg = "none" => request'[i].by = {}
    BY <1>0, <2>3, <2>4
  <2>. QED
    BY <2>2, <2>4, <2>5, <2>6, HeardOf
<1>11. ASSUME NEW r \in Rows, Mount(r) PROVE WaitInv'
  <2>1. PICK K \in (SUBSET Keys) \ {{}} : Rendered(r, HookOf(K), cache)
    BY <1>11 DEF Mount
  <2>2. HookOf(K) \in Hooks /\ HookOf(K).busy = {}
    <3>1. [k \in Keys |-> "none"] \in [Keys -> {"none", "loading", "url", "error"}]
      OBVIOUS
    <3>. QED
      BY <3>1 DEF Hooks, HookOf
  <2>. QED
    BY <2>1, <2>2, RenderAsks
<1>12. ASSUME NEW r \in Rows, Unmount(r) PROVE WaitInv'
  <2>1. Unmounted \in Hooks /\ Unmounted.keys = {}
    BY DEF Unmounted, HookOf, Hooks
  <2>2. \A s \in Rows : resolver'[s] = IF s = r THEN Unmounted ELSE resolver[s]
    BY <1>0, <1>12 DEF Unmount
  <2>3. ASSUME NEW i \in Ids
        PROVE  /\ request'[i].by = request[i].by \ {r} /\ request'[i].keys = request[i].keys
               /\ request'[i].leg = request[i].leg
    BY <1>0, <1>12 DEF Unmount, Unawaited, Request
  <2>4. resolver' \in [Rows -> Hooks]
    BY <1>0, <1>12, <2>1 DEF Unmount
  <2>5. ASSUME NEW s \in Rows, NEW k \in resolver'[s].keys \cap resolver'[s].busy
        PROVE  \E i \in Ids : Asks(request'[i], s, k)
    <3>1. s # r /\ k \in resolver[s].keys \cap resolver[s].busy
      BY <2>1, <2>2
    <3>2. PICK i \in Ids : Asks(request[i], s, k)
      BY <3>1 DEF WaitInv
    <3>. QED
      BY <2>3, <3>1, <3>2 DEF Asks
  <2>6. \A s \in Rows : \A k \in resolver'[s].keys : k \in resolver'[s].busy <=> Busy(resolver'[s].res[k])
    BY <1>0, <2>1, <2>2
  <2>7. \A i \in Ids : request'[i].leg = "none" => request'[i].by = {}
    BY <1>0, <2>3
  <2>. QED
    BY <2>4, <2>5, <2>6, <2>7 DEF WaitInv
<1>13. ASSUME NEW r \in Rows, Retry(r) PROVE WaitInv'
  <2>1. PICK key \in resolver[r].keys :
          /\ resolver[r].res[key] \in {"error", "url"}
          /\ Rendered(r, [resolver[r] EXCEPT !.res[key] = "loading"], WithoutKey(key))
    BY <1>13 DEF Retry
  <2>2. WithoutKey(key) \in SUBSET cache
    BY DEF WithoutKey
  <2>3. /\ resolver[r].keys \in SUBSET Keys /\ resolver[r].busy \in SUBSET Keys
        /\ resolver[r].res \in [Keys -> {"none", "loading", "url", "error"}]
        /\ resolver[r] = [keys |-> resolver[r].keys, res |-> resolver[r].res, busy |-> resolver[r].busy]
    BY <1>0 DEF Hooks
  <2> DEFINE res == [resolver[r].res EXCEPT ![key] = "loading"]
             h == [keys |-> resolver[r].keys, res |-> res, busy |-> resolver[r].busy]
  <2>4. [resolver[r] EXCEPT !.res[key] = "loading"] = h
    BY <2>3
  <2>5. key \notin resolver[r].busy
    BY <1>0, <2>1 DEF Busy
  <2>6. res \in [Keys -> {"none", "loading", "url", "error"}]
    BY <2>3
  <2>7. h \in Hooks
    BY <2>3, <2>6 DEF Hooks
  <2>8. ASSUME NEW k \in h.keys, k \in h.busy
        PROVE  Busy(h.res[k]) /\ \E i \in Ids : Asks(request[i], r, k)
    <3>1. k \in resolver[r].keys \cap resolver[r].busy /\ k # key /\ k \in Keys
      BY <2>3, <2>5, <2>8
    <3>2. h.res[k] = resolver[r].res[k]
      BY <2>3, <3>1
    <3>. QED
      BY <1>0, <3>1, <3>2 DEF WaitInv
  <2>. HIDE DEF h, res
  <2>. QED
    BY <2>1, <2>2, <2>4, <2>7, <2>8, RenderAsks
<1>14. ASSUME NEW key \in Keys, AskForOne(key) PROVE WaitInv'
  <2>1. PICK i \in Ids : request[i].leg = "none" /\ request' = [request EXCEPT ![i] = Asked({key}, {}, cache)]
    BY <1>14 DEF AskForOne, Ask
  <2>2. Asked({key}, {}, cache).by = {}
    BY DEF Asked
  <2>3. \A j \in Ids : request'[j] = IF j = i THEN Asked({key}, {}, cache) ELSE request[j]
    BY <1>0, <2>1
  <2>4. resolver' = resolver
    BY <1>14 DEF AskForOne
  <2>5. ASSUME NEW r \in Rows, NEW k \in resolver[r].keys \cap resolver[r].busy
        PROVE  \E j \in Ids : Asks(request'[j], r, k)
    <3>1. PICK j \in Ids : Asks(request[j], r, k)
      BY DEF WaitInv
    <3>. QED
      BY <1>0, <2>1, <2>3, <3>1 DEF Asks
  <2>. QED
    BY <1>0, <2>2, <2>3, <2>4, <2>5 DEF WaitInv
<1>15. CASE SignOut
  <2>1. Unmounted \in Hooks /\ Unmounted.keys = {}
    BY DEF Unmounted, HookOf, Hooks
  <2>2. resolver' = [r \in Rows |-> Unmounted]
    BY <1>15 DEF SignOut
  <2>3. ASSUME NEW i \in Ids PROVE request'[i].by = {}
    BY <1>15 DEF SignOut, NoRequest, Orphan
  <2>. QED
    BY <2>1, <2>2, <2>3 DEF WaitInv
<1>16. ASSUME NEW a \in Accounts, SignInAs(a) PROVE WaitInv'
  BY <1>16, StillAsked DEF SignInAs
<1>17. CASE TimePasses
  BY <1>17, StillAsked DEF TimePasses
<1>18. CASE UNCHANGED linkVars
  BY <1>18, StillAsked DEF linkVars
<1>. QED
  BY <1>1, <1>2, <1>3, <1>4, <1>5, <1>6, <1>7, <1>8, <1>9, <1>10, <1>11, <1>12, <1>13, <1>14, <1>15, <1>16,
     <1>17, <1>18 DEF LinksNext

\* An attachment never spins for a request that is over: the hook marks a key as
\* under way exactly while it shows the spinner, and whatever ends a request or the
\* wait for it (an answer, an error, the timeout, the row going away, the sign-out)
\* takes the marks with it.
THEOREM SpinnerAlwaysHasRequest == LinksSpec => []SpinnerHasRequest
<1>1. WaitInv => SpinnerHasRequest
  BY DEF WaitInv, SpinnerHasRequest, Busy, Asks
<1>. QED
  BY LinkInvInit, LinkInvStep, WaitInvInit, WaitInvStep, <1>1, PTL DEF LinksSpec
-----------------------------------------------------------------------------
(* The one player *)

\* Wherever the player is docked, or would dock, is the mounted row of its video.
DockedAt(a) == a = Floats \/ (a = player.video /\ a \in Clips /\ place[a] # "unmounted")

PlaceInv ==
  /\ place \in [Clips -> {"unmounted", "outside", "inside"}]
  /\ player.video \in Clips \cup {Floats}
  /\ DockedAt(anchor) /\ DockedAt(visibleAnchor)

\* The element has the source of a run of the effect; both know which.
SourceInv ==
  /\ "run" \in DOMAIN inline /\ "run" \in DOMAIN media
  /\ media.run # 0 => media.run = inline.run

LEMMA PlayerInvInit == PlayerInit => PlaceInv /\ SourceInv
BY PlayerAssumption DEF PlayerInit, PlaceInv, SourceInv, DockedAt, Nothing, Detached, NoInline

\* The steps of the video element and of its loads leave the player where it is.
LEMMA KeptInPlace == PlaceInv /\ Kept => PlaceInv'
BY DEF Kept, PlaceInv, DockedAt

\* The whole player goes.
LEMMA InactiveInPlace ==
  ASSUME PlaceInv, Inactive, place' \in [Clips -> {"unmounted", "outside", "inside"}]
  PROVE  PlaceInv' /\ SourceInv'
BY DEF PlaceInv, SourceInv, DockedAt, Inactive, Nothing, Detached, NoInline

\* Letting go of a row leaves nothing docked to it.
LEMMA ReleasedInPlace ==
  ASSUME PlaceInv, SourceInv, NEW v \in Clips, ReleaseAnchor(v),
         place' \in [Clips -> {"unmounted", "outside", "inside"}],
         \A w \in Clips \ {v} : place'[w] = place[w]
  PROVE  PlaceInv' /\ SourceInv'
<1>1. CASE anchor = v /\ media.paused
  BY <1>1, InactiveInPlace DEF ReleaseAnchor, Stop
<1>2. CASE anchor = v /\ ~media.paused
  <2>1. /\ anchor' = Floats /\ visibleAnchor' = (IF visibleAnchor = v THEN Floats ELSE visibleAnchor)
        /\ UNCHANGED <<player, media, inline>>
    BY <1>2 DEF ReleaseAnchor, Float
  <2>. QED
    BY <2>1 DEF PlaceInv, SourceInv, DockedAt
<1>3. CASE anchor # v
  <2>1. /\ visibleAnchor' = (IF visibleAnchor = v THEN Floats ELSE visibleAnchor)
        /\ UNCHANGED <<player, anchor, media, inline>>
    BY <1>3 DEF ReleaseAnchor
  <2>. QED
    BY <1>3, <2>1 DEF PlaceInv, SourceInv, DockedAt
<1>. QED
  BY <1>1, <1>2, <1>3

\* Another video is opened in a row in sight, or floating.
LEMMA OpenInPlace ==
  ASSUME PlaceInv, NEW v \in Clips, place[v] = "inside", NEW where \in {v, Floats}, Open(v, where)
  PROVE  PlaceInv' /\ SourceInv'
<1>1. /\ player' = [video |-> v, startAt |-> LeftAt(v)] /\ anchor' = where /\ visibleAnchor' = where
      /\ place' = place /\ media' = Detached /\ "run" \in DOMAIN inline'
  BY DEF Open, NoInline
<1>2. player'.video = v /\ media'.run = 0 /\ "run" \in DOMAIN media'
  BY <1>1 DEF Detached
<1>. QED
  BY <1>1, <1>2 DEF PlaceInv, SourceInv, DockedAt

\* Every step of the store, of the rows and of the element keeps both.
LEMMA PlayerInvStep == PlaceInv /\ SourceInv /\ [PlayerNext]_playerVars => PlaceInv' /\ SourceInv'
<1>. SUFFICES ASSUME PlaceInv, SourceInv, [PlayerNext]_playerVars PROVE PlaceInv' /\ SourceInv'
  OBVIOUS
<1>0. place \in [Clips -> {"unmounted", "outside", "inside"}]
  BY DEF PlaceInv
<1>1. ASSUME NEW f, "run" \in DOMAIN f, Rerun(f) PROVE PlaceInv' /\ SourceInv'
  <2>1. "run" \in DOMAIN inline' /\ "run" \in DOMAIN media' /\ media'.run = 0
    BY <1>1 DEF Rerun, Run, Detached
  <2>. QED
    BY <1>1, <2>1, KeptInPlace DEF Rerun, SourceInv
<1>2. CASE RetryVideo \/ StreamIsReady
  BY <1>1, <1>2 DEF RetryVideo, StreamIsReady, SourceInv
<1>3. CASE PlayOriginal
  <2>1. "run" \in DOMAIN [inline EXCEPT !.original = TRUE]
    BY DEF SourceInv
  <2>. QED
    BY <1>1, <1>3, <2>1 DEF PlayOriginal
<1>4. ASSUME NEW l \in loads, LoadAnswers(l) PROVE PlaceInv' /\ SourceInv'
  <2>1. CASE Current(l)
    <3>1. PICK processing \in BOOLEAN :
            /\ inline' = [inline EXCEPT !.error = FALSE, !.processing = processing]
            /\ media' = [run |-> l.run, startAt |-> l.from, at |-> 0, loaded |-> FALSE, paused |-> TRUE]
      BY <1>4, <2>1 DEF LoadAnswers
    <3>2. inline'.run = inline.run /\ "run" \in DOMAIN inline'
      BY <3>1 DEF SourceInv
    <3>3. media'.run = inline.run /\ "run" \in DOMAIN media'
      BY <2>1, <3>1 DEF Current
    <3>. QED
      BY <1>4, <3>2, <3>3, KeptInPlace DEF LoadAnswers, SourceInv
  <2>2. CASE ~Current(l)
    BY <1>4, <2>2, KeptInPlace DEF LoadAnswers, SourceInv
  <2>. QED
    BY <2>1, <2>2
<1>5. ASSUME NEW l \in loads, LoadFails(l) PROVE PlaceInv' /\ SourceInv'
  BY <1>5, KeptInPlace DEF LoadFails, SourceInv
<1>6. CASE Loaded \/ Play \/ Pause \/ Advance
  <2>1. /\ media'.run = media.run /\ inline'.run = inline.run
        /\ "run" \in DOMAIN inline' /\ "run" \in DOMAIN media' /\ Kept
    BY <1>6 DEF Loaded, Play, Pause, Advance, SourceInv
  <2>. QED
    BY <2>1, KeptInPlace DEF SourceInv
<1>7. CASE MediaError \/ Refresh \/ StreamIsUnavailable
  <2>1. media' = media /\ inline'.run = inline.run /\ "run" \in DOMAIN inline' /\ Kept
    BY <1>7 DEF MediaError, Refresh, StreamIsUnavailable, SourceInv
  <2>. QED
    BY <2>1, KeptInPlace DEF SourceInv
<1>8. ASSUME NEW v \in Clips, SetVisibility(v) PROVE PlaceInv' /\ SourceInv'
  <2>1. CASE place[v] = "inside"
    <3>1. /\ player.video = v /\ visibleAnchor' = v /\ anchor' \in {v, anchor}
          /\ UNCHANGED <<player, place, media, inline>>
      BY <1>8, <2>1 DEF SetVisibility, OfThePlayer
    <3>. QED
      BY <2>1, <3>1 DEF PlaceInv, SourceInv, DockedAt
  <2>2. CASE place[v] # "inside"
    BY <1>0, <1>8, <2>2, ReleasedInPlace DEF SetVisibility
  <2>. QED
    BY <2>1, <2>2
<1>9. CASE Dismiss
  <2>1. CASE visibleAnchor # Floats
    BY <1>9, <2>1 DEF Dismiss, PlaceInv, SourceInv, DockedAt
  <2>2. CASE visibleAnchor = Floats
    BY <1>0, <1>9, <2>2, InactiveInPlace DEF Dismiss, Stop
  <2>. QED
    BY <2>1, <2>2
<1>10. CASE Ends
  BY <1>0, <1>10, InactiveInPlace DEF Ends, Stop
<1>11. CASE Close
  BY <1>0, <1>11, InactiveInPlace DEF Close
<1>12. ASSUME NEW v \in Clips, MountRow(v) \/ Scroll(v) PROVE PlaceInv' /\ SourceInv'
  <2>1. PICK p \in {"outside", "inside"} : place' = [place EXCEPT ![v] = p]
    BY <1>12 DEF MountRow, Scroll
  <2>2. /\ place' \in [Clips -> {"unmounted", "outside", "inside"}]
        /\ \A w \in Clips : place[w] # "unmounted" => place'[w] # "unmounted"
    BY <1>0, <2>1
  <2>3. UNCHANGED <<player, anchor, visibleAnchor, media, inline>>
    BY <1>12 DEF MountRow, Scroll
  <2>. QED
    BY <2>2, <2>3 DEF PlaceInv, SourceInv, DockedAt
<1>13. ASSUME NEW v \in Clips, UnmountRow(v) PROVE PlaceInv' /\ SourceInv'
  BY <1>0, <1>13, ReleasedInPlace DEF UnmountRow, RowReleased
<1>14. ASSUME NEW v \in Clips, Effect(v) PROVE PlaceInv' /\ SourceInv'
  BY <1>14 DEF Effect, PlaceInv, SourceInv, DockedAt
<1>15. ASSUME NEW v \in Clips, ClickPoster(v) \/ PopOut(v) PROVE PlaceInv' /\ SourceInv'
  <2>1. CASE player.video = v
    <3>1. anchor' = Floats /\ UNCHANGED <<player, visibleAnchor, place, media, inline>>
      BY <1>15, <2>1 DEF ClickPoster, PopOut, Float
    <3>. QED
      BY <3>1 DEF PlaceInv, SourceInv, DockedAt
  <2>2. CASE player.video # v
    <3>1. place[v] = "inside" /\ (Open(v, v) \/ Open(v, Floats))
      BY <1>15, <2>2 DEF ClickPoster, PopOut
    <3>. QED
      BY <3>1, OpenInPlace
  <2>. QED
    BY <2>1, <2>2
<1>16. CASE UNCHANGED playerVars
  BY <1>16 DEF playerVars, PlaceInv, SourceInv, DockedAt
<1>. QED
  BY <1>2, <1>3, <1>4, <1>5, <1>6, <1>7, <1>8, <1>9, <1>10, <1>11, <1>12, <1>13, <1>14, <1>15, <1>16 DEF PlayerNext

\* The player is never docked to a row that is gone or to the row of another video:
\* every way a row goes lets go of it, and a late callback of an observer is heard
\* only for the video that plays (videoPlayerStore.ts:releaseAnchor, setAnchorVisible).
THEOREM PlayerAlwaysHasAPlace == PlayerSpec => []PlayerHasAPlace
<1>1. PlaceInv => PlayerHasAPlace
  BY DEF PlaceInv, PlayerHasAPlace, DockedAt
<1>. QED
  BY PlayerInvInit, PlayerInvStep, <1>1, PTL DEF PlayerSpec

\* The answer of a load that an effect's cleanup disposed of is never attached,
\* however many loads are under way and in whatever order they answer.
THEOREM SourceIsAlwaysCurrent == PlayerSpec => []SourceIsCurrent
<1>1. SourceInv => SourceIsCurrent
  BY DEF SourceInv, SourceIsCurrent, Attached
<1>. QED
  BY PlayerInvInit, PlayerInvStep, <1>1, PTL DEF PlayerSpec
-----------------------------------------------------------------------------
(* Posters and segments *)

DerivativesType ==
  /\ row \in [Videos -> BOOLEAN] /\ charged \in [Videos -> BOOLEAN]
  /\ poster \in [Videos -> BOOLEAN] /\ cut \in [Videos -> BOOLEAN]
  /\ segments \in [Videos -> {"none", "some", "all"}]
  /\ lock \in [Videos -> {"free", "playback", "collector"}]
  /\ tpc # "idle" => tjob \in Videos
  /\ vpc # "idle" => vjob \in Videos
  /\ cpc # "idle" => cjob \in Videos

\* Where the playback worker is, as far as its row and the charge go.
WorkerKeepsCharge ==
  /\ vpc = "attempt" => segments[vjob] = "none"
  /\ vpc = "lock" => (row[vjob] => charged[vjob])
  /\ vpc = "publish" => lock[vjob] = "playback" /\ row[vjob] /\ charged[vjob]

\* The collector holds the row lock from its first read to its commit, and has
\* removed the segments by then.
CollectorKeepsLock ==
  /\ cpc # "idle" => lock[cjob] = "collector" /\ row[cjob]
  /\ cpc = "row" => segments[cjob] = "none"

\* A poster the collector has passed is about to be found without a row.
Saves(v) == tpc = "save" /\ tjob = v

PosterIsKnown ==
  /\ \A v \in Videos : poster[v] /\ ~row[v] => cut[v] \/ Saves(v)
  /\ cpc \in {"segments", "row"} => (poster[cjob] => cut[cjob] \/ Saves(cjob))

DerivativesInv == DerivativesType /\ SegmentsAreCharged /\ WorkerKeepsCharge /\ CollectorKeepsLock /\ PosterIsKnown

LEMMA DerivativesInvInit == VideoInit => DerivativesInv
BY DEF VideoInit, DerivativesInv, DerivativesType, SegmentsAreCharged, WorkerKeepsCharge, CollectorKeepsLock, PosterIsKnown, Saves

\* The thumbnail worker touches posters only, and not one of a locked row.
LEMMA ThumbKeeps == DerivativesInv /\ (ThumbStep \/ ThumbStops) => DerivativesInv'
<1>. SUFFICES ASSUME DerivativesInv, ThumbStep \/ ThumbStops PROVE DerivativesInv'
  OBVIOUS
<1>. USE DEF DerivativesInv, DerivativesType, SegmentsAreCharged, WorkerKeepsCharge, CollectorKeepsLock, PosterIsKnown, Saves,
             rowVars, objectVars, videoVars, collectVars, ThumbIdle
<1>1. ASSUME NEW v \in Videos, ThumbPick(v) PROVE DerivativesInv'
  BY <1>1 DEF ThumbPick
<1>2. CASE ThumbPut
  BY <1>2 DEF ThumbPut
<1>3. CASE ThumbRenderFails
  BY <1>3 DEF ThumbRenderFails
<1>4. CASE ThumbSave
  <2>1. CASE row[tjob] /\ UNCHANGED poster
    BY <1>4, <2>1 DEF ThumbSave
  <2>2. CASE ~row[tjob] /\ poster' = [poster EXCEPT ![tjob] = FALSE] /\ UNCHANGED thumb
    <3>1. /\ tjob \in Videos /\ tpc' = "idle" /\ poster' \in [Videos -> BOOLEAN]
          /\ \A v \in Videos : poster'[v] => poster[v] /\ v # tjob
          /\ UNCHANGED <<row, claimed, thumb, thumbTries, video, videoTries, charged,
                         segments, lock, cut, videoVars, collectVars>>
      BY <1>4, <2>2 DEF ThumbSave
    <3>2. DerivativesType'
      BY <1>4, <3>1 DEF ThumbSave
    <3>3. SegmentsAreCharged' /\ WorkerKeepsCharge' /\ CollectorKeepsLock'
      BY <3>1
    <3>4. PosterIsKnown'
      BY <3>1
    <3>. QED  BY <3>2, <3>3, <3>4
  <2>. QED  BY <1>4, <2>1, <2>2 DEF ThumbSave
<1>5. CASE ThumbCount
  BY <1>5 DEF ThumbCount
<1>6. CASE ThumbStops
  BY <1>6 DEF ThumbStops
<1>. QED
  BY <1>1, <1>2, <1>3, <1>4, <1>5, <1>6 DEF ThumbStep

\* The playback worker clears what an earlier attempt left before it gives up the
\* charge, and stores only under the lock.
LEMMA PlayKeeps == DerivativesInv /\ (PlayStep \/ PlayStops) => DerivativesInv'
<1>. SUFFICES ASSUME DerivativesInv, PlayStep \/ PlayStops PROVE DerivativesInv'
  OBVIOUS
<1>. USE DEF DerivativesInv, DerivativesType, SegmentsAreCharged, WorkerKeepsCharge, CollectorKeepsLock, PosterIsKnown, Saves,
             rowVars, objectVars, thumbVars, collectVars, videoVars, PlayIdle, Unlock
<1>1. ASSUME NEW v \in Videos, PlayPick(v) PROVE DerivativesInv'
  BY <1>1 DEF PlayPick, Oldest
<1>2. CASE PlayClear
  BY <1>2 DEF PlayClear
<1>3. CASE PlayAttempt
  BY <1>3 DEF PlayAttempt
<1>4. CASE PlayEncode
  BY <1>4 DEF PlayEncode
<1>5. CASE PlayReserve
  BY <1>5 DEF PlayReserve
<1>6. CASE PlayLock
  BY <1>6 DEF PlayLock
<1>7. CASE PlayPut
  BY <1>7 DEF PlayPut
<1>8. CASE PlayCommit
  BY <1>8 DEF PlayCommit
<1>9. CASE PlayStops
  BY <1>9 DEF PlayStops
<1>. QED
  BY <1>1, <1>2, <1>3, <1>4, <1>5, <1>6, <1>7, <1>8, <1>9 DEF PlayStep

\* The collector removes the row last.
LEMMA CollectKeeps == DerivativesInv /\ (CollectStep \/ CollectStops \/ \E v \in Videos : GiveUp(v)) => DerivativesInv'
<1>. SUFFICES ASSUME DerivativesInv, CollectStep \/ CollectStops \/ \E v \in Videos : GiveUp(v) PROVE DerivativesInv'
  OBVIOUS
<1>. USE DEF DerivativesInv, DerivativesType, SegmentsAreCharged, WorkerKeepsCharge, CollectorKeepsLock, PosterIsKnown, Saves,
             rowVars, objectVars, thumbVars, collectVars, videoVars, CollectIdle, Unlock
<1>1. ASSUME NEW v \in Videos, CollectLock(v) PROVE DerivativesInv'
  BY <1>1 DEF CollectLock
<1>2. CASE CollectPoster
  BY <1>2 DEF CollectPoster
<1>3. CASE CollectSegments
  BY <1>3 DEF CollectSegments
<1>4. CASE CollectRow
  BY <1>4 DEF CollectRow
<1>5. CASE CollectStops
  BY <1>5 DEF CollectStops
<1>6. ASSUME NEW v \in Videos, GiveUp(v) PROVE DerivativesInv'
  BY <1>6 DEF GiveUp
<1>. QED
  BY <1>1, <1>2, <1>3, <1>4, <1>5, <1>6 DEF CollectStep

LEMMA DerivativesInvStep == DerivativesInv /\ [VideoNext]_derivativeVars => DerivativesInv'
<1>1. DerivativesInv /\ UNCHANGED derivativeVars => DerivativesInv'
  BY DEF derivativeVars, rowVars, objectVars, thumbVars, videoVars, collectVars, DerivativesInv, DerivativesType,
         SegmentsAreCharged, WorkerKeepsCharge, CollectorKeepsLock, PosterIsKnown, Saves
<1>. QED
  BY <1>1, ThumbKeeps, PlayKeeps, CollectKeeps DEF VideoNext

\* HLS segments never outlive the charge or the row they are charged to, for any
\* number of videos and attempts, wherever the process stops: the worker clears
\* before it uncharges (VideoPlaybackWorker.cs), publishes under the row lock, and
\* the collector removes them before the row (PendingUploadSweeper.cs).
THEOREM SegmentsAreAlwaysCharged == VideoSpec => []SegmentsAreCharged
<1>1. DerivativesInv => SegmentsAreCharged
  BY DEF DerivativesInv
<1>. QED
  BY DerivativesInvInit, DerivativesInvStep, <1>1, PTL DEF VideoSpec

\* A poster without a video is one the thumbnail worker is about to find out about,
\* or one it was stopped over: a collection that meets it anywhere else leaves none
\* (VideoThumbnailWorker.cs:97-101).
THEOREM OtherPostersGo == VideoSpec => []OnlyCutOffPostersStay
<1>1. DerivativesInv => OnlyCutOffPostersStay
  BY DEF DerivativesInv, PosterIsKnown, OnlyCutOffPostersStay, Saves
<1>. QED
  BY DerivativesInvInit, DerivativesInvStep, <1>1, PTL DEF VideoSpec
-----------------------------------------------------------------------------
(* The locks of the upload transactions *)

\* What a transaction that still waits for a lock holds: nothing, or the first of
\* its two.
HoldsFirst(j, H) ==
  \/ H = {}
  \/ j.op \in {"reserve", "video"} /\ H = {ConfigLock}
  \/ j.op = "confirm" /\ H = {PendingLock(j.up)}

\* What a transaction holds that has all its locks.
HoldsAll(j, H) ==
  /\ j.op \in {"confirm", "abort"} => PendingLock(j.up) \in H
  /\ j.op \in {"video", "collect"} => ConfirmedLock(j.up) \in H

JobOK(j, H) ==
  /\ j.pc = "idle" => H = {} /\ j.op = "none"
  /\ j.pc # "idle" => j.op \in Ops /\ j.up \in Uploads
  /\ j.pc = "lock" => HoldsFirst(j, H)
  /\ j.pc \notin {"idle", "lock"} => HoldsAll(j, H)
  /\ j.pc \in {"read", "daily"} => j.op = "reserve" /\ j.day \in Days

LocksOK ==
  /\ QuotaTypeOK
  /\ DOMAIN held = Workers /\ held = [w \in Workers |-> held[w]]
  /\ \A w \in Workers : JobOK(job[w], held[w])

\* A transaction that ends.
LEMMA IdleOK == Idle \in Job /\ JobOK(Idle, {})
BY DEF Idle, Job, JobOK

LEMMA LocksOKInit == Init => LocksOK
<1>. SUFFICES ASSUME Init PROVE LocksOK
  OBVIOUS
<1>1. 1 \in Days /\ 0 \in Nat
  BY QuotaAssumption DEF Days
<1>2. /\ stage \in [Uploads -> {"none", "pending", "confirmed", "adopted", "collected", "gone"}]
      /\ limits \in Limits /\ ready \in BOOLEAN /\ today \in Days
  BY <1>1 DEF Init
<1>3. /\ quotaDate \in [Uploads -> Days \cup {NoDay}] /\ videoBytes \in [Uploads -> Nat]
      /\ quota \in [Users -> [Days -> Nat]]
  BY <1>1 DEF Init
<1>. QED
  BY <1>2, <1>3, IdleOK DEF Init, LocksOK, QuotaTypeOK

\* A step of one transaction.
LEMMA OneJob ==
  ASSUME LocksOK, NEW w \in Workers, NEW j \in Job, NEW H, JobOK(j, H),
         job' = [job EXCEPT ![w] = j], held' = [held EXCEPT ![w] = H]
  PROVE  /\ job' \in [Workers -> Job]
         /\ DOMAIN held' = Workers /\ held' = [x \in Workers |-> held'[x]]
         /\ \A x \in Workers : JobOK(job'[x], held'[x])
<1>1. job \in [Workers -> Job] /\ DOMAIN held = Workers
  BY DEF LocksOK, QuotaTypeOK
<1>2. \A x \in Workers : /\ job'[x] = IF x = w THEN j ELSE job[x]
                         /\ held'[x] = IF x = w THEN H ELSE held[x]
  BY <1>1
<1>. QED
  BY <1>1, <1>2 DEF LocksOK

\* A lock that is taken.
LEMMA LockTaken ==
  ASSUME LocksOK, NEW w \in Workers, job[w].pc = "lock"
  PROVE  Locked(w) \in Job /\ JobOK(Locked(w), held[w] \cup {Wanted(w)})
<1> DEFINE j == job[w]
<1>1. /\ j \in Job /\ j.op \in Ops /\ j.up \in Uploads /\ HoldsFirst(j, held[w]) /\ today \in Days
  BY DEF LocksOK, QuotaTypeOK, JobOK
<1> DEFINE day == IF j.op = "reserve" /\ j.day = NoDay THEN today ELSE j.day
           next(pc) == [op |-> j.op, up |-> j.up, sum |-> j.sum, day |-> day, pc |-> pc]
<1>2. day \in Days \cup {NoDay} /\ (j.op = "reserve" => day \in Days) /\ j.sum \in Nat
  BY <1>1 DEF Job
<1>3. \A pc \in {"lock", "read", "daily", "user", "instance", "commit"} : next(pc) \in Job
  BY <1>1, <1>2 DEF Job
<1>4. CASE held[w] = {}
  <2>1. Cardinality(held[w]) = 0
    BY <1>4, FS_EmptySet
  <2>2. Wanted(w) = LocksOf(w)[1] /\ Locked(w) = next(IF Len(LocksOf(w)) = 1 THEN AfterLocks(j.op) ELSE "lock")
    BY <2>1 DEF Wanted, Locked
  <2>3. CASE j.op \in {"abort", "collect"}
    <3>1. Len(LocksOf(w)) = 1 /\ AfterLocks(j.op) = "commit"
      BY <2>3 DEF LocksOf, Locks, AfterLocks
    <3>2. Wanted(w) = IF j.op = "abort" THEN PendingLock(j.up) ELSE ConfirmedLock(j.up)
      BY <2>2, <2>3 DEF LocksOf, Locks
    <3>. QED
      BY <1>1, <1>3, <2>2, <2>3, <3>1, <3>2 DEF JobOK, HoldsAll
  <2>4. CASE j.op \in {"reserve", "video", "confirm"}
    <3>1. Len(LocksOf(w)) = 2
      BY <2>4 DEF LocksOf, Locks, ReserveLocks, ConfirmLocks
    <3>2. Wanted(w) = IF j.op = "confirm" THEN PendingLock(j.up) ELSE ConfigLock
      BY <2>2, <2>4 DEF LocksOf, Locks, ReserveLocks, ConfirmLocks
    <3>. QED
      BY <1>1, <1>3, <1>4, <2>2, <2>4, <3>1, <3>2 DEF JobOK, HoldsFirst
  <2>. QED
    BY <1>1, <2>3, <2>4 DEF Ops
<1>5. CASE held[w] # {}
  <2>1. /\ j.op \in {"reserve", "video", "confirm"}
        /\ held[w] = IF j.op = "confirm" THEN {PendingLock(j.up)} ELSE {ConfigLock}
    BY <1>1, <1>5 DEF HoldsFirst
  <2>2. Cardinality(held[w]) = 1
    BY <2>1, FS_Singleton
  <2>3. Len(LocksOf(w)) = 2
    BY <2>1 DEF LocksOf, Locks, ReserveLocks, ConfirmLocks
  <2>4. Wanted(w) = LocksOf(w)[2] /\ Locked(w) = next(AfterLocks(j.op))
    BY <2>2, <2>3 DEF Wanted, Locked
  <2>5. AfterLocks(j.op) = IF j.op = "reserve" THEN "read" ELSE IF j.op = "video" THEN "user" ELSE "commit"
    BY <2>1 DEF AfterLocks
  <2>6. j.op = "video" => Wanted(w) = ConfirmedLock(j.up)
    BY <2>4 DEF LocksOf, Locks
  <2>7. next(AfterLocks(j.op)) \in Job
    BY <1>3, <2>1, <2>5
  <2>8. HoldsAll(next(AfterLocks(j.op)), held[w] \cup {Wanted(w)})
    BY <2>1, <2>6 DEF HoldsAll
  <2>. QED
    BY <1>1, <1>2, <2>1, <2>4, <2>5, <2>7, <2>8 DEF JobOK
<1>. QED
  BY <1>4, <1>5
\* Every step of a transaction keeps the order of its locks.
LEMMA LocksOKStep == LocksOK /\ [Next]_vars => LocksOK'
<1>. SUFFICES ASSUME LocksOK, [Next]_vars PROVE LocksOK'
  OBVIOUS
<1> DEFINE Rows4 == /\ stage \in [Uploads -> {"none", "pending", "confirmed", "adopted", "collected", "gone"}]
                    /\ quotaDate \in [Uploads -> Days \cup {NoDay}]
                    /\ quota \in [Users -> [Days -> Nat]]
                    /\ videoBytes \in [Uploads -> Nat]
           Rest == limits \in Limits /\ ready \in BOOLEAN /\ today \in Days
           Jobs == /\ job \in [Workers -> Job]
                   /\ DOMAIN held = Workers /\ held = [w \in Workers |-> held[w]]
                   /\ \A w \in Workers : JobOK(job[w], held[w])
<1>0. Rows4 /\ Rest /\ Jobs /\ \A w \in Workers : job[w] \in Job /\ JobOK(job[w], held[w])
  BY DEF LocksOK, QuotaTypeOK
<1>1. ASSUME Rows4', Rest', Jobs' PROVE LocksOK'
  BY <1>1 DEF LocksOK, QuotaTypeOK
<1>2. ASSUME NEW w \in Workers, End(w) PROVE Jobs'
  BY <1>2, IdleOK, OneJob DEF End
<1>3. Rows4 /\ UNCHANGED rows => Rows4'
  BY DEF rows
<1>4. Rest /\ UNCHANGED <<limits, ready, today>> => Rest'
  OBVIOUS
<1>. HIDE DEF Jobs
<1>5. ASSUME NEW w \in Workers, NEW u \in Uploads, NEW op \in Ops, Begin(w, op, u) \/ BeginVideo(w, u) PROVE LocksOK'
  <2>1. PICK o \in Ops : job' = [job EXCEPT ![w] = Started(o, u)]
    BY <1>5 DEF Begin, BeginVideo, Ops
  <2>2. held[w] = {} /\ held' = [held EXCEPT ![w] = {}]
    BY <1>0, <1>5 DEF Begin, BeginVideo, JobOK, Jobs
  <2>3. Started(o, u) \in Job /\ JobOK(Started(o, u), {})
    BY DEF Started, Job, JobOK, HoldsFirst
  <2>4. Jobs'
    BY <2>1, <2>2, <2>3, OneJob DEF Jobs
  <2>5. Rows4' /\ Rest'
    BY <1>0, <1>5 DEF Begin, BeginVideo, rows
  <2>. QED
    BY <1>1, <2>4, <2>5
<1>6. ASSUME NEW w \in Workers, Lock(w) PROVE LocksOK'
  <2>1. Rows4' /\ Rest'
    BY <1>0, <1>3, <1>4, <1>6 DEF Lock, Reading
  <2>2. CASE End(w)
    BY <1>1, <1>2, <2>1, <2>2
  <2>3. CASE held' = [held EXCEPT ![w] = held[w] \cup {Wanted(w)}] /\ job' = [job EXCEPT ![w] = Locked(w)]
    <3>1. Locked(w) \in Job /\ JobOK(Locked(w), held[w] \cup {Wanted(w)})
      BY <1>6, LockTaken DEF Lock
    <3>2. Jobs'
      BY <2>3, <3>1, OneJob DEF Jobs
    <3>. QED
      BY <1>1, <2>1, <3>2
  <2>. QED
    BY <1>6, <2>2, <2>3 DEF Lock
\* A step that reads and goes on with what it read.
<1>7. ASSUME NEW w \in Workers, NEW j \in Job, JobOK(j, held[w]), job' = [job EXCEPT ![w] = j], held' = held,
             UNCHANGED <<rows, limits, ready, today>>
      PROVE  LocksOK'
  <2>1. held' = [held EXCEPT ![w] = held[w]]
    BY <1>0, <1>7 DEF Jobs
  <2>2. Jobs'
    BY <1>7, <2>1, OneJob DEF Jobs
  <2>. QED
    BY <1>0, <1>1, <1>3, <1>4, <1>7, <2>2
<1>8. ASSUME NEW w \in Workers, End(w), Reading PROVE LocksOK'
  BY <1>0, <1>1, <1>2, <1>3, <1>4, <1>8 DEF Reading
<1>9. ASSUME NEW w \in Workers, ReserveRead(w) PROVE LocksOK'
  <2> DEFINE j == [op |-> "reserve", up |-> job[w].up, day |-> job[w].day, pc |-> "daily",
                   sum |-> quota[Owner[job[w].up]][job[w].day]]
  <2>1. job[w].up \in Uploads /\ job[w].day \in Days /\ HoldsAll(job[w], held[w]) /\ job[w].op = "reserve"
    BY <1>0, <1>9 DEF ReserveRead, AtPc, JobOK
  <2>2. Owner[job[w].up] \in Users
    BY <2>1, QuotaAssumption
  <2>3. quota[Owner[job[w].up]][job[w].day] \in Nat
    BY <1>0, <2>1, <2>2
  <2>4. j \in Job
    BY <2>1, <2>3 DEF Job, Ops
  <2>5. JobOK(j, held[w])
    BY <2>1 DEF JobOK, HoldsAll, Ops
  <2>. QED
    BY <1>7, <1>9, <2>4, <2>5 DEF ReserveRead, Reading
<1>10. ASSUME NEW w \in Workers, ReserveDaily(w) \/ UserFits(w) \/ InstanceFits(w) PROVE LocksOK'
  <2>1. Reading
    BY <1>10 DEF ReserveDaily, UserFits, InstanceFits
  <2>2. CASE End(w)
    BY <1>8, <2>1, <2>2
  <2>3. CASE \E pc \in {"user", "instance", "commit"} : Goto(w, pc) /\ held' = held
    <3>1. PICK pc \in {"user", "instance", "commit"} : Goto(w, pc) /\ held' = held
      BY <2>3
    <3> DEFINE j == [op |-> job[w].op, up |-> job[w].up, day |-> job[w].day, sum |-> job[w].sum, pc |-> pc]
    <3>2. job' = [job EXCEPT ![w] = j]
      <4>1. job' = [job EXCEPT ![w] = [job[w] EXCEPT !.pc = pc]]
        BY <3>1 DEF Goto
      <4>2. [job[w] EXCEPT !.pc = pc] = j
        BY <1>0 DEF Job
      <4>. QED
        BY <4>1, <4>2
    <3>3. job[w].pc \in {"daily", "user", "instance"}
      BY <1>10 DEF ReserveDaily, UserFits, InstanceFits, AtPc
    <3>4. j \in Job
      BY <1>0 DEF Job
    <3>5. JobOK(j, held[w])
      BY <1>0, <3>3 DEF JobOK, HoldsAll
    <3>. QED
      BY <1>7, <2>1, <3>1, <3>2, <3>4, <3>5 DEF Reading
  <2>. QED
    BY <1>10, <2>2, <2>3 DEF ReserveDaily, UserFits, InstanceFits
<1>11. ASSUME NEW w \in Workers, CommitReserve(w) \/ CommitVideo(w) \/ CommitAbort(w) \/ RejectConfirm(w) \/ CommitCollect(w)
       PROVE  LocksOK'
  <2>1. Jobs' /\ Rest'
    BY <1>0, <1>2, <1>11 DEF CommitReserve, CommitVideo, CommitAbort, RejectConfirm, CommitCollect
  <2>2. job[w].up \in Uploads /\ job[w].day \in Days \cup {NoDay}
    BY <1>0, <1>11 DEF CommitReserve, CommitVideo, CommitAbort, RejectConfirm, CommitCollect, AtPc, JobOK, Job
  <2>3. /\ stage' \in [Uploads -> {"none", "pending", "confirmed", "adopted", "collected", "gone"}]
        /\ quotaDate' \in [Uploads -> Days \cup {NoDay}]
        /\ quota' = quota
    BY <1>0, <1>11, <2>2 DEF CommitReserve, CommitVideo, CommitAbort, RejectConfirm, CommitCollect
  <2>4. videoBytes' \in [Uploads -> Nat]
    BY <1>0, <1>11, <2>2, QuotaAssumption DEF CommitReserve, CommitVideo, CommitAbort, RejectConfirm, CommitCollect
  <2>. QED
    BY <1>0, <1>1, <2>1, <2>3, <2>4
<1>12. ASSUME NEW w \in Workers, CommitConfirm(w) PROVE LocksOK'
  <2> DEFINE u == job[w].up
             a == Owner[u]
             d == ChargeDay(u)
  <2>1. Jobs' /\ Rest' /\ quotaDate' = quotaDate /\ videoBytes' = videoBytes
    BY <1>0, <1>2, <1>12 DEF CommitConfirm
  <2>2. u \in Uploads
    BY <1>0, <1>12 DEF CommitConfirm, AtPc, JobOK
  <2>3. a \in Users /\ Size[u] \in Nat
    BY <2>2, QuotaAssumption
  <2>4. d \in Days
    BY <1>0, <2>2, QuotaAssumption DEF ChargeDay, Days, NoDay
  <2>5. stage' \in [Uploads -> {"none", "pending", "confirmed", "adopted", "collected", "gone"}]
    BY <1>0, <1>12, <2>2 DEF CommitConfirm
  <2>6. quota[a][d] + Size[u] \in Nat
    BY <1>0, <2>3, <2>4
  <2>7. \/ quota' = quota
        \/ quota' = [quota EXCEPT ![a] = [quota[a] EXCEPT ![d] = quota[a][d] + Size[u]]]
    BY <1>12 DEF CommitConfirm
  <2>8. quota' \in [Users -> [Days -> Nat]]
    <3> DEFINE newRow == [quota[a] EXCEPT ![d] = quota[a][d] + Size[u]]
    <3>1. quota \in [Users -> [Days -> Nat]] /\ quota[a] \in [Days -> Nat]
      BY <1>0, <2>3
    <3> HIDE DEF a, d, u
    <3>2. newRow \in [Days -> Nat]
      BY <2>4, <2>6, <3>1
    <3>3. [quota EXCEPT ![a] = newRow] \in [Users -> [Days -> Nat]]
      <4> HIDE DEF newRow
      <4>. QED
        BY <2>3, <3>1, <3>2
    <3>. QED
      BY <2>7, <3>1, <3>3
  <2>. QED
    BY <1>0, <1>1, <2>1, <2>5, <2>8
<1>13. ASSUME NEW w \in Workers, Rollback(w) PROVE LocksOK'
  BY <1>8, <1>13 DEF Rollback
<1>14. ASSUME NEW u \in Uploads, ReleaseUnissued(u) \/ Adopt(u) PROVE LocksOK'
  <2>1. Rows4' /\ Rest' /\ job' = job /\ held' = held
    BY <1>0, <1>14 DEF ReleaseUnissued, Adopt
  <2>. QED
    BY <1>0, <1>1, <2>1 DEF Jobs
<1>15. ASSUME NEW l \in Limits, ChangeLimits(l) \/ InventoryDone \/ Midnight PROVE LocksOK'
  <2>1. today' \in Days
    BY <1>0, <1>15, QuotaAssumption DEF ChangeLimits, InventoryDone, Midnight, Days
  <2>3. limits' \in Limits /\ ready' \in BOOLEAN
    BY <1>0, <1>15 DEF ChangeLimits, InventoryDone, Midnight
  <2>2. Rows4' /\ job' = job /\ held' = held
    BY <1>0, <1>3, <1>15 DEF ChangeLimits, InventoryDone, Midnight
  <2>. QED
    BY <1>0, <1>1, <2>1, <2>2, <2>3 DEF Jobs
<1>16. CASE Restart
  <2>1. Jobs'
    BY <1>16, IdleOK DEF Restart, Jobs
  <2>. QED
    BY <1>0, <1>1, <1>3, <1>16, <2>1 DEF Restart
<1>17. CASE UNCHANGED vars
  <2>1. Rows4' /\ Rest' /\ job' = job /\ held' = held
    BY <1>0, <1>3, <1>4, <1>17 DEF vars
  <2>. QED
    BY <1>0, <1>1, <2>1 DEF Jobs
<1>18. ASSUME NEW w \in Workers, Transaction(w) PROVE LocksOK'
  BY <1>5, <1>6, <1>9, <1>10, <1>11, <1>12, <1>13, <1>18 DEF Transaction, Ops
<1>. QED
  BY <1>14, <1>15, <1>16, <1>17, <1>18, <1>0 DEF Next

\* The locks a transaction may wait for while it holds another, and those it may hold
\* while it waits.
Second(l) == l[1] \in {"quota", "confirmed"}

LEMMA LockOrder ==
  ASSUME LocksOK, NEW w \in Workers, job[w].pc = "lock"
  PROVE  /\ \A l \in held[w] : ~Second(l)
         /\ held[w] # {} => Second(Wanted(w))
<1>1. HoldsFirst(job[w], held[w]) /\ job[w].op \in Ops
  BY DEF LocksOK, JobOK
<1>2. \A l \in held[w] : ~Second(l)
  BY <1>1 DEF HoldsFirst, Second, ConfigLock, PendingLock
<1>3. ASSUME held[w] # {} PROVE Second(Wanted(w))
  <2>1. /\ job[w].op \in {"reserve", "video", "confirm"}
        /\ held[w] = IF job[w].op = "confirm" THEN {PendingLock(job[w].up)} ELSE {ConfigLock}
    BY <1>1, <1>3 DEF HoldsFirst
  <2>2. Cardinality(held[w]) = 1
    BY <2>1, FS_Singleton
  <2>3. Wanted(w) = LocksOf(w)[2]
    BY <2>2 DEF Wanted
  <2>. QED
    BY <2>1, <2>3 DEF LocksOf, Locks, ReserveLocks, ConfirmLocks, Second, QuotaLock, ConfirmedLock
<1>. QED
  BY <1>2, <1>3

\* The row locks of reservations, confirmations, aborts, the playback worker and the
\* collector are taken in one order - the configuration or the pending row, then the
\* day's quota or the confirmed row - so however many run at once, there is always
\* one that waits for none of the others.
THEOREM NeverCircularWait == Spec => []NoCircularWait
<1>1. LocksOK => NoCircularWait
  <2>. SUFFICES ASSUME LocksOK, NEW S \in (SUBSET Workers) \ {{}} PROVE \E w \in S : WaitsFor(w) \cap S = {}
    BY DEF NoCircularWait
  <2>1. PICK w \in S : TRUE
    OBVIOUS
  <2>2. ASSUME WaitsFor(w) \cap S # {} PROVE \E x \in S : WaitsFor(x) \cap S = {}
    <3>1. PICK x \in S : x \in Workers /\ held[x] # {}
      BY <2>2 DEF WaitsFor
    <3>2. CASE WaitsFor(x) \cap S = {}
      BY <3>2
    <3>3. CASE WaitsFor(x) \cap S # {}
      <4>1. PICK y \in S : y \in Workers /\ job[x].pc = "lock" /\ Wanted(x) \in held[y]
        BY <3>3 DEF WaitsFor
      <4>2. Second(Wanted(x))
        BY <3>1, <4>1, LockOrder
      <4>3. job[y].pc # "lock"
        BY <4>1, <4>2, LockOrder
      <4>. QED
        BY <4>1, <4>3 DEF WaitsFor
    <3>. QED
      BY <3>2, <3>3
  <2>. QED
    BY <2>1, <2>2
<1>. QED
  BY LocksOKInit, LocksOKStep, <1>1, PTL DEF Spec
-----------------------------------------------------------------------------
\* The sums the quotas are made of, as functions on the subsets of what is summed up.
SizeOf(X) == MapThenSumSet(LAMBDA u : Size[u], X)
OneOf(s) == CHOOSE x \in s : TRUE
AddsOn(f, D) == f = [s \in D |-> IF s = {} THEN 0 ELSE Size[OneOf(s)] + f[s \ {OneOf(s)}]]

LEMMA SizeOfIs == ASSUME NEW X PROVE SizeOf(X) = (CHOOSE f : AddsOn(f, SUBSET X))[X]
BY Zenon DEF SizeOf, MapThenSumSet, MapThenFoldSet, AddsOn, OneOf

LEMMA LeastOfNats ==
  ASSUME NEW S \in SUBSET Nat, S # {}
  PROVE  \E n \in S : \A m \in S : n <= m
<1> DEFINE R == OpToRel(<, Nat)
<1>1. IsWellFoundedOn(R, Nat)
  BY NatLessThanWellFounded
<1>2. \A m, n \in Nat : <<m, n>> \in R <=> m < n
  BY DEF OpToRel
<1> HIDE DEF R
<1>3. PICK n \in S : \A m \in S : ~ (<<m, n>> \in R)
  BY <1>1, WFMin
<1>4. ASSUME NEW m \in S PROVE n <= m
  <2>1. m \in Nat /\ n \in Nat
    OBVIOUS
  <2>2. ~ (m < n)
    BY <1>2, <1>3, <2>1
  <2>. QED
    BY <2>1, <2>2
<1>. QED
  BY <1>4

\* Of the finite sets for which something fails there is one that does without none of
\* its elements.
LEMMA SmallestSet ==
  ASSUME NEW X, IsFiniteSet(X), NEW B \in SUBSET (SUBSET X), B # {}
  PROVE  \E s \in B : \A x \in s : s \ {x} \notin B
<1> DEFINE N == {Cardinality(s) : s \in B}
<1>1. \A s \in SUBSET X : IsFiniteSet(s) /\ Cardinality(s) \in Nat
  BY FS_Subset, FS_CardinalityType
<1>2. N \in SUBSET Nat /\ N # {}
  BY <1>1
<1>3. PICK n \in N : \A m \in N : n <= m
  <2> HIDE DEF N
  <2>. QED
    BY <1>2, LeastOfNats
<1>4. PICK s \in B : Cardinality(s) = n
  BY <1>3
<1>5. ASSUME NEW x \in s, s \ {x} \in B PROVE FALSE
  <2>1. Cardinality(s \ {x}) = Cardinality(s) - 1
    BY <1>1, FS_RemoveElement
  <2>2. n <= Cardinality(s \ {x})
    BY <1>3, <1>5
  <2>. QED
    BY <1>1, <1>4, <2>1, <2>2
<1>. QED
  BY <1>4, <1>5

\* There is such a function: one for sets of up to n elements gives one for n + 1.
LEMMA SomethingAdds ==
  ASSUME NEW X, IsFiniteSet(X)
  PROVE  \E f : AddsOn(f, SUBSET X)
<1> DEFINE D(n) == {s \in SUBSET X : Cardinality(s) <= n}
           Bad == {n \in Nat : ~ \E f : AddsOn(f, D(n))}
<1>1. \A s \in SUBSET X : IsFiniteSet(s) /\ Cardinality(s) \in Nat /\ Cardinality(s) <= Cardinality(X)
  BY FS_Subset, FS_CardinalityType
<1>2. Bad = {}
  <2>. SUFFICES ASSUME Bad # {} PROVE FALSE
    OBVIOUS
  <2>1. PICK n \in Bad : \A m \in Bad : n <= m
    BY LeastOfNats
  <2>2. n # 0
    <3>1. \A s \in D(0) : s = {}
      BY <1>1, FS_EmptySet
    <3> DEFINE f == [s \in D(0) |-> 0]
    <3>2. AddsOn(f, D(0))
      BY <3>1 DEF AddsOn
    <3>. QED
      BY <3>2
  <2>3. n - 1 \in Nat /\ n - 1 \notin Bad
    BY <2>1, <2>2
  <2>4. PICK f : AddsOn(f, D(n - 1))
    BY <2>3
  <2> DEFINE g == [s \in D(n) |-> IF s = {} THEN 0 ELSE Size[OneOf(s)] + f[s \ {OneOf(s)}]]
  <2>5. \A s \in D(n - 1) : s \in D(n) /\ g[s] = f[s]
    <3>1. \A s \in D(n - 1) : s \in D(n)
      <4>1. \A k \in Nat : k <= n - 1 => k <= n
        BY <2>1
      <4>. QED
        BY <1>1, <4>1
    <3> HIDE DEF D
    <3>2. \A s \in D(n - 1) : f[s] = IF s = {} THEN 0 ELSE Size[OneOf(s)] + f[s \ {OneOf(s)}]
      BY <2>4 DEF AddsOn
    <3>. QED
      BY <3>1, <3>2
  <2>6. \A s \in D(n) : s # {} => s \ {OneOf(s)} \in D(n - 1)
    <3>. SUFFICES ASSUME NEW s \in D(n), s # {} PROVE s \ {OneOf(s)} \in D(n - 1)
      OBVIOUS
    <3>1. OneOf(s) \in s
      BY DEF OneOf
    <3>2. Cardinality(s \ {OneOf(s)}) = Cardinality(s) - 1
      BY <1>1, <3>1, FS_RemoveElement
    <3>. QED
      BY <1>1, <2>3, <3>2
  <2>7. AddsOn(g, D(n))
    <3>1. g = [s \in D(n) |-> IF s = {} THEN 0 ELSE Size[OneOf(s)] + g[s \ {OneOf(s)}]]
      <4>1. \A s \in D(n) : (IF s = {} THEN 0 ELSE Size[OneOf(s)] + f[s \ {OneOf(s)}])
                          = (IF s = {} THEN 0 ELSE Size[OneOf(s)] + g[s \ {OneOf(s)}])
        BY <2>5, <2>6
      <4> HIDE DEF D
      <4>2. \A s \in D(n) : g[s] = IF s = {} THEN 0 ELSE Size[OneOf(s)] + f[s \ {OneOf(s)}]
        OBVIOUS
      <4> DEFINE h == [s \in D(n) |-> IF s = {} THEN 0 ELSE Size[OneOf(s)] + g[s \ {OneOf(s)}]]
      <4>3. \A s \in D(n) : h[s] = g[s]
        BY <4>1, <4>2
      <4>4. DOMAIN h = D(n) /\ DOMAIN g = D(n) /\ h = [s \in D(n) |-> h[s]] /\ g = [s \in D(n) |-> g[s]]
        OBVIOUS
      <4> HIDE DEF g, h
      <4>5. h = g
        BY <4>3, <4>4
      <4>. QED
        BY <4>5 DEF h
    <3>. QED
      BY <3>1 DEF AddsOn
  <2>. QED
    BY <2>7
<1>3. D(Cardinality(X)) = SUBSET X
  BY <1>1
<1>4. Cardinality(X) \in Nat
  BY FS_CardinalityType
<1> HIDE DEF D
<1>5. \E f : AddsOn(f, D(Cardinality(X)))
  BY <1>2, <1>4
<1>. QED
  BY <1>3, <1>5

LEMMA SumsAreNumbers ==
  ASSUME NEW X \in SUBSET Uploads, IsFiniteSet(X), NEW f, AddsOn(f, SUBSET X)
  PROVE  /\ \A s \in SUBSET X : f[s] \in Nat
         /\ f[{}] = 0
         /\ \A s \in SUBSET X : s # {} => OneOf(s) \in s /\ f[s] = Size[OneOf(s)] + f[s \ {OneOf(s)}]
<1> DEFINE B == {s \in SUBSET X : f[s] \notin Nat}
<1>1. f[{}] = 0 /\ \A s \in SUBSET X : s # {} => OneOf(s) \in s /\ f[s] = Size[OneOf(s)] + f[s \ {OneOf(s)}]
  BY DEF AddsOn, OneOf
<1>2. ASSUME B # {} PROVE FALSE
  <2>1. PICK s \in B : \A x \in s : s \ {x} \notin B
    BY <1>2, SmallestSet
  <2>0. s # {} /\ s \in SUBSET X
    BY <1>1
  <2>2. OneOf(s) \in s /\ f[s] = Size[OneOf(s)] + f[s \ {OneOf(s)}]
    BY <1>1, <2>0
  <2>3. Size[OneOf(s)] \in Nat /\ f[s \ {OneOf(s)}] \in Nat
    BY <2>1, <2>2, QuotaAssumption
  <2>. QED
    BY <2>1, <2>2, <2>3
<1>. QED
  BY <1>1, <1>2

\* It may take the elements in any order.
OrderFree(f, X) == \A s \in SUBSET X : \A x \in s : f[s] = Size[x] + f[s \ {x}]

LEMMA AnyOrder ==
  ASSUME NEW X \in SUBSET Uploads, IsFiniteSet(X), NEW f, AddsOn(f, SUBSET X)
  PROVE  OrderFree(f, X)
<1> DEFINE P(s) == \A x \in s : f[s] = Size[x] + f[s \ {x}]
           B == {s \in SUBSET X : ~ P(s)}
<1>0. (\A x \in X : Size[x] \in Nat) /\ \A s \in SUBSET X : f[s] \in Nat
  BY SumsAreNumbers, QuotaAssumption
<1>1. \A s \in SUBSET X : s # {} => OneOf(s) \in s /\ f[s] = Size[OneOf(s)] + f[s \ {OneOf(s)}]
  BY SumsAreNumbers
<1>2. ASSUME NEW s \in SUBSET X, \A x \in s : P(s \ {x}) PROVE P(s)
  <2>1. CASE s = {}
    BY <2>1
  <2>2. CASE s # {}
    <3> DEFINE c == OneOf(s)
    <3>1. c \in s /\ f[s] = Size[c] + f[s \ {c}] /\ P(s \ {c})
      BY <1>1, <1>2, <2>2
    <3> HIDE DEF c
    <3>2. ASSUME NEW x \in s, x # c PROVE f[s] = Size[x] + f[s \ {x}]
      <4>1. f[s \ {c}] = Size[x] + f[(s \ {c}) \ {x}]
        BY <3>1, <3>2
      <4>2. f[s \ {x}] = Size[c] + f[(s \ {x}) \ {c}]
        BY <1>2, <3>1, <3>2
      <4>3. (s \ {c}) \ {x} = (s \ {x}) \ {c}
        OBVIOUS
      <4>4. f[(s \ {x}) \ {c}] \in Nat /\ Size[x] \in Nat /\ Size[c] \in Nat
        BY <1>0, <3>1
      <4> DEFINE rest == f[(s \ {x}) \ {c}]
      <4>5. f[s] = Size[c] + (Size[x] + rest) /\ f[s \ {x}] = Size[c] + rest
        BY <3>1, <4>1, <4>2, <4>3
      <4> HIDE DEF rest
      <4>6. rest \in Nat
        BY <4>4 DEF rest
      <4>7. Size[c] + (Size[x] + rest) = Size[x] + (Size[c] + rest)
        BY <4>4, <4>6
      <4>. QED
        BY <4>5, <4>7
    <3>. QED
      BY <3>1, <3>2
  <2>. QED
    BY <2>1, <2>2
<1>3. B = {}
  <2>. SUFFICES ASSUME B # {} PROVE FALSE
    OBVIOUS
  <2>1. PICK s \in B : \A x \in s : s \ {x} \notin B
    BY SmallestSet
  <2>2. \A x \in s : P(s \ {x})
    BY <2>1
  <2>. QED
    BY <1>2, <2>1, <2>2
<1>. QED
  BY <1>3 DEF OrderFree

\* Nor does it matter which larger set they come from.
LEMMA SumsAgree ==
  ASSUME NEW X \in SUBSET Uploads, IsFiniteSet(X), NEW Y \in SUBSET X,
         NEW f, AddsOn(f, SUBSET X), NEW g, AddsOn(g, SUBSET Y)
  PROVE  g[Y] = f[Y]
<1> DEFINE B == {s \in SUBSET Y : g[s] # f[s]}
<1>1. IsFiniteSet(Y) /\ Y \in SUBSET Uploads
  BY FS_Subset
<1>2. /\ f[{}] = 0 /\ \A s \in SUBSET X : s # {} => OneOf(s) \in s /\ f[s] = Size[OneOf(s)] + f[s \ {OneOf(s)}]
      /\ g[{}] = 0 /\ \A s \in SUBSET Y : s # {} => OneOf(s) \in s /\ g[s] = Size[OneOf(s)] + g[s \ {OneOf(s)}]
  BY <1>1, SumsAreNumbers
<1>3. ASSUME B # {} PROVE FALSE
  <2>1. PICK s \in B : \A x \in s : s \ {x} \notin B
    BY <1>1, <1>3, SmallestSet
  <2>2. CASE s = {}
    BY <1>2, <2>1, <2>2
  <2>3. CASE s # {}
    <3>1. OneOf(s) \in s /\ s \ {OneOf(s)} \in SUBSET Y
      BY <1>2, <2>1, <2>3
    <3>2. g[s \ {OneOf(s)}] = f[s \ {OneOf(s)}]
      BY <2>1, <3>1
    <3>. QED
      BY <1>2, <2>1, <2>3, <3>1, <3>2
  <2>. QED
    BY <2>2, <2>3
<1>. QED
  BY <1>3

\* What one upload more adds to a sum.
LEMMA OneMore ==
  ASSUME NEW X \in SUBSET Uploads, IsFiniteSet(X), NEW u \in Uploads, u \notin X
  PROVE  SizeOf(X \cup {u}) = SizeOf(X) + Size[u]
<1> DEFINE Y == X \cup {u}
           f == CHOOSE f : AddsOn(f, SUBSET Y)
           g == CHOOSE g : AddsOn(g, SUBSET X)
<1>1. IsFiniteSet(Y) /\ Y \in SUBSET Uploads /\ X \in SUBSET Y /\ Y \ {u} = X
  BY FS_AddElement
<1>2. AddsOn(f, SUBSET Y) /\ AddsOn(g, SUBSET X)
  BY <1>1, SomethingAdds
<1>3. SizeOf(Y) = f[Y] /\ SizeOf(X) = g[X]
  BY SizeOfIs
<1> HIDE DEF f, g
<1>4. g[X] = f[X]
  BY <1>1, <1>2, SumsAgree
<1>5. f[Y] = Size[u] + f[Y \ {u}]
  <2>1. \A s \in SUBSET Y : \A x \in s : f[s] = Size[x] + f[s \ {x}]
    <3>. HIDE DEF Y
    <3>1. OrderFree(f, Y)
      BY ONLY <1>1, <1>2, AnyOrder
    <3>. QED
      BY ONLY <3>1 DEF OrderFree
  <2>2. Y \in SUBSET Y /\ u \in Y
    OBVIOUS
  <2>. QED
    BY ONLY <2>1, <2>2
<1>6. f[X] \in Nat /\ Size[u] \in Nat
  <2>1. \A s \in SUBSET Y : f[s] \in Nat
    <3>. HIDE DEF Y
    <3>. QED
      BY ONLY SMT, <1>1, <1>2, SumsAreNumbers
  <2>2. f[X] \in Nat
    BY ONLY <1>1, <2>1
  <2>3. Size[u] \in Nat
    BY QuotaAssumption
  <2>. QED
    BY <2>2, <2>3
<1>7. f[Y] = Size[u] + f[X]
  BY <1>1, <1>5
<1>8. SizeOf(Y) = SizeOf(X) + Size[u]
  BY <1>3, <1>4, <1>6, <1>7
<1>. QED
  BY <1>8

LEMMA NothingWeighsNothing == SizeOf({}) = 0
<1>1. IsFiniteSet({})
  BY FS_EmptySet
<1>2. \E f : AddsOn(f, SUBSET {})
  BY <1>1, SomethingAdds
<1>3. AddsOn(CHOOSE f : AddsOn(f, SUBSET {}), SUBSET {})
  BY <1>2
<1>. QED
  BY <1>1, <1>3, SizeOfIs, SumsAreNumbers

-----------------------------------------------------------------------------
(* What uploads are charged *)

\* Two transactions share no lock; a row that is locked stays what it was when it was
\* locked; and the id of a reservation under way is nobody else's.
LocksAlone == \A w, x \in Workers : w # x => held[w] \cap held[x] = {}

LockedRows ==
  \A w \in Workers, u \in Uploads :
    /\ PendingLock(u) \in held[w] => stage[u] = "pending"
    /\ ConfirmedLock(u) \in held[w] => Stored(u)

NewIds ==
  \A w \in Workers : job[w].op = "reserve" =>
    stage[job[w].up] = "none" /\ \A x \in Workers \ {w} : job[x].up # job[w].up

RowsLocked == LocksAlone /\ LockedRows /\ NewIds

WasCharged(s) == s \in {"confirmed", "collected"}
Charged(a, d) == {u \in Uploads : Owner[u] = a /\ ChargeDay(u) = d /\ WasCharged(stage[u])}
EverCharged == {u \in Uploads : WasCharged(stage[u])}

ChargeInv == LocksOK /\ RowsLocked /\ IsFiniteSet(EverCharged) /\ ChargedOnce

\* A step that takes no lock moves only rows that nobody has locked and nobody is about
\* to insert.
LEMMA RowsStayLocked ==
  ASSUME LocksOK, RowsLocked,
         \A x \in Workers : /\ held'[x] \subseteq held[x]
                            /\ job'[x] = Idle \/ (job'[x].op = job[x].op /\ job'[x].up = job[x].up),
         \A u \in Uploads : stage'[u] = stage[u] \/
            \A x \in Workers : /\ PendingLock(u) \notin held'[x] /\ ConfirmedLock(u) \notin held'[x]
                               /\ job'[x].op = "reserve" => job'[x].up # u
  PROVE  RowsLocked'
<1>1. LocksAlone'
  BY DEF RowsLocked, LocksAlone
<1>2. LockedRows'
  <2>. SUFFICES ASSUME NEW w \in Workers, NEW u \in Uploads
                PROVE  /\ PendingLock(u) \in held'[w] => stage'[u] = "pending"
                       /\ ConfirmedLock(u) \in held'[w] => stage'[u] \in {"confirmed", "adopted"}
    BY DEF LockedRows, Stored, PendingLock, ConfirmedLock
  <2>1. /\ PendingLock(u) \in held[w] => stage[u] = "pending"
        /\ ConfirmedLock(u) \in held[w] => stage[u] \in {"confirmed", "adopted"}
    BY DEF RowsLocked, LockedRows, Stored
  <2>. QED
    BY <2>1
<1>3. NewIds'
  <2>. SUFFICES ASSUME NEW w \in Workers, job'[w].op = "reserve"
                PROVE  stage'[job'[w].up] = "none" /\ \A x \in Workers \ {w} : job'[x].up # job'[w].up
    BY DEF NewIds
  <2>1. job'[w].op = job[w].op /\ job'[w].up = job[w].up
    BY DEF Idle
  <2>2. job[w].up \in Uploads /\ job[w].up # NoUpload
    BY <2>1, QuotaAssumption DEF LocksOK, JobOK
  <2>3. stage[job[w].up] = "none" /\ \A x \in Workers \ {w} : job[x].up # job[w].up
    BY <2>1 DEF RowsLocked, NewIds
  <2>4. \A x \in Workers \ {w} : job'[x].up # job'[w].up
    BY <2>1, <2>2, <2>3 DEF Idle
  <2>. QED
    BY <2>1, <2>2, <2>3, <2>4
<1>. QED
  BY <1>1, <1>2, <1>3 DEF RowsLocked

\* A transaction ends and moves no row, or the one that it has locked or reserved.
LEMMA EndsAlone ==
  ASSUME LocksOK, RowsLocked, NEW w \in Workers, End(w), NEW u \in Uploads,
         \/ job[w].op = "reserve" /\ job[w].up = u
         \/ PendingLock(u) \in held[w]
         \/ ConfirmedLock(u) \in held[w],
         \A x \in Uploads : x # u => stage'[x] = stage[x]
  PROVE  RowsLocked'
<1>1. job \in [Workers -> Job] /\ DOMAIN held = Workers
  BY DEF LocksOK, QuotaTypeOK
<1>2. \A x \in Workers : /\ held'[x] = IF x = w THEN {} ELSE held[x]
                         /\ job'[x] = IF x = w THEN Idle ELSE job[x]
  BY <1>1 DEF End
<1>3. ASSUME NEW x \in Workers
      PROVE  /\ PendingLock(u) \notin held'[x] /\ ConfirmedLock(u) \notin held'[x]
             /\ job'[x].op = "reserve" => job'[x].up # u
  <2>1. CASE x = w
    BY <1>2, <2>1 DEF Idle
  <2>2. CASE x # w
    <3>1. held'[x] = held[x] /\ job'[x] = job[x] /\ held[x] \cap held[w] = {}
      BY <1>2, <2>2 DEF RowsLocked, LocksAlone
    <3>2. /\ PendingLock(u) \in held[x] => stage[u] = "pending"
          /\ ConfirmedLock(u) \in held[x] => stage[u] \in {"confirmed", "adopted"}
          /\ PendingLock(u) \in held[w] => stage[u] = "pending"
          /\ ConfirmedLock(u) \in held[w] => stage[u] \in {"confirmed", "adopted"}
      BY DEF RowsLocked, LockedRows, Stored
    <3>3. /\ job[x].op = "reserve" => stage[job[x].up] = "none" /\ job[w].up # job[x].up
          /\ job[w].op = "reserve" => stage[job[w].up] = "none"
      BY <2>2 DEF RowsLocked, NewIds
    <3>. QED
      BY <3>1, <3>2, <3>3
  <2>. QED
    BY <2>1, <2>2
<1>. QED
  BY <1>2, <1>3, RowsStayLocked

\* A lock names the row of its transaction.
LEMMA OwnLocks ==
  ASSUME LocksOK, NEW w \in Workers, job[w].pc = "lock", NEW u \in Uploads
  PROVE  Wanted(w) \in {PendingLock(u), ConfirmedLock(u)} => job[w].up = u
<1>1. HoldsFirst(job[w], held[w]) /\ job[w].op \in Ops
  BY DEF LocksOK, JobOK
<1>2. Cardinality(held[w]) + 1 \in {1, 2}
  <2>1. held[w] = {} \/ held[w] = {ConfigLock} \/ held[w] = {PendingLock(job[w].up)}
    BY <1>1 DEF HoldsFirst
  <2>2. Cardinality(held[w]) \in {0, 1}
    BY <2>1, FS_EmptySet, FS_Singleton
  <2>. QED
    BY <2>2
<1>3. Wanted(w) \in {LocksOf(w)[1], LocksOf(w)[2]}
  BY <1>2 DEF Wanted
<1>4. job[w].op \in {"abort", "collect"} => held[w] = {}
  BY <1>1 DEF HoldsFirst
<1>5. job[w].op \in {"abort", "collect"} => Wanted(w) = LocksOf(w)[1]
  BY <1>4, FS_EmptySet DEF Wanted
<1> DEFINE v == job[w].up
<1>6. Wanted(w) \in {ConfigLock, PendingLock(v), ConfirmedLock(v)} \/ \E d : Wanted(w) = QuotaLock(Owner[v], d)
  <2>1. CASE job[w].op = "reserve"
    BY <1>3, <2>1 DEF LocksOf, Locks, ReserveLocks
  <2>2. CASE job[w].op = "confirm"
    BY <1>3, <2>2 DEF LocksOf, Locks, ConfirmLocks
  <2>3. CASE job[w].op = "video"
    BY <1>3, <2>3 DEF LocksOf, Locks
  <2>4. CASE job[w].op \in {"abort", "collect"}
    BY <1>5, <2>4 DEF LocksOf, Locks
  <2>. QED
    BY <1>1, <2>1, <2>2, <2>3, <2>4 DEF Ops
<1> HIDE DEF v
<1>7. \A d : {ConfigLock, QuotaLock(Owner[v], d)} \cap {PendingLock(u), ConfirmedLock(u)} = {}
  BY DEF ConfigLock, QuotaLock, PendingLock, ConfirmedLock
<1>8. \/ PendingLock(v) \in {PendingLock(u), ConfirmedLock(u)}
      \/ ConfirmedLock(v) \in {PendingLock(u), ConfirmedLock(u)}
      => v = u
  BY DEF PendingLock, ConfirmedLock
<1>. QED
  BY <1>6, <1>7, <1>8 DEF v

LEMMA RowsLockedStep == LocksOK /\ RowsLocked /\ [Next]_vars => RowsLocked'
<1>. SUFFICES ASSUME LocksOK, RowsLocked, [Next]_vars PROVE RowsLocked'
  OBVIOUS
<1>0. /\ job \in [Workers -> Job] /\ DOMAIN held = Workers /\ stage = [u \in Uploads |-> stage[u]]
      /\ \A w \in Workers : JobOK(job[w], held[w])
  BY DEF LocksOK, QuotaTypeOK
\* A transaction goes on, or ends, without a new lock and without a write.
<1>1. ASSUME NEW w \in Workers, stage' = stage,
             End(w) \/ (held' = held /\ \E pc : job' = [job EXCEPT ![w] = [job[w] EXCEPT !.pc = pc]])
      PROVE  RowsLocked'
  <2>1. ASSUME NEW x \in Workers
        PROVE  /\ held'[x] \subseteq held[x]
               /\ job'[x] = Idle \/ (job'[x].op = job[x].op /\ job'[x].up = job[x].up)
    <3>1. CASE End(w)
      BY <1>0, <3>1 DEF End
    <3>2. CASE held' = held /\ \E pc : job' = [job EXCEPT ![w] = [job[w] EXCEPT !.pc = pc]]
      <4>1. PICK pc : job' = [job EXCEPT ![w] = [job[w] EXCEPT !.pc = pc]]
        BY <3>2
      <4>2. job[w] \in Job
        BY <1>0
      <4>. QED
        BY <1>0, <3>2, <4>1, <4>2 DEF Job
    <3>. QED
      BY <1>1, <3>1, <3>2
  <2>. QED
    BY <1>1, <2>1, RowsStayLocked
<1>2. ASSUME NEW w \in Workers, NEW u \in Uploads, NEW op \in Ops, Begin(w, op, u) \/ BeginVideo(w, u) PROVE RowsLocked'
  <2>1. PICK o \in Ops : /\ job' = [job EXCEPT ![w] = Started(o, u)]
                         /\ o = "reserve" => stage[u] = "none" /\ \A x \in Workers : job[x].up # u
                         /\ o # "reserve" => stage[u] # "none"
    BY <1>2 DEF Begin, BeginVideo, Ops, Stored
  <2>2. stage' = stage /\ held' = held
    BY <1>2 DEF Begin, BeginVideo, rows
  <2>3. LocksAlone' /\ LockedRows'
    BY <2>2 DEF RowsLocked, LocksAlone, LockedRows, Stored, PendingLock, ConfirmedLock
  <2>4. \A x \in Workers : job'[x] = IF x = w THEN Started(o, u) ELSE job[x]
    BY <1>0, <2>1
  <2>5. Started(o, u).op = o /\ Started(o, u).up = u
    BY DEF Started
  <2>6. NewIds'
    <3>. SUFFICES ASSUME NEW y \in Workers, job'[y].op = "reserve"
                  PROVE  stage[job'[y].up] = "none" /\ \A x \in Workers \ {y} : job'[x].up # job'[y].up
      BY <2>2 DEF NewIds
    <3>1. CASE y = w
      BY <2>1, <2>4, <2>5, <3>1
    <3>2. CASE y # w
      <4>1. job'[y] = job[y] /\ stage[job[y].up] = "none" /\ \A x \in Workers \ {y} : job[x].up # job[y].up
        BY <2>4, <3>2 DEF RowsLocked, NewIds
      <4>2. job[y].up \in Uploads
        BY <1>0, <4>1 DEF JobOK
      <4>3. job[y].up # u
        BY <2>1, <4>1
      <4>. QED
        BY <2>4, <2>5, <4>1, <4>3
    <3>. QED
      BY <3>1, <3>2
  <2>. QED
    BY <2>3, <2>6 DEF RowsLocked
<1>3. ASSUME NEW w \in Workers, Lock(w) PROVE RowsLocked'
  <2>1. stage' = stage
    BY <1>3 DEF Lock, Reading, rows
  <2>2. CASE End(w)
    BY <1>1, <2>1, <2>2
  <2>3. CASE /\ RowPresent(Wanted(w), job[w].up)
             /\ held' = [held EXCEPT ![w] = held[w] \cup {Wanted(w)}] /\ job' = [job EXCEPT ![w] = Locked(w)]
    <3>1. \A x \in Workers : held'[x] = IF x = w THEN held[w] \cup {Wanted(w)} ELSE held[x]
      BY <1>0, <2>3
    <3>2. \A x \in Workers : Wanted(w) \notin held[x]
      BY <1>3 DEF Lock, Free
    <3> DEFINE l == Wanted(w)
    <3>3. \A u \in Uploads : l \in {PendingLock(u), ConfirmedLock(u)} => job[w].up = u
      BY <1>3, OwnLocks DEF Lock
    <3>4. l = PendingLock(job[w].up) => stage[job[w].up] = "pending"
      BY <2>3 DEF RowPresent
    <3>5. l = ConfirmedLock(job[w].up) => stage[job[w].up] \in {"confirmed", "adopted"}
      BY <2>3 DEF RowPresent, Stored
    <3> HIDE DEF l
    <3>6. LocksAlone'
      BY <3>1, <3>2 DEF RowsLocked, LocksAlone, l
    <3>7. LockedRows'
      <4>. SUFFICES ASSUME NEW x \in Workers, NEW u \in Uploads
                    PROVE  /\ PendingLock(u) \in held'[x] => stage[u] = "pending"
                           /\ ConfirmedLock(u) \in held'[x] => stage[u] \in {"confirmed", "adopted"}
        BY <2>1 DEF LockedRows, Stored, PendingLock, ConfirmedLock
      <4>1. /\ PendingLock(u) \in held[x] => stage[u] = "pending"
            /\ ConfirmedLock(u) \in held[x] => stage[u] \in {"confirmed", "adopted"}
        BY DEF RowsLocked, LockedRows, Stored
      <4>2. held'[x] = held[x] \/ held'[x] = held[x] \cup {l}
        BY <3>1 DEF l
      <4>. QED
        BY <3>3, <3>4, <3>5, <4>1, <4>2
    <3>8. \A x \in Workers : job'[x].op = job[x].op /\ job'[x].up = job[x].up
      BY <1>0, <2>3 DEF Locked
    <3>9. NewIds'
      BY <2>1, <3>8 DEF RowsLocked, NewIds
    <3>. QED
      BY <3>6, <3>7, <3>9 DEF RowsLocked
  <2>. QED
    BY <1>3, <2>2, <2>3 DEF Lock
<1>4. ASSUME NEW w \in Workers, ReserveRead(w) PROVE RowsLocked'
  <2>1. stage' = stage /\ held' = held /\ job[w].op = "reserve"
    BY <1>4 DEF ReserveRead, AtPc, Reading, rows
  <2>2. \A x \in Workers : job'[x].op = job[x].op /\ job'[x].up = job[x].up
    BY <1>0, <1>4, <2>1 DEF ReserveRead
  <2>. QED
    BY <2>1, <2>2, RowsStayLocked
<1>5. ASSUME NEW w \in Workers, ReserveDaily(w) \/ UserFits(w) \/ InstanceFits(w) PROVE RowsLocked'
  <2>1. stage' = stage
    BY <1>5 DEF ReserveDaily, UserFits, InstanceFits, Reading, rows
  <2>2. End(w) \/ (held' = held /\ \E pc : job' = [job EXCEPT ![w] = [job[w] EXCEPT !.pc = pc]])
    <3>1. End(w) \/ (held' = held /\ \E pc : Goto(w, pc))
      BY <1>5 DEF ReserveDaily, UserFits, InstanceFits
    <3>. QED
      BY <3>1, Zenon DEF Goto
  <2>. QED
    BY <1>1, <2>1, <2>2
\* What a transaction that commits, or rejects, has locked.
<1>6. ASSUME NEW w \in Workers,
             CommitReserve(w) \/ CommitVideo(w) \/ CommitConfirm(w) \/ RejectConfirm(w) \/ CommitAbort(w) \/ CommitCollect(w)
      PROVE  RowsLocked'
  <2> DEFINE u == job[w].up
  <2>1. End(w) /\ job[w].pc # "idle"
    BY <1>6 DEF CommitReserve, CommitVideo, CommitConfirm, RejectConfirm, CommitAbort, CommitCollect, AtPc
  <2>2. u \in Uploads
    BY <1>0, <2>1 DEF JobOK
  <2>3. \/ job[w].op = "reserve"
        \/ PendingLock(u) \in held[w]
        \/ ConfirmedLock(u) \in held[w]
    <3>1. CASE RejectConfirm(w)
      BY <3>1 DEF RejectConfirm
    <3>2. CASE job[w].pc = "commit"
      BY <1>0, <3>2 DEF JobOK, HoldsAll, Ops
    <3>. QED
      BY <1>6, <3>1, <3>2 DEF CommitReserve, CommitVideo, CommitConfirm, CommitAbort, CommitCollect, AtPc
  <2>4. stage' = stage \/ \E v : stage' = [stage EXCEPT ![u] = v]
    BY <1>6 DEF CommitReserve, CommitVideo, CommitConfirm, RejectConfirm, CommitAbort, CommitCollect
  <2>5. \A x \in Uploads : x # u => stage'[x] = stage[x]
    BY <1>0, <2>4
  <2>. QED
    BY <2>1, <2>2, <2>3, <2>5, EndsAlone
<1>7. ASSUME NEW w \in Workers, Rollback(w) PROVE RowsLocked'
  BY <1>1, <1>7 DEF Rollback, Reading, rows
<1>8. ASSUME NEW u \in Uploads, ReleaseUnissued(u) \/ Adopt(u) PROVE RowsLocked'
  <2>1. /\ held' = held /\ job' = job /\ stage[u] \in {"pending", "gone"}
        /\ stage[u] = "pending" => \A x \in Workers : PendingLock(u) \notin held[x]
        /\ \A x \in Uploads : x # u => stage'[x] = stage[x]
    BY <1>0, <1>8 DEF ReleaseUnissued, Adopt, Free
  <2>2. ASSUME NEW x \in Workers
        PROVE  PendingLock(u) \notin held[x] /\ ConfirmedLock(u) \notin held[x] /\ (job[x].op = "reserve" => job[x].up # u)
    <3>1. /\ PendingLock(u) \in held[x] => stage[u] = "pending"
          /\ ConfirmedLock(u) \in held[x] => stage[u] \in {"confirmed", "adopted"}
          /\ job[x].op = "reserve" => stage[job[x].up] = "none"
      BY DEF RowsLocked, LockedRows, NewIds, Stored
    <3>. QED
      BY <2>1, <3>1
  <2>. QED
    BY <2>1, <2>2, RowsStayLocked
<1>9. CASE (\E l \in Limits : ChangeLimits(l)) \/ InventoryDone \/ Midnight \/ UNCHANGED vars
  <2>1. stage' = stage /\ held' = held /\ job' = job
    BY <1>9 DEF ChangeLimits, InventoryDone, Midnight, vars, rows
  <2>. QED
    BY <2>1, RowsStayLocked
<1>10. CASE Restart
  <2>1. stage' = stage /\ \A x \in Workers : held'[x] = {} /\ job'[x] = Idle
    BY <1>10 DEF Restart, rows
  <2>. QED
    BY <2>1, RowsStayLocked
<1>11. ASSUME NEW w \in Workers, Transaction(w) PROVE RowsLocked'
  BY <1>2, <1>3, <1>4, <1>5, <1>6, <1>7, <1>11 DEF Transaction, Ops
<1>. QED
  BY <1>8, <1>9, <1>10, <1>11 DEF Next

\* A day's counter is the sum of what was charged to it.
Accounted == \A a \in Users, d \in Days : quota[a][d] = SizeOf(Charged(a, d))

LEMMA ChargesAreSums == ChargedOnce <=> Accounted
BY Zenon DEF ChargedOnce, Accounted, SizeOf, Charged, WasCharged

LEMMA ChargesInit == Init => IsFiniteSet(EverCharged) /\ ChargedOnce
<1>. SUFFICES ASSUME Init PROVE IsFiniteSet(EverCharged) /\ ChargedOnce
  OBVIOUS
<1>1. \A u \in Uploads : ~WasCharged(stage[u])
  BY DEF Init, WasCharged
<1>2. EverCharged = {} /\ \A a \in Users, d \in Days : Charged(a, d) = {}
  BY <1>1 DEF EverCharged, Charged
<1>3. \A a \in Users, d \in Days : quota[a][d] = 0
  BY DEF Init
<1>. QED
  BY <1>2, <1>3, FS_EmptySet, NothingWeighsNothing, ChargesAreSums DEF Accounted

\* A step charges nothing and leaves what was charged where it was, or it confirms one
\* upload that was pending.
ChargesNothing ==
  /\ quota' = quota
  /\ \A u \in Uploads : /\ WasCharged(stage'[u]) <=> WasCharged(stage[u])
                        /\ WasCharged(stage[u]) => quotaDate'[u] = quotaDate[u]

Charges(u) ==
  /\ stage[u] = "pending"
  /\ \A x \in Uploads : stage'[x] = IF x = u THEN "confirmed" ELSE stage[x]
  /\ quotaDate' = quotaDate
  /\ \A a \in Users, d \in Days :
       quota'[a][d] = IF a = Owner[u] /\ d = ChargeDay(u) THEN quota[a][d] + Size[u] ELSE quota[a][d]

LEMMA ChargesOneAtMost ==
  LocksOK /\ RowsLocked /\ [Next]_vars => ChargesNothing \/ \E u \in Uploads : Charges(u)
<1>. SUFFICES ASSUME LocksOK, RowsLocked, [Next]_vars PROVE ChargesNothing \/ \E u \in Uploads : Charges(u)
  OBVIOUS
<1>0. /\ job \in [Workers -> Job] /\ DOMAIN held = Workers
      /\ stage = [u \in Uploads |-> stage[u]] /\ quotaDate = [u \in Uploads |-> quotaDate[u]]
      /\ quota \in [Users -> [Days -> Nat]] /\ quotaDate \in [Uploads -> Days \cup {NoDay}]
      /\ \A w \in Workers : JobOK(job[w], held[w])
      /\ \A w \in Workers, u \in Uploads : /\ PendingLock(u) \in held[w] => stage[u] = "pending"
                                           /\ ConfirmedLock(u) \in held[w] => stage[u] \in {"confirmed", "adopted"}
      /\ \A w \in Workers : job[w].op = "reserve" => stage[job[w].up] = "none"
  BY DEF LocksOK, QuotaTypeOK, RowsLocked, LockedRows, NewIds, Stored
<1>1. ASSUME UNCHANGED <<stage, quotaDate, quota>> PROVE ChargesNothing
  BY <1>1 DEF ChargesNothing
<1>2. ASSUME NEW u \in Uploads, NEW v, ~WasCharged(stage[u]), ~WasCharged(v),
             quota' = quota, stage' = [stage EXCEPT ![u] = v],
             \A x \in Uploads : x # u => quotaDate'[x] = quotaDate[x]
      PROVE  ChargesNothing
  <2>1. \A x \in Uploads : stage'[x] = IF x = u THEN v ELSE stage[x]
    BY <1>0, <1>2
  <2>. QED
    BY <1>2, <2>1 DEF ChargesNothing
<1>3. ASSUME NEW w \in Workers, job[w].pc # "idle" PROVE job[w].up \in Uploads
  BY <1>0, <1>3 DEF JobOK
<1>4. ASSUME NEW w \in Workers, CommitReserve(w) PROVE ChargesNothing
  <2>1. job[w].op = "reserve" /\ job[w].pc # "idle" /\ stage[job[w].up] = "none"
    BY <1>0, <1>4 DEF CommitReserve, AtPc
  <2>2. \A x \in Uploads : x # job[w].up => quotaDate'[x] = quotaDate[x]
    BY <1>0, <1>4 DEF CommitReserve
  <2>3. stage' = [stage EXCEPT ![job[w].up] = "pending"] /\ quota' = quota
    BY <1>4 DEF CommitReserve
  <2>4. job[w].up \in Uploads
    BY <1>3, <2>1
  <2>5. ~WasCharged(stage[job[w].up]) /\ ~WasCharged("pending")
    BY <2>1 DEF WasCharged
  <2>. QED
    BY <1>2, <2>2, <2>3, <2>4, <2>5
<1>5. ASSUME NEW w \in Workers, RejectConfirm(w) \/ CommitAbort(w) PROVE ChargesNothing
  <2>1. job[w].pc # "idle" /\ PendingLock(job[w].up) \in held[w]
    <3>1. CASE RejectConfirm(w)
      BY <3>1 DEF RejectConfirm, AtPc
    <3>2. CASE CommitAbort(w)
      BY <1>0, <3>2 DEF CommitAbort, AtPc, JobOK, HoldsAll
    <3>. QED
      BY <1>5, <3>1, <3>2
  <2>2. job[w].up \in Uploads /\ stage[job[w].up] = "pending"
    BY <1>0, <1>3, <2>1
  <2>3. stage' = [stage EXCEPT ![job[w].up] = "gone"] /\ quota' = quota /\ quotaDate' = quotaDate
    BY <1>5 DEF RejectConfirm, CommitAbort
  <2>4. ~WasCharged("pending") /\ ~WasCharged("gone")
    BY DEF WasCharged
  <2>. QED
    BY <1>2, <2>2, <2>3, <2>4
<1>6. ASSUME NEW w \in Workers, CommitConfirm(w) PROVE ChargesNothing \/ Charges(job[w].up)
  <2> DEFINE u == job[w].up
             a == Owner[u]
             d == ChargeDay(u)
  <2>1. job[w].pc # "idle" /\ PendingLock(u) \in held[w]
    BY <1>0, <1>6 DEF CommitConfirm, AtPc, JobOK, HoldsAll
  <2>2. u \in Uploads /\ stage[u] = "pending"
    BY <1>0, <1>3, <2>1
  <2>3. a \in Users /\ d \in Days
    BY <1>0, <2>2, QuotaAssumption DEF ChargeDay, Days, NoDay
  <2>4. CASE stage' = [stage EXCEPT ![u] = "gone"] /\ quota' = quota
    <3>1. quotaDate' = quotaDate
      BY <1>6 DEF CommitConfirm
    <3>2. ~WasCharged(stage[u]) /\ ~WasCharged("gone")
      BY <2>2 DEF WasCharged
    <3>. HIDE DEF u
    <3>. QED
      BY <1>2, <2>2, <2>4, <3>1, <3>2
  <2>5. CASE /\ stage' = [stage EXCEPT ![u] = "confirmed"]
             /\ quota' = [quota EXCEPT ![a] = [quota[a] EXCEPT ![d] = quota[a][d] + Size[u]]]
    <3>1. \A x \in Uploads : stage'[x] = IF x = u THEN "confirmed" ELSE stage[x]
      BY <1>0, <2>5
    <3>2. quotaDate' = quotaDate
      BY <1>6 DEF CommitConfirm
    <3>3. ASSUME NEW b \in Users, NEW e \in Days
          PROVE  quota'[b][e] = IF b = a /\ e = d THEN quota[b][e] + Size[u] ELSE quota[b][e]
      <4> DEFINE new == quota[a][d] + Size[u]
      <4>1. quota' = [quota EXCEPT ![a] = [quota[a] EXCEPT ![d] = new]]
        BY <2>5
      <4>2. quota[a] \in [Days -> Nat] /\ quota[b] \in [Days -> Nat] /\ quota \in [Users -> [Days -> Nat]]
        BY <1>0, <2>3
      <4>3. quota[a][d] + Size[u] = new
        OBVIOUS
      <4> HIDE DEF new, a, d, u
      <4>4. quota'[b] = IF b = a THEN [quota[a] EXCEPT ![d] = new] ELSE quota[b]
        BY <2>3, <4>1, <4>2
      <4>5. [quota[a] EXCEPT ![d] = new][e] = IF e = d THEN new ELSE quota[a][e]
        BY <4>2
      <4>. QED
        BY <4>3, <4>4, <4>5
    <3>. QED
      BY <2>2, <3>1, <3>2, <3>3 DEF Charges
  <2>. QED
    BY <1>6, <2>4, <2>5 DEF CommitConfirm
<1>7. ASSUME NEW w \in Workers, CommitCollect(w) PROVE ChargesNothing
  <2> DEFINE u == job[w].up
  <2>1. job[w].pc # "idle" /\ ConfirmedLock(u) \in held[w]
    BY <1>0, <1>7 DEF CommitCollect, AtPc, JobOK, HoldsAll
  <2>2. u \in Uploads /\ stage[u] \in {"confirmed", "adopted"}
    BY <1>0, <1>3, <2>1
  <2>3. /\ stage' = [stage EXCEPT ![u] = IF stage[u] = "confirmed" THEN "collected" ELSE "gone"]
        /\ quota' = quota /\ quotaDate' = quotaDate
    BY <1>7 DEF CommitCollect
  <2>4. \A x \in Uploads : stage'[x] = IF x = u THEN IF stage[u] = "confirmed" THEN "collected" ELSE "gone" ELSE stage[x]
    BY <1>0, <2>3
  <2>. QED
    BY <2>2, <2>3, <2>4 DEF ChargesNothing, WasCharged
<1>8. ASSUME NEW u \in Uploads, ReleaseUnissued(u) \/ Adopt(u) PROVE ChargesNothing
  <2>1. /\ stage[u] \in {"pending", "gone"} /\ quota' = quota /\ quotaDate' = quotaDate
        /\ \E v \in {"gone", "adopted"} : stage' = [stage EXCEPT ![u] = v]
    BY <1>8 DEF ReleaseUnissued, Adopt
  <2>. QED
    BY <1>2, <2>1 DEF WasCharged
<1>9. ASSUME NEW w \in Workers, Transaction(w)
      PROVE  \/ CommitReserve(w) \/ RejectConfirm(w) \/ CommitConfirm(w) \/ CommitAbort(w) \/ CommitCollect(w)
             \/ UNCHANGED <<stage, quotaDate, quota>>
  BY <1>9 DEF Transaction, BeginVideo, Begin, Lock, ReserveRead, ReserveDaily, UserFits, InstanceFits,
              CommitVideo, Rollback, Reading, rows
<1>10. CASE (\E l \in Limits : ChangeLimits(l)) \/ InventoryDone \/ Midnight \/ Restart \/ UNCHANGED vars
  BY <1>1, <1>10 DEF ChangeLimits, InventoryDone, Midnight, Restart, vars, rows
<1>11. ASSUME NEW w \in Workers, Transaction(w) PROVE ChargesNothing \/ \E u \in Uploads : Charges(u)
  <2>1. CASE CommitConfirm(w)
    <3>1. job[w].up \in Uploads
      BY <1>3, <2>1 DEF CommitConfirm, AtPc
    <3>. QED
      BY <1>6, <2>1, <3>1
  <2>. QED
    BY <1>1, <1>4, <1>5, <1>7, <1>9, <1>11, <2>1
<1>. QED
  BY <1>8, <1>10, <1>11 DEF Next

LEMMA ChargesStep == ChargeInv /\ [Next]_vars => IsFiniteSet(EverCharged)' /\ ChargedOnce'
<1>. SUFFICES ASSUME ChargeInv, [Next]_vars PROVE IsFiniteSet(EverCharged)' /\ ChargedOnce'
  OBVIOUS
<1>1. \A a \in Users, d \in Days : quota[a][d] = SizeOf(Charged(a, d))
  BY ChargesAreSums DEF ChargeInv, Accounted
<1>2. (\A a \in Users, d \in Days : quota'[a][d] = SizeOf(Charged(a, d)')) => ChargedOnce'
  <2>1. ChargedOnce' <=> Accounted'
    BY ChargesAreSums, PTL
  <2>. QED
    BY <2>1 DEF Accounted
<1>3. CASE ChargesNothing
  <2>1. EverCharged' = EverCharged
    BY <1>3 DEF ChargesNothing, EverCharged
  <2>2. \A a \in Users, d \in Days : Charged(a, d)' = Charged(a, d)
    BY <1>3 DEF ChargesNothing, Charged, ChargeDay
  <2>3. quota' = quota
    BY <1>3 DEF ChargesNothing
  <2>. QED
    BY <1>1, <1>2, <2>1, <2>2, <2>3 DEF ChargeInv
<1>4. ASSUME NEW u \in Uploads, Charges(u) PROVE IsFiniteSet(EverCharged)' /\ ChargedOnce'
  <2>1. EverCharged' = EverCharged \cup {u} /\ u \notin EverCharged
    BY <1>4 DEF Charges, EverCharged, WasCharged
  <2>2. IsFiniteSet(EverCharged')
    BY <2>1, FS_AddElement DEF ChargeInv
  <2>3. ASSUME NEW a \in Users, NEW d \in Days PROVE quota'[a][d] = SizeOf(Charged(a, d)')
    <3> DEFINE X == Charged(a, d)
    <3>1. X \in SUBSET Uploads /\ X \subseteq EverCharged /\ u \notin X
      BY <2>1 DEF Charged, EverCharged
    <3>2. IsFiniteSet(X)
      BY <3>1, FS_Subset DEF ChargeInv
    <3>3. ChargeDay(u)' = ChargeDay(u) /\ \A x \in Uploads : ChargeDay(x)' = ChargeDay(x)
      BY <1>4 DEF Charges, ChargeDay
    <3>4. CASE a = Owner[u] /\ d = ChargeDay(u)
      <4>1. X' = X \cup {u}
        BY <1>4, <3>3, <3>4 DEF Charges, Charged, WasCharged
      <4>2. SizeOf(X \cup {u}) = SizeOf(X) + Size[u]
        <5> HIDE DEF X
        <5>. QED
          BY <3>1, <3>2, OneMore
      <4>3. quota'[a][d] = quota[a][d] + Size[u]
        BY <1>4, <3>4 DEF Charges
      <4>. QED
        BY <1>1, <4>1, <4>2, <4>3
    <3>5. CASE ~(a = Owner[u] /\ d = ChargeDay(u))
      <4>1. X' = X
        BY <1>4, <3>3, <3>5 DEF Charges, Charged, WasCharged
      <4>2. quota'[a][d] = quota[a][d]
        BY <1>4, <3>5 DEF Charges
      <4>. QED
        BY <1>1, <4>1, <4>2
    <3>. QED
      BY <3>4, <3>5
  <2>. QED
    BY <1>2, <2>2, <2>3
<1>. QED
  BY <1>3, <1>4, ChargesOneAtMost DEF ChargeInv

\* An upload is charged to its day when it is confirmed and never again, whatever other
\* confirmations, aborts, sweeps and imports of it race (UploadEndpoints.cs:270, where
\* ConfirmUpload locks the pending row before it charges), for any users, uploads,
\* sizes, limits, days and transactions at once.
THEOREM AlwaysChargedOnce == Spec => []ChargedOnce
<1>1. Init => ChargeInv
  <2>1. Init => RowsLocked
    BY DEF Init, RowsLocked, LocksAlone, LockedRows, NewIds, Idle
  <2>. QED
    BY <2>1, LocksOKInit, ChargesInit DEF ChargeInv
<1>2. ChargeInv /\ [Next]_vars => ChargeInv'
  BY LocksOKStep, RowsLockedStep, ChargesStep DEF ChargeInv
<1>3. ChargeInv => ChargedOnce
  BY DEF ChargeInv
<1>. QED
  BY <1>1, <1>2, <1>3, PTL DEF Spec
=============================================================================
