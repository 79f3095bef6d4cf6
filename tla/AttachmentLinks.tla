--------------------------- MODULE AttachmentLinks ---------------------------
(***************************************************************************)
(* The links attachments are shown with.  core-api signs a link that works *)
(* for Life; the client keeps it in a cache that all messages share, asks  *)
(* for many at once and one by one for those the batch left out, renews    *)
(* the session token on the way, and gives up showing a link that takes    *)
(* too long, while the request itself goes on.  Timers fire on time, and   *)
(* the body of an answer comes with its headers.                           *)
(***************************************************************************)
EXTENDS Naturals, FiniteSets

CONSTANTS
  Keys,     \* storage keys
  Rows,     \* messages with attachments
  Accounts, FirstAccount, NoOne, \* who was signed in first
  Life,           \* how long a signed link works
  EarlyRefresh,   \* DOWNLOAD_CACHE_EARLY_REFRESH_MS
  RequestTimeout, \* AUTH_REQUEST_TIMEOUT_MS
  ResolveTimeout, \* URL_RESOLVE_TIMEOUT_MS
  Recheck,        \* BATCH_ENDPOINT_RECHECK_MS
  Ids,            \* bound: requests under way at once
  MaxAsks,        \* bound: requests in all
  MaxUpsets,      \* bound: sign-outs, refusals, failures and expiries of the session
  LinksEnd        \* bound: the end of time

\* A cached link outlives its own transit and the longest wait of a row; a new one
\* is good enough to be cached.
ASSUME LinkAssumption ==
  /\ FirstAccount \in Accounts
  /\ {Life, EarlyRefresh, RequestTimeout, ResolveTimeout, Recheck, MaxAsks, MaxUpsets, LinksEnd} \subseteq Nat
  /\ EarlyRefresh >= RequestTimeout + ResolveTimeout
  /\ Life > EarlyRefresh

VARIABLES
  now,
  account, \* who is signed in
  session, \* the stored session token, if any: whose it is, and whether it expires soon
  renewal, \* renewSessionPromise, if any
  cache,   \* downloadUrlCache
  batch,   \* batchEndpointStatus, and until when a missing endpoint is not tried again
  inflight, \* inflightDownloadRequests: the request of a key asked for by itself
  resolver, \* useAttachmentResolver of each message
  request, \* getSignedDownloadUrls under way
  asks, upsets

linkVars == <<now, account, session, renewal, cache, batch, inflight, resolver, request, asks, upsets>>

\* A hook that was just mounted for the keys K.
HookOf(K) == [keys |-> K, res |-> [k \in Keys |-> "none"], busy |-> {}]

Unmounted == HookOf({})

\* keys were asked for at asked by a row that waits for them (by), have are the links
\* found or fetched; calls are the HTTP requests not answered yet.
NoRequest == [leg |-> "none", by |-> {}, keys |-> {}, asked |-> 0, have |-> {}, fetched |-> {}, calls |-> {}]

LinksInit ==
  /\ now = 0 /\ account = FirstAccount
  /\ session = {[of |-> account, fresh |-> TRUE]} /\ renewal = {}
  /\ cache = {} /\ batch = [status |-> "unknown", until |-> 0]
  /\ inflight = [k \in Keys |-> {}]
  /\ resolver = [r \in Rows |-> Unmounted]
  /\ request = [i \in Ids |-> NoRequest] /\ asks = 0 /\ upsets = 0

Upset == upsets < MaxUpsets /\ upsets' = upsets + 1

-----------------------------------------------------------------------------
(* uploadSession.ts *)

\* ensureActiveSessionToken: the stored token, or a renewal all callers share.
Call(K) ==
  IF \E s \in session : s.fresh
  THEN [keys |-> K, step |-> "ask", sent |-> now, of |-> (CHOOSE s \in session : TRUE).of, again |-> FALSE]
  ELSE [keys |-> K, step |-> "renew", sent |-> now, of |-> account, again |-> FALSE]

CanCall == (\E s \in session : s.fresh) \/ renewal # {} \/ account # NoOne

RenewalFor(calls) ==
  IF renewal = {} /\ \E c \in calls : c.step = "renew" THEN {[of |-> account, sent |-> now]} ELSE renewal

SessionAges ==
  /\ Upset
  /\ \E s \in session : s.fresh
  /\ session' = {[of |-> s.of, fresh |-> FALSE] : s \in session}
  /\ UNCHANGED <<now, account, renewal, cache, batch, inflight, resolver, request, asks>>

\* A request goes on with what it got and with the calls left.
Goes(q, leg, got, calls) ==
  [leg |-> leg, by |-> q.by, keys |-> q.keys, asked |-> q.asked, have |-> q.have \cup got,
   fetched |-> q.fetched \cup got, calls |-> calls]

Renewing(q) == {c \in q.calls : c.step = "renew"}

\* The call goes out with the renewed token.
AskedWith(c, token) == [keys |-> c.keys, step |-> "ask", sent |-> now, of |-> token.of, again |-> c.again]

\* The answer is stored whoever is signed in by then.
RenewalAnswers ==
  \E n \in renewal :
    /\ renewal' = {}
    /\ session' = {[of |-> n.of, fresh |-> TRUE]}
    /\ request' = [i \in Ids |-> Goes(request[i], request[i].leg, {},
         (request[i].calls \ Renewing(request[i])) \cup {AskedWith(c, n) : c \in Renewing(request[i])})]
    /\ UNCHANGED <<now, account, cache, batch, inflight, resolver, upsets, asks>>

\* A batch that fails is an error for all its keys, a single call for its own.
Failed(q, calls) ==
  IF calls = {} THEN q
  ELSE IF q.leg = "batch" THEN Goes(q, "failed", {}, {}) ELSE Goes(q, q.leg, {}, q.calls \ calls)

\* No more often than there are requests, so no upset is counted.
RenewalFails ==
  /\ renewal # {}
  /\ renewal' = {}
  /\ request' = [i \in Ids |-> Failed(request[i], Renewing(request[i]))]
  /\ UNCHANGED <<now, account, session, cache, batch, inflight, resolver, upsets, asks>>

-----------------------------------------------------------------------------
(* downloadUrls.ts *)

\* Mutant: a link is used until it expires.
UsableToTheEnd(l) == l.until > now

Usable(l) == l.until > now + EarlyRefresh

Found(K, links) == {l \in links : l.key \in K /\ Usable(l)}

KeysOf(links) == {l.key : l \in links}

CanProbeBatchEndpoint == batch.status # "unavailable" \/ now >= batch.until

Singles(K) == IF CanCall THEN {Call({k}) : k \in K} ELSE {}

\* getSignedDownloadUrls, up to its first await.
Asked(K, by, links) ==
  LET missing == K \ KeysOf(Found(K, links))
      q(leg, calls) == [leg |-> leg, by |-> by, keys |-> K, asked |-> now, have |-> Found(K, links),
                        fetched |-> {}, calls |-> calls]
  IN IF missing = {} THEN q("singles", {})
     ELSE IF CanProbeBatchEndpoint THEN q("batch", {Call(missing)})
     ELSE q("singles", Singles(missing))

\* The requests are bounded, so a step that needs one waits for a free id.
Ask(K, by, links) ==
  \E i \in Ids :
    /\ request[i].leg = "none"
    /\ asks < MaxAsks /\ asks' = asks + 1
    /\ request' = [request EXCEPT ![i] = Asked(K, by, links)]
    /\ renewal' = RenewalFor(Asked(K, by, links).calls)

\* core-api signed the link at some time on the way; the client dates it on arrival.
Signed(c, K, signing) == {[key |-> k, until |-> now + Life, truth |-> signing + Life, of |-> c.of] : k \in K}

BatchAnswers(i) ==
  /\ request[i].leg = "batch"
  /\ \E c \in request[i].calls : \E granted \in SUBSET c.keys, signing \in c.sent .. now :
       LET singles == Singles(c.keys \ granted)
       IN /\ c.step = "ask"
          /\ request' = [request EXCEPT ![i] = Goes(request[i], "singles", Signed(c, granted, signing), singles)]
          /\ renewal' = RenewalFor(singles)
  /\ batch' = [status |-> "available", until |-> 0]
  /\ UNCHANGED <<now, account, session, cache, inflight, resolver, upsets, asks>>

\* A core-api without the endpoint: every key by itself, and no new try for a while.
BatchIsMissing(i) ==
  /\ Upset
  /\ request[i].leg = "batch"
  /\ \E c \in request[i].calls :
       /\ c.step = "ask"
       /\ request' = [request EXCEPT ![i] = Goes(request[i], "singles", {}, Singles(c.keys))]
       /\ renewal' = RenewalFor(Singles(c.keys))
  /\ batch' = [status |-> "unavailable", until |-> now + Recheck]
  /\ UNCHANGED <<now, account, session, cache, inflight, resolver, asks>>

SingleAnswers(i) ==
  /\ request[i].leg = "singles"
  /\ \E c \in request[i].calls : \E signing \in c.sent .. now :
       /\ c.step = "ask"
       /\ request' = [request EXCEPT ![i] =
            Goes(request[i], "singles", Signed(c, c.keys, signing), request[i].calls \ {c})]
  /\ UNCHANGED <<now, account, session, renewal, cache, batch, inflight, resolver, upsets, asks>>

CallFails(i) ==
  /\ Upset
  /\ \E c \in request[i].calls :
       c.step = "ask" /\ request' = [request EXCEPT ![i] = Failed(request[i], {c})]
  /\ UNCHANGED <<now, account, session, renewal, cache, batch, inflight, resolver, asks>>

\* withSessionTokenRetry: a refused session token is renewed, once.
SessionRefused(i) ==
  /\ Upset
  /\ renewal # {} \/ account # NoOne
  /\ \E c \in request[i].calls :
       LET again == [keys |-> c.keys, step |-> "renew", sent |-> now, of |-> c.of, again |-> TRUE]
       IN /\ c.step = "ask" /\ ~c.again
          /\ request' = [request EXCEPT ![i] =
               Goes(request[i], request[i].leg, {}, (request[i].calls \ {c}) \cup {again})]
          /\ renewal' = RenewalFor({again})
  /\ UNCHANGED <<now, account, session, cache, batch, inflight, resolver, asks>>

\* Expired links go when new ones arrive.
CacheWith(q) ==
  IF q.calls # {} \/ q.leg = "failed" \/ q.keys \subseteq KeysOf(q.have \ q.fetched) THEN cache
  ELSE {l \in cache : l.until > q.asked /\ l.key \notin KeysOf(q.fetched)} \cup q.fetched

-----------------------------------------------------------------------------
(* useAttachmentResolver.ts *)

\* The effect behind every render.
ToResolve(h) == {k \in Keys : k \in h.keys \ h.busy /\ h.res[k] \in {"none", "loading"}}

Rendered(r, h, links) ==
  /\ resolver' = [resolver EXCEPT ![r] = [h EXCEPT !.busy = @ \cup ToResolve(h)]]
  /\ IF ToResolve(h) = {} THEN UNCHANGED <<request, renewal, asks>> ELSE Ask(ToResolve(h), {r}, links)

Mount(r) ==
  /\ account # NoOne /\ resolver[r].keys = {}
  /\ \E K \in (SUBSET Keys) \ {{}} : Rendered(r, HookOf(K), cache)
  /\ UNCHANGED <<now, account, session, cache, batch, inflight, upsets>>

\* Its requests answer to the row no more.
Unawaited(q, r) == [q EXCEPT !.by = q.by \ {r}]

\* The state of the hook goes with the row.
Unmount(r) ==
  /\ resolver[r].keys # {}
  /\ resolver' = [resolver EXCEPT ![r] = Unmounted] /\ request' = [i \in Ids |-> Unawaited(request[i], r)]
  /\ UNCHANGED <<now, account, session, renewal, cache, batch, inflight, upsets, asks>>

\* invalidateSignedDownloadUrl
WithoutKey(k) == {l \in cache : l.key # k}

\* The Retry button, or a poster that could not be drawn.
Retry(r) ==
  /\ \E k \in resolver[r].keys :
       /\ resolver[r].res[k] \in {"error", "url"}
       /\ cache' = WithoutKey(k)
       /\ Rendered(r, [resolver[r] EXCEPT !.res[k] = "loading"], WithoutKey(k))
  /\ UNCHANGED <<now, account, session, batch, inflight, upsets>>

\* Mutant: the keys of a wait that timed out stay marked as under way.
ReleasedIfAnswered(h, q) == IF now < q.asked + ResolveTimeout THEN h.busy \ q.keys ELSE h.busy

Released(h, q) == h.busy \ q.keys

\* What a row makes of the answer, of an error or of its own timeout.
Resolved(h, q, links) ==
  [keys |-> h.keys, busy |-> Released(h, q),
   res |-> [k \in Keys |-> IF k \notin q.keys THEN h.res[k] ELSE IF k \in KeysOf(links) THEN "url" ELSE "error"]]

Answered(i, links) ==
  resolver' = [r \in Rows |-> IF r \in request[i].by THEN Resolved(resolver[r], request[i], links) ELSE resolver[r]]

\* The calls are over: the links go to the cache and to whoever still waits.
Finish(i) ==
  /\ request[i].leg \in {"singles", "failed"} /\ request[i].calls = {}
  /\ cache' = CacheWith(request[i])
  /\ Answered(i, IF request[i].leg = "failed" THEN {} ELSE request[i].have)
  /\ inflight' = [k \in Keys |-> IF i \in inflight[k] THEN {} ELSE inflight[k]]
  /\ request' = [request EXCEPT ![i] = NoRequest]
  /\ UNCHANGED <<now, account, session, renewal, batch, upsets, asks>>

\* withTimeout: the row stops waiting, the request goes on.
ResolveTimesOut(i) ==
  /\ \E r \in request[i].by \cap Rows :
       /\ now = request[i].asked + ResolveTimeout
       /\ resolver' = [resolver EXCEPT ![r] = Resolved(@, request[i], {})]
       /\ request' = [request EXCEPT ![i] = Unawaited(request[i], r)]
  /\ UNCHANGED <<now, account, session, renewal, cache, batch, inflight, upsets, asks>>

\* getSignedDownloadUrl: an avatar or a player asks for one key, and joins whoever
\* asked for it before.
AskForOne(k) ==
  /\ account # NoOne /\ Found({k}, cache) = {} /\ inflight[k] = {}
  /\ Ask({k}, {}, cache)
  /\ inflight' = [inflight EXCEPT ![k] = {i \in Ids : request'[i] # request[i]}]
  /\ UNCHANGED <<now, account, session, cache, batch, resolver, upsets>>

-----------------------------------------------------------------------------
(* auth.ts *)

ClearedCache == {}

\* A request of an account that is gone.
Orphan(q) ==
  [leg |-> q.leg, by |-> {}, keys |-> q.keys, asked |-> q.asked, have |-> q.have,
   fetched |-> q.fetched, calls |-> q.calls]

SignOut ==
  /\ Upset
  /\ account # NoOne
  /\ account' = NoOne /\ session' = {} /\ cache' = ClearedCache
  /\ inflight' = [k \in Keys |-> {}] /\ batch' = [status |-> "unknown", until |-> 0]
  /\ resolver' = [r \in Rows |-> Unmounted]
  /\ request' = [i \in Ids |-> IF request[i].leg = "none" THEN NoRequest
                               ELSE Orphan(request[i])]
  /\ UNCHANGED <<now, renewal, asks>>

SignInAs(a) ==
  /\ account = NoOne
  /\ account' = a /\ session' = {[of |-> a, fresh |-> TRUE]}
  /\ UNCHANGED <<now, renewal, cache, batch, inflight, resolver, request, upsets, asks>>

\* Promises settle before any time passes, and timers fire when they are due.
TimePasses ==
  /\ now < LinksEnd
  /\ \A i \in Ids :
       /\ request[i].leg = "none" \/ request[i].calls # {}
       /\ request[i].by # {} => now < request[i].asked + ResolveTimeout
       /\ \A c \in request[i].calls : c.step = "ask" => now < c.sent + RequestTimeout
  /\ \A n \in renewal : now < n.sent + RequestTimeout
  /\ now' = now + 1
  /\ UNCHANGED <<account, session, renewal, cache, batch, inflight, resolver, request, upsets, asks>>

LinksNext ==
  \/ SessionAges \/ RenewalAnswers \/ RenewalFails
  \/ \E i \in Ids : BatchAnswers(i) \/ BatchIsMissing(i) \/ SingleAnswers(i) \/ CallFails(i)
                      \/ SessionRefused(i) \/ Finish(i) \/ ResolveTimesOut(i)
  \/ \E r \in Rows : Mount(r) \/ Unmount(r) \/ Retry(r)
  \/ \E k \in Keys : AskForOne(k)
  \/ SignOut
  \/ \E a \in Accounts : SignInAs(a)
  \/ TimePasses

LinksSpec == LinksInit /\ [][LinksNext]_linkVars

-----------------------------------------------------------------------------
(* Properties *)

Whose == Accounts \cup {NoOne}

Link == [key : Keys, until : Nat, truth : Nat, of : Whose]

HttpCall == [keys : SUBSET Keys, step : {"ask", "renew"}, sent : Nat, of : Whose, again : BOOLEAN]

Request == [leg : {"none", "batch", "singles", "failed"}, by : SUBSET Rows, keys : SUBSET Keys, asked : Nat,
            have : SUBSET Link, fetched : SUBSET Link, calls : SUBSET HttpCall]

Renewal == [of : Whose, sent : Nat]

LinkTypeOK ==
  /\ now \in Nat /\ account \in Whose
  /\ session \subseteq [of : Whose, fresh : BOOLEAN]
  /\ renewal \subseteq Renewal
  /\ cache \subseteq Link
  /\ request \in [Ids -> Request]

\* A link a row was promised still works when the slowest link asked for with it
\* has arrived: the cache gives up a link early enough for its own way from
\* core-api (it is dated on arrival) and for the longest wait of the row.
PromisedLinksWork ==
  \A i \in Ids : request[i].by # {} => \A l \in request[i].have : l.truth > now

\* An attachment that shows a spinner has a request under way that will answer it.
SpinnerHasRequest ==
  \A r \in Rows : \A k \in resolver[r].keys :
    resolver[r].res[k] \in {"none", "loading"} => \E i \in Ids : r \in request[i].by /\ k \in request[i].keys

=============================================================================
