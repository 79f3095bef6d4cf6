------------------------- MODULE ChatDatabaseProofs -------------------------
(***************************************************************************)
(* What holds of the chat database's people and channels for any accounts, *)
(* sockets, spaces and sections: friends, blocks and calls, the move to    *)
(* new identities, and the channels' ids; and of the connection a client   *)
(* keeps to it, for any accounts, addresses and number of handles.         *)
(*                                                                         *)
(* Friends: the inductive invariant is FriendTypeOK and the four           *)
(* properties together.  CallsBetweenFriends needs the others: a request   *)
(* can only replace a missing row, where it says that nobody is in the     *)
(* call, and only an accepted row, where BlockedAreStrangers excludes a    *)
(* block, admits one.                                                      *)
(*                                                                         *)
(* Identities: the properties are not inductive by themselves: core-api    *)
(* advances its copies after the call, so RekeyInv says already of the     *)
(* moment between ("moved") that nothing is left under an old identity;    *)
(* and a row under an old identity is never a placeholder's, which is why  *)
(* the moved row may replace what it finds.                                *)
(*                                                                         *)
(* Channels: IdsInv relates the two sources of ids to the rows, while the  *)
(* database is wiped too: as long as there is no counter row every id in   *)
(* use lies below the sequence, and a restored channel brings a counter.   *)
(*                                                                         *)
(* The client's connection: ConnectionInv says what is held while no       *)
(* socket was left open (Held: the socket in use is the handle's,          *)
(* connectPromise stands for the one attempt that waits, rows reach the    *)
(* stores from a socket that has its rows only), that the effects still    *)
(* due find a handle (Ready), and, while nothing went wrong at all, what   *)
(* brings a session back (Back).  Each function of connection.ts has a     *)
(* lemma of its own, and a step is the composition of the calls it makes.  *)
(***************************************************************************)
EXTENDS Friendship, IdentityRekey, Channels, ClientConnection, FiniteSetTheorems,
        WellFoundedInduction, TLAPS

(* Friends, blocks and calls *)

Safe == BlockedAreStrangers /\ CallsBetweenFriends /\ OneCallEach /\ NoGhostCalls

LEMMA PairOfTwo ==
    ASSUME NEW x \in Users, NEW y \in Users, x /= y
    PROVE  {x, y} \in Pairs
BY DEF Pairs

\* The canonical key of a pair: the same two accounts, in whichever order.
LEMMA PairKey ==
    ASSUME NEW x, NEW y, NEW u, NEW v, {x, y} = {u, v}
    PROVE  (u = x /\ v = y) \/ (u = y /\ v = x)
OBVIOUS

\* A block is a matter of the pair.
LEMMA BlockOfPair ==
    ASSUME NEW x, NEW y, NEW u, NEW v, {x, y} = {u, v}, ~Blocked(x, y)
    PROVE  ~Blocked(u, v)
<1>1. CASE u = x /\ v = y
  BY <1>1
<1>2. CASE u = y /\ v = x
  BY <1>2 DEF Blocked
<1> QED BY <1>1, <1>2, PairKey

LEMMA InitTypeOK == FriendInit => FriendTypeOK
BY DEF FriendInit, FriendTypeOK

\* Every reducer and every lifecycle reducer keeps the shape of the rows.
LEMMA StepTypeOK == FriendTypeOK /\ [FriendNext]_friendVars => FriendTypeOK'
<1> SUFFICES ASSUME FriendTypeOK, [FriendNext]_friendVars PROVE FriendTypeOK'
  OBVIOUS
<1> USE DEF FriendTypeOK
<1>1. ASSUME NEW x \in Users, NEW y \in Users, SendFriendRequest(x, y) PROVE FriendTypeOK'
  BY <1>1 DEF SendFriendRequest
<1>2. ASSUME NEW x \in Users, NEW y \in Users, AcceptFriendRequest(x, y) PROVE FriendTypeOK'
  BY <1>2 DEF AcceptFriendRequest
<1>3. ASSUME NEW x \in Users, NEW y \in Users, Unfriend(x, y) PROVE FriendTypeOK'
  BY <1>3 DEF Unfriend, HungUp
<1>4. ASSUME NEW x \in Users, NEW y \in Users, BlockUser(x, y) PROVE FriendTypeOK'
  <2>1. blocks' \subseteq Users \X Users
    BY <1>4 DEF BlockUser
  <2>2. /\ friend' \in [Pairs -> Users \cup {NoFriend, Accepted}]
        /\ call' \in [Pairs -> [Users -> Claims \cup {NoCall}]]
        /\ live' = live
    BY <1>4 DEF BlockUser, HungUp
  <2> QED BY <2>1, <2>2
<1>5. ASSUME NEW x \in Users, NEW y \in Users, UnblockUser(x, y) PROVE FriendTypeOK'
  BY <1>5 DEF UnblockUser
<1>6. ASSUME NEW x \in Users, NEW y \in Users, NEW k \in Claims, JoinDmVoice(x, y, k)
      PROVE  FriendTypeOK'
  BY <1>6 DEF JoinDmVoice, Moved
<1>7. ASSUME NEW x \in Users, NEW y \in Users, NEW k \in Claims, LeaveDmVoice(x, y, k)
      PROVE  FriendTypeOK'
  BY <1>7 DEF LeaveDmVoice
<1>8. ASSUME NEW k \in Connections, ClientDisconnected(k) PROVE FriendTypeOK'
  BY <1>8 DEF ClientDisconnected
<1>9. ASSUME NEW k \in Connections, NEW a \in Users, ClientConnected(k, a) PROVE FriendTypeOK'
  BY <1>9 DEF ClientConnected
<1>10. CASE UNCHANGED friendVars
  BY <1>10 DEF friendVars
<1> QED BY <1>1, <1>2, <1>3, <1>4, <1>5, <1>6, <1>7, <1>8, <1>9, <1>10 DEF FriendNext

LEMMA InitSafe ==
    ASSUME FriendAssumption PROVE FriendInit => Safe
<1> SUFFICES ASSUME FriendInit PROVE Safe
  OBVIOUS
<1>1. \A p \in Pairs : InCall(p) = {}
  BY DEF FriendInit, InCall
<1>2. NoCall \notin Connections
  BY DEF FriendAssumption
<1> QED BY <1>1, <1>2, PairOfTwo
        DEF FriendInit, Safe, Blocked, BlockedAreStrangers, CallsBetweenFriends, OneCallEach,
            NoGhostCalls

----------------------------------------------------------------------------
(* Steps that only end calls *)

\* What such a step leaves of every room.
FewerCalls ==
  \A p \in Pairs, a \in Users : call'[p][a] = call[p][a] \/ call'[p][a] = NoCall

\* A step that writes no call row, and takes no socket away from a row that
\* stays, keeps what relates calls to each other and to sockets.
LEMMA FewerCallsKeep ==
    ASSUME FriendAssumption, OneCallEach, NoGhostCalls, FewerCalls,
           \A p \in Pairs, a \in Users :
             call'[p][a] \in Connections => live'[call'[p][a]] = live[call'[p][a]]
    PROVE  /\ OneCallEach' /\ NoGhostCalls'
           /\ \A p \in Pairs : InCall(p)' \subseteq InCall(p)
<1>1. \A p \in Pairs : InCall(p)' \subseteq InCall(p)
  BY DEF FewerCalls, InCall
<1>2. OneCallEach'
  BY <1>1 DEF OneCallEach
<1>3. NoGhostCalls'
  BY DEF FriendAssumption, NoGhostCalls, FewerCalls
<1> QED BY <1>1, <1>2, <1>3

\* A step that leaves sockets and call rows alone.
LEMMA SameCallsKeep ==
    ASSUME OneCallEach, NoGhostCalls, call' = call, live' = live
    PROVE  /\ OneCallEach' /\ NoGhostCalls'
           /\ \A p : InCall(p)' = InCall(p)
BY DEF OneCallEach, NoGhostCalls, InCall

\* A step that leaves every row alone.
LEMMA OnlySocketsKeep ==
    ASSUME Safe, UNCHANGED <<friend, blocks, call>>
    PROVE  BlockedAreStrangers' /\ CallsBetweenFriends' /\ OneCallEach'
<1>1. \A p : InCall(p)' = InCall(p)
  BY DEF InCall
<1>2. \A x, y : Blocked(x, y)' <=> Blocked(x, y)
  BY DEF Blocked
<1>3. BlockedAreStrangers'
  BY <1>2 DEF Safe, BlockedAreStrangers
<1>4. CallsBetweenFriends'
  BY <1>1, <1>2 DEF Safe, CallsBetweenFriends
<1>5. OneCallEach'
  BY <1>1 DEF Safe, OneCallEach
<1>6. QED BY <1>3, <1>4, <1>5

\* Ending the friendship of x and y and emptying their room, with or without a
\* block, keeps the invariant.
LEMMA PartingKeepsSafe ==
    ASSUME FriendAssumption, FriendTypeOK, Safe,
           NEW x \in Users, NEW y \in Users, x /= y,
           friend' = [friend EXCEPT ![{x, y}] = NoFriend],
           call' = HungUp({x, y}), live' = live,
           blocks' = blocks \/ blocks' = blocks \cup {<<x, y>>}
    PROVE  Safe'
<1>1. {x, y} \in Pairs
  BY PairOfTwo
<1>2. FewerCalls /\ InCall({x, y})' = {}
  BY <1>1 DEF FriendTypeOK, HungUp, FewerCalls, InCall
<1>3. /\ OneCallEach' /\ NoGhostCalls'
      /\ \A p \in Pairs : InCall(p)' \subseteq InCall(p)
  BY <1>2, FewerCallsKeep DEF Safe
<1>4. ASSUME NEW u \in Users, NEW v \in Users, u /= v
      PROVE  /\ Blocked(u, v)' => friend'[{u, v}] = NoFriend
             /\ InCall({u, v})' /= {} =>
                  /\ friend'[{u, v}] = Accepted /\ ~Blocked(u, v)'
                  /\ InCall({u, v})' \subseteq {u, v}
  <2>1. {u, v} \in Pairs
    BY <1>4, PairOfTwo
  <2>2. CASE {u, v} = {x, y}
    BY <2>2, <1>1, <1>2 DEF FriendTypeOK
  <2>3. CASE {u, v} /= {x, y}
    <3>1. friend'[{u, v}] = friend[{u, v}]
      BY <2>1, <2>3, <1>1 DEF FriendTypeOK
    <3>2. Blocked(u, v)' => Blocked(u, v)
      BY <2>3 DEF Blocked
    <3> QED BY <1>4, <2>1, <3>1, <3>2, <1>3
            DEF Safe, BlockedAreStrangers, CallsBetweenFriends
  <2> QED BY <2>2, <2>3
<1> QED BY <1>3, <1>4 DEF Safe, BlockedAreStrangers, CallsBetweenFriends

----------------------------------------------------------------------------
\* Every step keeps the invariant.
LEMMA StepSafe ==
    ASSUME FriendAssumption PROVE FriendTypeOK /\ Safe /\ [FriendNext]_friendVars => Safe'
<1> SUFFICES ASSUME FriendTypeOK, Safe, [FriendNext]_friendVars PROVE Safe'
  OBVIOUS
<1>1. ASSUME NEW x \in Users, NEW y \in Users, SendFriendRequest(x, y) PROVE Safe'
  <2>1. {x, y} \in Pairs /\ InCall({x, y}) = {}
    BY <1>1, PairOfTwo DEF FriendAssumption, SendFriendRequest, Safe, CallsBetweenFriends
  <2>2. \A p \in Pairs : p /= {x, y} => friend'[p] = friend[p]
    BY <1>1 DEF SendFriendRequest, FriendTypeOK
  <2>3. ASSUME NEW u \in Users, NEW v \in Users, u /= v
        PROVE  /\ Blocked(u, v) => friend'[{u, v}] = NoFriend
               /\ InCall({u, v}) /= {} => friend'[{u, v}] = Accepted
    <3>1. CASE {u, v} = {x, y}
      BY <1>1, <2>1, <3>1, BlockOfPair DEF SendFriendRequest
    <3>2. CASE {u, v} /= {x, y}
      BY <2>2, <2>3, <3>2, PairOfTwo DEF Safe, BlockedAreStrangers, CallsBetweenFriends
    <3> QED BY <3>1, <3>2
  <2>4. UNCHANGED <<blocks, live, call>>
    BY <1>1 DEF SendFriendRequest
  <2>5. OneCallEach' /\ NoGhostCalls' /\ \A p : InCall(p)' = InCall(p)
    BY <2>4, SameCallsKeep DEF Safe
  <2>6. BlockedAreStrangers'
    BY <2>3, <2>4 DEF BlockedAreStrangers, Blocked
  <2>7. CallsBetweenFriends'
    BY <2>3, <2>4, <2>5 DEF Safe, CallsBetweenFriends, Blocked
  <2> QED BY <2>5, <2>6, <2>7 DEF Safe
<1>2. ASSUME NEW x \in Users, NEW y \in Users, AcceptFriendRequest(x, y) PROVE Safe'
  <2>1. {x, y} \in Pairs /\ InCall({x, y}) = {} /\ ~Blocked(x, y)
    <3>1. x /= y /\ friend[{x, y}] = y /\ y /= Accepted /\ y /= NoFriend
      BY <1>2 DEF FriendAssumption, AcceptFriendRequest
    <3> QED BY <3>1, PairOfTwo DEF Safe, CallsBetweenFriends, BlockedAreStrangers
  <2>2. \A p \in Pairs : p /= {x, y} => friend'[p] = friend[p]
    BY <1>2 DEF AcceptFriendRequest, FriendTypeOK
  <2>3. ASSUME NEW u \in Users, NEW v \in Users, u /= v
        PROVE  /\ Blocked(u, v) => friend'[{u, v}] = NoFriend
               /\ InCall({u, v}) /= {} => friend'[{u, v}] = Accepted
    <3>1. CASE {u, v} = {x, y}
      BY <2>1, <3>1, BlockOfPair
    <3>2. CASE {u, v} /= {x, y}
      BY <2>2, <2>3, <3>2, PairOfTwo DEF Safe, BlockedAreStrangers, CallsBetweenFriends
    <3> QED BY <3>1, <3>2
  <2>4. UNCHANGED <<blocks, live, call>>
    BY <1>2 DEF AcceptFriendRequest
  <2>5. OneCallEach' /\ NoGhostCalls' /\ \A p : InCall(p)' = InCall(p)
    BY <2>4, SameCallsKeep DEF Safe
  <2>6. BlockedAreStrangers'
    BY <2>3, <2>4 DEF BlockedAreStrangers, Blocked
  <2>7. CallsBetweenFriends'
    BY <2>3, <2>4, <2>5 DEF Safe, CallsBetweenFriends, Blocked
  <2> QED BY <2>5, <2>6, <2>7 DEF Safe
<1>3. ASSUME NEW x \in Users, NEW y \in Users, Unfriend(x, y) PROVE Safe'
  BY <1>3, PartingKeepsSafe DEF Unfriend
<1>4. ASSUME NEW x \in Users, NEW y \in Users, BlockUser(x, y) PROVE Safe'
  <2>1. /\ x /= y /\ friend' = [friend EXCEPT ![{x, y}] = NoFriend]
        /\ call' = HungUp({x, y}) /\ live' = live
        /\ blocks' = blocks \cup {<<x, y>>}
    BY <1>4 DEF BlockUser
  <2> QED BY <2>1, PartingKeepsSafe
<1>5. ASSUME NEW x \in Users, NEW y \in Users, UnblockUser(x, y) PROVE Safe'
  <2>1. blocks' \subseteq blocks /\ UNCHANGED <<friend, live, call>>
    BY <1>5 DEF UnblockUser
  <2>2. OneCallEach' /\ NoGhostCalls' /\ \A p : InCall(p)' = InCall(p)
    BY <2>1, SameCallsKeep DEF Safe
  <2>3. \A u, v : Blocked(u, v)' => Blocked(u, v)
    BY <2>1 DEF Blocked
  <2> QED BY <2>1, <2>2, <2>3 DEF Safe, BlockedAreStrangers, CallsBetweenFriends
<1>6. ASSUME NEW x \in Users, NEW y \in Users, NEW k \in Claims, JoinDmVoice(x, y, k)
      PROVE  Safe'
  <2>1. /\ {x, y} \in Pairs /\ friend[{x, y}] = Accepted /\ ~Blocked(x, y)
        /\ UNCHANGED <<friend, blocks, live>>
    BY <1>6, PairOfTwo DEF JoinDmVoice
  <2>2. \A p \in Pairs, a \in Users :
          call'[p][a] = IF a /= x THEN call[p][a] ELSE IF p = {x, y} THEN k ELSE NoCall
    BY <1>6 DEF JoinDmVoice, Moved, FriendTypeOK
  <2>3. k /= NoCall
    BY DEF FriendAssumption, Claims
  <2>4. \A p \in Pairs : InCall(p)' = (InCall(p) \ {x}) \cup (IF p = {x, y} THEN {x} ELSE {})
    BY <2>2, <2>3 DEF InCall
  <2>5. OneCallEach'
    <3>1. SUFFICES ASSUME NEW p \in Pairs, NEW q \in Pairs, p /= q
                   PROVE  InCall(p)' \cap InCall(q)' = {}
      BY DEF OneCallEach
    <3>2. InCall(p) \cap InCall(q) = {}
      BY <3>1 DEF Safe, OneCallEach
    <3>3. /\ InCall(p)' = (InCall(p) \ {x}) \cup (IF p = {x, y} THEN {x} ELSE {})
          /\ InCall(q)' = (InCall(q) \ {x}) \cup (IF q = {x, y} THEN {x} ELSE {})
      BY <2>4
    <3> QED BY <3>1, <3>2, <3>3
  <2>6. NoGhostCalls'
    <3>1. k \in Connections => live[k] = x
      BY <1>6 DEF FriendAssumption, JoinDmVoice, CallsOver
    <3>2. ASSUME NEW p \in Pairs, NEW a \in Users, call'[p][a] \in Connections
          PROVE  live[call'[p][a]] = a
      <4>1. CASE a /= x
        BY <2>2, <3>2, <4>1 DEF Safe, NoGhostCalls
      <4>2. CASE a = x
        BY <2>2, <3>1, <3>2, <4>2 DEF FriendAssumption
      <4> QED BY <4>1, <4>2
    <3> QED BY <2>1, <3>2 DEF NoGhostCalls
  <2>7. CallsBetweenFriends'
    <3>1. SUFFICES ASSUME NEW u \in Users, NEW v \in Users, u /= v, InCall({u, v})' /= {}
                   PROVE  /\ friend[{u, v}] = Accepted /\ ~Blocked(u, v)
                          /\ InCall({u, v})' \subseteq {u, v}
      BY <2>1 DEF CallsBetweenFriends, Blocked
    <3>2. {u, v} \in Pairs
      BY <3>1, PairOfTwo
    <3>3. CASE {u, v} = {x, y}
      <4>1. ~Blocked(u, v)
        BY <2>1, <3>3, BlockOfPair
      <4>2. InCall({u, v}) \subseteq {u, v}
        BY <3>1 DEF Safe, CallsBetweenFriends
      <4> QED BY <2>1, <2>4, <3>2, <3>3, <4>1, <4>2
    <3>4. CASE {u, v} /= {x, y}
      <4>1. InCall({u, v})' = InCall({u, v}) \ {x}
        BY <2>4, <3>2, <3>4
      <4>2. InCall({u, v}) /= {}
        BY <3>1, <4>1
      <4> QED BY <3>1, <4>1, <4>2 DEF Safe, CallsBetweenFriends
    <3> QED BY <3>3, <3>4
  <2>8. BlockedAreStrangers'
    BY <2>1 DEF Safe, BlockedAreStrangers, Blocked
  <2> QED BY <2>5, <2>6, <2>7, <2>8 DEF Safe
<1>7. ASSUME NEW x \in Users, NEW y \in Users, NEW k \in Claims, LeaveDmVoice(x, y, k)
      PROVE  Safe'
  <2>1. FewerCalls /\ UNCHANGED <<friend, blocks, live>>
    BY <1>7, PairOfTwo DEF LeaveDmVoice, FriendTypeOK, FewerCalls
  <2>2. /\ OneCallEach' /\ NoGhostCalls'
        /\ \A p \in Pairs : InCall(p)' \subseteq InCall(p)
    BY <2>1, FewerCallsKeep DEF Safe
  <2> QED BY <2>1, <2>2, PairOfTwo DEF Safe, BlockedAreStrangers, CallsBetweenFriends, Blocked
<1>8. ASSUME NEW k \in Connections, ClientDisconnected(k) PROVE Safe'
  <2>1. FewerCalls /\ UNCHANGED <<friend, blocks>>
    BY <1>8 DEF ClientDisconnected, FewerCalls
  <2>2. \A p \in Pairs, a \in Users :
          call'[p][a] \in Connections => live'[call'[p][a]] = live[call'[p][a]]
    <3>1. ASSUME NEW p \in Pairs, NEW a \in Users, call'[p][a] = k PROVE FALSE
      BY <1>8, <3>1 DEF FriendAssumption, ClientDisconnected, Safe, NoGhostCalls
    <3> QED BY <1>8, <3>1 DEF ClientDisconnected, FriendTypeOK
  <2>3. /\ OneCallEach' /\ NoGhostCalls'
        /\ \A p \in Pairs : InCall(p)' \subseteq InCall(p)
    BY <2>1, <2>2, FewerCallsKeep DEF Safe
  <2> QED BY <2>1, <2>3, PairOfTwo DEF Safe, BlockedAreStrangers, CallsBetweenFriends, Blocked
<1>9. ASSUME NEW k \in Connections, NEW a \in Users, ClientConnected(k, a) PROVE Safe'
  <2>1. \A p \in Pairs, b \in Users : call[p][b] /= k
    BY <1>9 DEF FriendAssumption, ClientConnected, Safe, NoGhostCalls
  <2>2. NoGhostCalls'
    BY <1>9, <2>1 DEF ClientConnected, FriendTypeOK, Safe, NoGhostCalls
  <2>3. UNCHANGED <<friend, blocks, call>>
    BY <1>9 DEF ClientConnected
  <2>4. QED BY <2>2, <2>3, OnlySocketsKeep DEF Safe
<1>10. CASE UNCHANGED friendVars
  <2>1. UNCHANGED <<friend, blocks, call>> /\ live' = live
    BY <1>10 DEF friendVars
  <2>2. NoGhostCalls'
    BY <2>1 DEF Safe, NoGhostCalls
  <2>3. QED BY <2>1, <2>2, OnlySocketsKeep DEF Safe
<1> QED BY <1>1, <1>2, <1>3, <1>4, <1>5, <1>6, <1>7, <1>8, <1>9, <1>10 DEF FriendNext

----------------------------------------------------------------------------
\* The rows keep their shape for any accounts and sockets.
THEOREM TypeCorrect == FriendSpec => []FriendTypeOK
BY InitTypeOK, StepTypeOK, PTL DEF FriendSpec

LEMMA SafeAlways ==
    ASSUME FriendAssumption PROVE FriendSpec => []Safe
<1>1. FriendInit => FriendTypeOK /\ Safe
  BY InitTypeOK, InitSafe
<1>2. FriendTypeOK /\ Safe /\ [FriendNext]_friendVars => FriendTypeOK' /\ Safe'
  BY StepTypeOK, StepSafe
<1> QED BY <1>1, <1>2, PTL DEF FriendSpec

\* social.rs: a block outlasts every request that was under way.
THEOREM BlockedStayStrangers ==
    ASSUME FriendAssumption PROVE FriendSpec => []BlockedAreStrangers
<1>1. Safe => BlockedAreStrangers  BY DEF Safe
<1> QED BY <1>1, SafeAlways, PTL

\* dm_voice.rs and social.rs: whoever is in a call is a friend, on every path
\* that ends a friendship.
THEOREM CallsStayBetweenFriends ==
    ASSUME FriendAssumption PROVE FriendSpec => []CallsBetweenFriends
<1>1. Safe => CallsBetweenFriends  BY DEF Safe
<1> QED BY <1>1, SafeAlways, PTL

\* dm_voice.rs: one call per account, whatever its devices do.
THEOREM OneCallEachAlways ==
    ASSUME FriendAssumption PROVE FriendSpec => []OneCallEach
<1>1. Safe => OneCallEach  BY DEF Safe
<1> QED BY <1>1, SafeAlways, PTL

\* voice.rs: no call row outlives its socket.
THEOREM NoGhostCallsAlways ==
    ASSUME FriendAssumption PROVE FriendSpec => []NoGhostCalls
<1>1. Safe => NoGhostCalls  BY DEF Safe
<1> QED BY <1>1, SafeAlways, PTL

----------------------------------------------------------------------------
(* The move to new identities *)

RekeyTypeOK ==
    /\ stored \in [People -> {"old", "new"}]
    /\ DOMAIN user \subseteq Identities
    /\ \A pair \in DOMAIN friends :
          /\ pair \subseteq Identities
          /\ friends[pair] \in [by : Identities, since : {"before", "since", "nobody"}]
    /\ DOMAIN author = People
    /\ \A p \in People : author[p] \in {Old(p), New(p)}
    /\ job \in {"down", "asked", "moved"}

\* Nothing of p is left under the old identity, nor comes back to it.
HasMoved(p) ==
    /\ Old(p) \notin DOMAIN user
    /\ \A pair \in DOMAIN friends : Old(p) \in pair => friends[pair].since = "nobody"
    /\ author[p] = New(p)

MovedIsMoved == \A p \in People \ Unknown : stored[p] = "new" \/ job = "moved" => HasMoved(p)

OldIsData == \A p \in People : Old(p) \in DOMAIN user => user[Old(p)] = "data"

RekeyInv == RekeyTypeOK /\ MovedIsMoved /\ OldIsData /\ DataIsKept /\ FriendsStayFriends

----------------------------------------------------------------------------
(* Remapping *)

LEMMA IdentityOf == \A i \in Identities : i = Old(i[1]) \/ i = New(i[1])
BY DEF Identities, Old, New

LEMMA OldIsNotNew == \A p, q : Old(p) # New(q)
BY DEF Old, New

LEMMA OfOnePerson ==
    /\ \A p, q : Old(p) = Old(q) => p = q
    /\ \A p, q : New(p) = New(q) => p = q
    /\ \A p : Old(p)[1] = p /\ New(p)[1] = p
BY DEF Old, New

LEMMA RemapFacts ==
    /\ \A p \in OldPairs : Remap(Old(p)) = New(p)
    /\ \A p : p \notin OldPairs => Remap(Old(p)) = Old(p)
    /\ \A p : Remap(New(p)) = New(p)
    /\ \A p : \A i \in Identities : Remap(i) = Old(p) => i = Old(p) /\ p \notin OldPairs
    /\ \A i \in Identities : Remap(i) \in Identities /\ Remap(i)[1] = i[1]
<1>1. \A p \in OldPairs : Remap(Old(p)) = New(p)
  BY OfOnePerson DEF Remap
<1>2. \A p : p \notin OldPairs => Remap(Old(p)) = Old(p)
  BY OfOnePerson DEF Remap
<1>3. \A p : Remap(New(p)) = New(p)
  BY OldIsNotNew DEF Remap
<1>4. ASSUME NEW p, NEW i \in Identities, Remap(i) = Old(p) PROVE i = Old(p) /\ p \notin OldPairs
  BY <1>1, <1>2, <1>3, <1>4, IdentityOf, OldIsNotNew, OfOnePerson
<1>5. ASSUME NEW i \in Identities PROVE Remap(i) \in Identities /\ Remap(i)[1] = i[1]
  <2>1. i[1] \in People
    BY DEF Identities
  <2>2. New(i[1]) \in Identities
    BY <2>1 DEF New, Identities
  <2> QED BY <2>2, OfOnePerson DEF Remap
<1> QED BY <1>1, <1>2, <1>3, <1>4, <1>5

\* What the call makes of the user table.
LEMMA UserMovedFacts ==
    ASSUME RekeyTypeOK
    PROVE  /\ DOMAIN UserMoved = {Remap(j) : j \in DOMAIN user}
           /\ \A p \in OldPairs : Old(p) \in DOMAIN user => UserMoved[New(p)] = user[Old(p)]
           /\ \A i \in DOMAIN UserMoved :
                (\A p \in OldPairs : i = New(p) => Old(p) \notin DOMAIN user)
                   => i \in DOMAIN user /\ UserMoved[i] = user[i]
<1> DEFINE moved == {i \in DOMAIN user : Remap(i) # i}
<1>1. DOMAIN UserMoved = {Remap(j) : j \in DOMAIN user}
  BY DEF UserMoved
<1>2. \A j \in moved : j[1] \in OldPairs /\ j = Old(j[1]) /\ Remap(j) = New(j[1])
  BY RemapFacts, IdentityOf DEF RekeyTypeOK
<1>3. ASSUME NEW p \in OldPairs, Old(p) \in DOMAIN user PROVE UserMoved[New(p)] = user[Old(p)]
  <2>1. Old(p) \in moved /\ Remap(Old(p)) = New(p)
    BY <1>3, RemapFacts, OldIsNotNew
  <2>2. \A j \in moved : Remap(j) = New(p) => j = Old(p)
    BY <1>2, OfOnePerson
  <2>3. (CHOOSE j \in moved : Remap(j) = New(p)) = Old(p)
    BY <2>1, <2>2
  <2>4. New(p) \in DOMAIN UserMoved
    BY <1>1, <1>3, <2>1
  <2> QED BY <2>1, <2>3, <2>4 DEF UserMoved
<1>4. ASSUME NEW i \in DOMAIN UserMoved,
             \A p \in OldPairs : i = New(p) => Old(p) \notin DOMAIN user
      PROVE  i \in DOMAIN user /\ UserMoved[i] = user[i]
  <2>1. ~ \E j \in moved : Remap(j) = i
    BY <1>2, <1>4
  <2>2. i \in DOMAIN user
    BY <1>1, <2>1
  <2> QED BY <2>1, <2>2 DEF UserMoved
<1> QED BY <1>1, <1>3, <1>4

\* What it makes of the friends table, in whichever order it iterates.
LEMMA FriendsMovedFacts ==
    ASSUME RekeyTypeOK, NEW f \in FriendsMoved
    PROVE  /\ DOMAIN f = (DOMAIN friends \ MovedPairs) \cup {RemapPair(pair) : pair \in MovedPairs}
           /\ \A pair \in DOMAIN f :
                \/ pair \in DOMAIN friends \ MovedPairs /\ f[pair] = friends[pair]
                \/ \E from \in MovedPairs :
                     /\ pair = RemapPair(from)
                     /\ f[pair] \in [by : Identities, since : {"before", "since", "nobody"}]
                     /\ f[pair].by = Remap(friends[from].by)
                     /\ f[pair].since = friends[from].since
<1> DEFINE keys == {RemapPair(pair) : pair \in MovedPairs}
<1>1. PICK last \in [keys -> MovedPairs] :
        /\ \A pair \in keys : RemapPair(last[pair]) = pair
        /\ f = [pair \in (DOMAIN friends \ MovedPairs) \cup keys |->
                  IF pair \in keys THEN RemapRow(friends[last[pair]]) ELSE friends[pair]]
  BY DEF FriendsMoved
<1>2. ASSUME NEW pair \in keys
      PROVE  \E from \in MovedPairs :
               /\ pair = RemapPair(from)
               /\ f[pair] \in [by : Identities, since : {"before", "since", "nobody"}]
               /\ f[pair].by = Remap(friends[from].by)
               /\ f[pair].since = friends[from].since
  <2>1. last[pair] \in MovedPairs /\ pair = RemapPair(last[pair])
    BY <1>1, <1>2
  <2>2. f[pair] = RemapRow(friends[last[pair]])
    BY <1>1, <1>2
  <2>3. friends[last[pair]] \in [by : Identities, since : {"before", "since", "nobody"}]
    BY <2>1 DEF MovedPairs, RekeyTypeOK
  <2>4. Remap(friends[last[pair]].by) \in Identities
    BY <2>3, RemapFacts
  <2> QED BY <2>1, <2>2, <2>3, <2>4 DEF RemapRow
<1>3. ASSUME NEW pair \in DOMAIN f, pair \notin keys
      PROVE  pair \in DOMAIN friends \ MovedPairs /\ f[pair] = friends[pair]
  BY <1>1, <1>3
<1>4. DOMAIN f = (DOMAIN friends \ MovedPairs) \cup keys
  BY <1>1
<1> QED BY <1>2, <1>3, <1>4

LEMMA RemapPairFacts ==
    /\ \A pair \in SUBSET Identities : RemapPair(pair) \subseteq Identities
    /\ \A pair \in SUBSET Identities, p \in OldPairs : Old(p) \notin RemapPair(pair)
    /\ \A pair \in SUBSET Identities : \A p : Old(p) \in RemapPair(pair) => Old(p) \in pair
    /\ \A pair \in SUBSET Identities :
         {Person(i) : i \in RemapPair(pair)} = {Person(i) : i \in pair}
<1>1. \A pair \in SUBSET Identities : \A i \in pair : Person(Remap(i)) = Person(i)
  BY RemapFacts DEF Person
<1>2. ASSUME NEW pair \in SUBSET Identities
      PROVE  {Person(i) : i \in RemapPair(pair)} = {Person(i) : i \in pair}
  BY <1>1 DEF RemapPair
<1> QED BY RemapFacts, <1>2 DEF RemapPair

----------------------------------------------------------------------------
(* The initial states *)

LEMMA InitInv == RekeyInit => RekeyInv
<1> SUFFICES ASSUME RekeyInit PROVE RekeyInv
  OBVIOUS
<1>1. DOMAIN user = {<<p, stored[p]>> : p \in People \ Unknown} /\ \A i \in DOMAIN user : user[i] = "data"
  BY DEF RekeyInit
<1>2. \A p \in People : <<p, stored[p]>> \in Identities /\ <<p, stored[p]>> \in {Old(p), New(p)}
  BY DEF RekeyInit, Identities, Old, New
<1>3. \A pair \in DOMAIN friends :
        /\ pair \subseteq DOMAIN user
        /\ friends[pair].by \in pair
        /\ friends[pair] \in [by : pair, since : {"before", "since", "nobody"}]
  <2>1. \A pair \in DOMAIN friends :
          /\ pair \subseteq DOMAIN user /\ \E i \in pair : TRUE
          /\ friends[pair] = [by |-> CHOOSE i \in pair : TRUE, since |-> "before"]
    BY DEF RekeyInit
  <2>2. \A pair \in DOMAIN friends : (CHOOSE i \in pair : TRUE) \in pair
    BY <2>1
  <2> QED BY <2>1, <2>2
<1>4. RekeyTypeOK
  <2>1. DOMAIN user \subseteq Identities
    BY <1>1, <1>2
  <2>2. \A pair \in DOMAIN friends :
          /\ pair \subseteq Identities
          /\ friends[pair] \in [by : Identities, since : {"before", "since", "nobody"}]
    BY <1>3, <2>1
  <2> QED BY <2>1, <2>2, <1>2 DEF RekeyInit, RekeyTypeOK
<1>5. \A p \in People : Old(p) \in DOMAIN user => stored[p] = "old" /\ p \notin Unknown
  BY <1>1 DEF Old
<1>6. MovedIsMoved
  <2> SUFFICES ASSUME NEW p \in People \ Unknown, stored[p] = "new" \/ job = "moved"
               PROVE  HasMoved(p)
    BY DEF MovedIsMoved
  <2>1. stored[p] = "new" /\ author[p] = New(p)
    BY DEF RekeyInit, New
  <2>2. Old(p) \notin DOMAIN user
    BY <2>1, <1>5
  <2> QED BY <2>1, <2>2, <1>3 DEF HasMoved
<1>7. OldIsData
  BY <1>1 DEF OldIsData
<1>8. DataIsKept
  <2> SUFFICES ASSUME NEW p \in People \ Unknown
               PROVE  \E i \in {Old(p), New(p)} \cap DOMAIN user :
                        /\ user[i] = "data"
                        /\ \A j \in {Old(p), New(p)} \cap DOMAIN user : user[j] = "data" => j = i
    BY DEF DataIsKept
  <2>1. <<p, stored[p]>> \in {Old(p), New(p)} \cap DOMAIN user
    BY <1>1, <1>2
  <2>2. \A j \in {Old(p), New(p)} \cap DOMAIN user : j = <<p, stored[p]>>
    BY <1>1 DEF Old, New
  <2> QED BY <2>1, <2>2, <1>1
<1>9. FriendsStayFriends
  <2>1. ASSUME NEW p \in People \ Unknown, NEW q \in People \ Unknown, p # q
        PROVE  \E pair \in DOMAIN friends : {Person(i) : i \in pair} = {p, q}
    <3> DEFINE pair == {<<p, stored[p]>>, <<q, stored[q]>>}
    <3>1. pair \in SUBSET DOMAIN user /\ <<p, stored[p]>> # <<q, stored[q]>>
      BY <1>1, <2>1
    <3>2. pair \in DOMAIN friends
      BY <3>1 DEF RekeyInit
    <3>3. {Person(i) : i \in pair} = {p, q}
      BY DEF Person
    <3> QED BY <3>2, <3>3
  <2> QED BY <2>1, <1>3 DEF FriendsStayFriends
<1> QED BY <1>4, <1>6, <1>7, <1>8, <1>9 DEF RekeyInv

----------------------------------------------------------------------------
(* The steps *)

LEMMA RegisterKeeps == ASSUME RekeyInv, NEW p \in People, Register(p) PROVE RekeyInv'
<1>1. /\ New(p) \in Identities /\ New(p) \notin DOMAIN user
      /\ DOMAIN user' = DOMAIN user \cup {New(p)}
      /\ \A i \in DOMAIN user : user'[i] = user[i]
      /\ user'[New(p)] = "placeholder"
  BY DEF Register, Identities, New
<1>2. \A q : Old(q) \in DOMAIN user' => Old(q) \in DOMAIN user
  BY <1>1, OldIsNotNew
<1>3. UNCHANGED <<stored, friends, author, job>>
  BY DEF Register
<1>4. RekeyTypeOK'
  BY <1>1, <1>3 DEF RekeyInv, RekeyTypeOK
<1>5. MovedIsMoved'
  BY <1>2, <1>3 DEF RekeyInv, MovedIsMoved, HasMoved
<1>6. OldIsData'
  BY <1>1, <1>2 DEF RekeyInv, OldIsData
<1>7. DataIsKept'
  BY <1>1 DEF RekeyInv, DataIsKept
<1>8. FriendsStayFriends'
  BY <1>3 DEF RekeyInv, FriendsStayFriends
<1> QED BY <1>4, <1>5, <1>6, <1>7, <1>8 DEF RekeyInv

\* A request to an identity of somebody already moved is one to nobody.
LEMMA BefriendKeeps ==
    ASSUME RekeyInv, NEW i \in Identities, NEW j \in Identities, Befriend(i, j) PROVE RekeyInv'
<1>1. /\ i \in DOMAIN user /\ {i, j} \notin DOMAIN friends
      /\ DOMAIN friends' = DOMAIN friends \cup {{i, j}}
      /\ \A pair \in DOMAIN friends : friends'[pair] = friends[pair]
      /\ friends'[{i, j}] = [by |-> i, since |-> IF j \in DOMAIN user THEN "since" ELSE "nobody"]
  BY DEF Befriend
<1>2. UNCHANGED <<stored, user, author, job>>
  BY DEF Befriend
<1>3. RekeyTypeOK'
  <2>1. friends'[{i, j}] \in [by : Identities, since : {"before", "since", "nobody"}]
    BY <1>1
  <2>2. \A pair \in DOMAIN friends :
          /\ pair \subseteq Identities
          /\ friends[pair] \in [by : Identities, since : {"before", "since", "nobody"}]
    BY DEF RekeyInv, RekeyTypeOK
  <2>3. {i, j} \subseteq Identities
    OBVIOUS
  <2>4. ASSUME NEW pair \in DOMAIN friends'
        PROVE  /\ pair \subseteq Identities
               /\ friends'[pair] \in [by : Identities, since : {"before", "since", "nobody"}]
    <3>1. CASE pair = {i, j}
      BY <3>1, <2>1, <2>3
    <3>2. CASE pair \in DOMAIN friends
      BY <3>2, <1>1, <2>2
    <3> QED BY <3>1, <3>2, <1>1
  <2> QED BY <1>2, <2>4 DEF RekeyInv, RekeyTypeOK
<1>4. MovedIsMoved'
  <2> SUFFICES ASSUME NEW p \in People \ Unknown, stored[p] = "new" \/ job = "moved"
               PROVE  HasMoved(p)'
    BY <1>2 DEF MovedIsMoved
  <2>1. HasMoved(p)
    BY DEF RekeyInv, MovedIsMoved
  <2>2. Old(p) \in {i, j} => friends'[{i, j}].since = "nobody"
    BY <1>1, <2>1 DEF HasMoved
  <2> QED BY <1>1, <1>2, <2>1, <2>2 DEF HasMoved
<1>5. OldIsData' /\ DataIsKept'
  BY <1>2 DEF RekeyInv, OldIsData, DataIsKept
<1>6. FriendsStayFriends'
  <2>1. ASSUME NEW pair \in DOMAIN friends' PROVE friends'[pair].by \in pair
    <3>1. CASE pair \in DOMAIN friends
      BY <3>1, <1>1 DEF RekeyInv, FriendsStayFriends
    <3>2. CASE pair = {i, j}
      <4>1. friends'[pair].by = i
        BY <3>2, <1>1
      <4> QED BY <3>2, <4>1
    <3> QED BY <2>1, <3>1, <3>2, <1>1
  <2> QED BY <1>1, <2>1 DEF RekeyInv, FriendsStayFriends
<1> QED BY <1>3, <1>4, <1>5, <1>6 DEF RekeyInv

LEMMA RekeysKeeps == ASSUME RekeyInv, Rekeys PROVE RekeyInv'
<1>1. user' = UserMoved /\ friends' \in FriendsMoved /\ stored' = stored
  BY DEF Rekeys
<1>2. DOMAIN user' = {Remap(j) : j \in DOMAIN user}
  BY <1>1, UserMovedFacts DEF RekeyInv
<1>3. \A p \in OldPairs : Old(p) \in DOMAIN user => user'[New(p)] = user[Old(p)]
  BY <1>1, UserMovedFacts DEF RekeyInv
<1>4. ASSUME NEW i \in DOMAIN user',
             \A p \in OldPairs : i = New(p) => Old(p) \notin DOMAIN user
      PROVE  i \in DOMAIN user /\ user'[i] = user[i]
  BY <1>1, <1>4, UserMovedFacts DEF RekeyInv
<1>5. /\ DOMAIN friends' = (DOMAIN friends \ MovedPairs) \cup {RemapPair(pair) : pair \in MovedPairs}
      /\ \A pair \in DOMAIN friends' :
           \/ pair \in DOMAIN friends \ MovedPairs /\ friends'[pair] = friends[pair]
           \/ \E from \in MovedPairs :
                /\ pair = RemapPair(from)
                /\ friends'[pair] \in [by : Identities, since : {"before", "since", "nobody"}]
                /\ friends'[pair].by = Remap(friends[from].by)
                /\ friends'[pair].since = friends[from].since
  BY <1>1, FriendsMovedFacts DEF RekeyInv
<1>6. DOMAIN user \subseteq Identities
  BY DEF RekeyInv, RekeyTypeOK
<1>7. MovedPairs \subseteq SUBSET Identities /\ DOMAIN friends \subseteq SUBSET Identities
  BY DEF RekeyInv, RekeyTypeOK, MovedPairs
<1>8. \A p \in People : author'[p] = Remap(author[p]) /\ DOMAIN author' = People
  BY DEF Rekeys
\* Of nobody anything is left under the old identity.
<1>9. ASSUME NEW p \in People \ Unknown PROVE HasMoved(p)'
  <2>1. Old(p) \notin DOMAIN user'
    <3>1. CASE p \in OldPairs
      BY <3>1, <1>2, <1>6, RemapFacts
    <3>2. CASE p \notin OldPairs
      <4>1. stored[p] = "new"
        BY <3>2 DEF OldPairs, RekeyInv, RekeyTypeOK
      <4>2. Old(p) \notin DOMAIN user
        BY <4>1 DEF RekeyInv, MovedIsMoved, HasMoved
      <4> QED BY <4>2, <1>2, <1>6, RemapFacts
    <3> QED BY <3>1, <3>2
  <2>2. ASSUME NEW pair \in DOMAIN friends', Old(p) \in pair
        PROVE  friends'[pair].since = "nobody"
    <3>1. CASE p \in OldPairs
      <4>1. \A other \in DOMAIN friends \ MovedPairs : Old(p) \notin other
        BY <3>1, <1>7, RemapPairFacts DEF MovedPairs
      <4> QED BY <2>2, <3>1, <4>1, <1>5, <1>7, RemapPairFacts
    <3>2. CASE p \notin OldPairs
      <4>1. stored[p] = "new"
        BY <3>2 DEF OldPairs, RekeyInv, RekeyTypeOK
      <4>2. \A other \in DOMAIN friends : Old(p) \in other => friends[other].since = "nobody"
        BY <4>1 DEF RekeyInv, MovedIsMoved, HasMoved
      <4>3. CASE pair \in DOMAIN friends \ MovedPairs /\ friends'[pair] = friends[pair]
        BY <2>2, <4>2, <4>3
      <4>4. CASE \E from \in MovedPairs :
                   pair = RemapPair(from) /\ friends'[pair].since = friends[from].since
        BY <2>2, <4>2, <4>4, <1>7, RemapPairFacts DEF MovedPairs
      <4> QED BY <2>2, <4>3, <4>4, <1>5
    <3> QED BY <3>1, <3>2
  <2>3. author'[p] = New(p)
    <3>1. CASE p \in OldPairs
      BY <3>1, <1>8, RemapFacts DEF RekeyInv, RekeyTypeOK
    <3>2. CASE p \notin OldPairs
      <4>1. author[p] = New(p)
        BY <3>2 DEF OldPairs, RekeyInv, RekeyTypeOK, MovedIsMoved, HasMoved
      <4> QED BY <4>1, <1>8, RemapFacts
    <3> QED BY <3>1, <3>2
  <2> QED BY <2>1, <2>2, <2>3 DEF HasMoved
<1>10. RekeyTypeOK'
  <2>1. DOMAIN user' \subseteq Identities
    BY <1>2, <1>6, RemapFacts
  <2>2. ASSUME NEW pair \in DOMAIN friends'
        PROVE  /\ pair \subseteq Identities
               /\ friends'[pair] \in [by : Identities, since : {"before", "since", "nobody"}]
    <3>1. CASE pair \in DOMAIN friends \ MovedPairs /\ friends'[pair] = friends[pair]
      BY <3>1 DEF RekeyInv, RekeyTypeOK
    <3>2. CASE \E from \in MovedPairs :
                 /\ pair = RemapPair(from)
                 /\ friends'[pair] \in [by : Identities, since : {"before", "since", "nobody"}]
      BY <3>2, <1>7, RemapPairFacts
    <3> QED BY <2>2, <3>1, <3>2, <1>5
  <2>3. \A p \in People : author'[p] \in {Old(p), New(p)}
    BY <1>8, RemapFacts DEF RekeyInv, RekeyTypeOK
  <2> QED BY <1>1, <1>8, <2>1, <2>2, <2>3 DEF Rekeys, RekeyInv, RekeyTypeOK
<1>11. MovedIsMoved'
  BY <1>9 DEF MovedIsMoved
<1>12. OldIsData'
  <2> SUFFICES ASSUME NEW p \in People, Old(p) \in DOMAIN user' PROVE user'[Old(p)] = "data"
    BY DEF OldIsData
  <2>1. Old(p) \in DOMAIN user /\ user'[Old(p)] = user[Old(p)]
    BY <1>4, OldIsNotNew
  <2> QED BY <2>1 DEF RekeyInv, OldIsData
<1>13. DataIsKept'
  <2> SUFFICES ASSUME NEW p \in People \ Unknown
               PROVE  \E i \in {Old(p), New(p)} \cap DOMAIN user' :
                        /\ user'[i] = "data"
                        /\ \A j \in {Old(p), New(p)} \cap DOMAIN user' : user'[j] = "data" => j = i
    BY DEF DataIsKept
  <2>1. Old(p) \notin DOMAIN user'
    BY <1>9 DEF HasMoved
  <2>2. New(p) \in DOMAIN user' /\ user'[New(p)] = "data"
    <3>1. CASE Old(p) \in DOMAIN user
      <4>1. p \in OldPairs
        BY <3>1 DEF OldPairs, RekeyInv, RekeyTypeOK, MovedIsMoved, HasMoved
      <4> QED BY <3>1, <4>1, <1>2, <1>3, RemapFacts DEF RekeyInv, OldIsData
    <3>2. CASE Old(p) \notin DOMAIN user
      <4>1. New(p) \in DOMAIN user /\ user[New(p)] = "data"
        BY <3>2 DEF RekeyInv, DataIsKept
      <4>2. New(p) \in DOMAIN user'
        BY <4>1, <1>2, RemapFacts
      <4> QED BY <3>2, <4>1, <4>2, <1>4, OfOnePerson
    <3> QED BY <3>1, <3>2
  <2> QED BY <2>1, <2>2
<1>14. FriendsStayFriends'
  <2>1. ASSUME NEW p \in People \ Unknown, NEW q \in People \ Unknown, p # q
        PROVE  \E pair \in DOMAIN friends' : {Person(i) : i \in pair} = {p, q}
    <3>1. PICK pair \in DOMAIN friends : {Person(i) : i \in pair} = {p, q}
      BY <2>1 DEF RekeyInv, FriendsStayFriends
    <3>2. CASE pair \in MovedPairs
      <4>1. RemapPair(pair) \in DOMAIN friends'
        BY <3>2, <1>5
      <4>2. {Person(i) : i \in RemapPair(pair)} = {p, q}
        BY <3>1, <1>7, RemapPairFacts
      <4> QED BY <4>1, <4>2
    <3>3. CASE pair \notin MovedPairs
      BY <3>1, <3>3, <1>5
    <3> QED BY <3>2, <3>3
  <2>2. ASSUME NEW pair \in DOMAIN friends' PROVE friends'[pair].by \in pair
    <3>1. CASE pair \in DOMAIN friends \ MovedPairs /\ friends'[pair] = friends[pair]
      BY <3>1 DEF RekeyInv, FriendsStayFriends
    <3>2. CASE \E from \in MovedPairs :
                 pair = RemapPair(from) /\ friends'[pair].by = Remap(friends[from].by)
      <4>1. PICK from \in MovedPairs :
              pair = RemapPair(from) /\ friends'[pair].by = Remap(friends[from].by)
        BY <3>2
      <4>2. friends[from].by \in from
        BY <4>1 DEF MovedPairs, RekeyInv, FriendsStayFriends
      <4> QED BY <4>1, <4>2 DEF RemapPair
    <3> QED BY <2>2, <3>1, <3>2, <1>5
  <2> QED BY <2>1, <2>2 DEF FriendsStayFriends
<1> QED BY <1>10, <1>11, <1>12, <1>13, <1>14 DEF RekeyInv

\* Starting and giving up move nothing; a save follows a call that succeeded.
LEMMA StartsKeeps == ASSUME RekeyInv, Starts PROVE RekeyInv'
<1>1. UNCHANGED <<stored, user, friends, author>> /\ job' \in {"moved", "asked"}
  BY DEF Starts
<1>2. MovedIsMoved'
  <2> SUFFICES ASSUME NEW p \in People \ Unknown, stored'[p] = "new" \/ job' = "moved"
               PROVE  HasMoved(p)'
    BY DEF MovedIsMoved
  <2>1. stored[p] = "new"
    BY <1>1 DEF Starts, OldPairs, RekeyInv, RekeyTypeOK
  <2> QED BY <2>1, <1>1 DEF RekeyInv, MovedIsMoved, HasMoved
<1> QED BY <1>1, <1>2 DEF RekeyInv, RekeyTypeOK, OldIsData, DataIsKept, FriendsStayFriends

LEMMA GivesUpKeeps == ASSUME RekeyInv, GivesUp PROVE RekeyInv'
BY DEF GivesUp, RekeyInv, RekeyTypeOK, MovedIsMoved, HasMoved, OldIsData, DataIsKept, FriendsStayFriends

LEMMA SavesKeeps == ASSUME RekeyInv, Saves PROVE RekeyInv'
<1>1. UNCHANGED <<user, friends, author>> /\ job = "moved"
  BY DEF Saves
<1>2. RekeyTypeOK'
  BY <1>1 DEF Saves, RekeyInv, RekeyTypeOK
<1>3. MovedIsMoved'
  BY <1>1 DEF RekeyInv, MovedIsMoved, HasMoved
<1> QED BY <1>1, <1>2, <1>3 DEF RekeyInv, OldIsData, DataIsKept, FriendsStayFriends

LEMMA StepInv == RekeyInv /\ [RekeyNext]_rkVars => RekeyInv'
<1> SUFFICES ASSUME RekeyInv, [RekeyNext]_rkVars PROVE RekeyInv'
  OBVIOUS
<1>1. CASE UNCHANGED rkVars
  BY <1>1 DEF rkVars, RekeyInv, RekeyTypeOK, MovedIsMoved, HasMoved, OldIsData, DataIsKept, FriendsStayFriends
<1> QED BY <1>1, RegisterKeeps, BefriendKeeps, StartsKeeps, RekeysKeeps, GivesUpKeeps, SavesKeeps
        DEF RekeyNext

----------------------------------------------------------------------------

LEMMA Inductive == RekeySpec => []RekeyInv
BY InitInv, StepInv, PTL DEF RekeySpec

\* DbInitializer.cs: core-api's copy never runs ahead of the chat database's rows.
THEOREM AdvancedIsAlwaysMoved == RekeySpec => []AdvancedIsMoved
<1>1. RekeyInv => AdvancedIsMoved
  BY DEF RekeyInv, MovedIsMoved, HasMoved, AdvancedIsMoved
<1> QED BY <1>1, Inductive, PTL

\* rekey.rs: a row is never lost to a placeholder and never doubled.
THEOREM DataIsAlwaysKept == RekeySpec => []DataIsKept
<1>1. RekeyInv => DataIsKept
  BY DEF RekeyInv
<1> QED BY <1>1, Inductive, PTL

\* rekey.rs: no friendship is lost by the move, and it names its requester right.
THEOREM FriendsAlwaysStay == RekeySpec => []FriendsStayFriends
<1>1. RekeyInv => FriendsStayFriends
  BY DEF RekeyInv
<1> QED BY <1>1, Inductive, PTL
----------------------------------------------------------------------------
(* The channels and their ids *)

\* What hangs on the channels of a set of tables hangs on rows that are there.
Coherent(t) ==
  /\ \A m \in Live(t.message) : t.message[m].channel \in Live(t.channel)
  /\ t.cursors \subseteq Live(t.channel)
  /\ \A m \in t.pinned : m \in Live(t.message) /\ ~t.message[m].deleted

IdsInv ==
  /\ ChannelsTypeOK
  /\ counter = 0 => \A i \in Live(channel) : i < sequence
  /\ Coherent(Tables)
  /\ Coherent(archive)

LEMMA LeastNumber ==
  ASSUME NEW S \in SUBSET Nat, S # {}
  PROVE  \E n \in S : \A m \in S : n <= m
<1> DEFINE R == OpToRel(<, Nat)
<1>1. IsWellFoundedOn(R, Nat)
  BY NatLessThanWellFounded
<1>2. \A m, n \in Nat : <<m, n>> \in R <=> m < n
  BY DEF OpToRel
<1> HIDE DEF R
<1>3. \E n \in S : \A m \in S : ~ (<<m, n>> \in R)
  BY <1>1, WFMin
<1>4. PICK n \in S : \A m \in S : ~ (<<m, n>> \in R)
  BY <1>3
<1>5. ASSUME NEW m \in S PROVE n <= m
  <2>1. m \in Nat /\ n \in Nat
    OBVIOUS
  <2>2. ~ (m < n)
    BY <1>2, <1>4, <2>1
  <2>. QED
    BY <2>1, <2>2
<1>. QED
  BY <1>5

\* A counter that meets a row goes on to the next id without one; MaxId + 1 ids
\* in a row cannot all be taken.
LEMMA NextIdIsFree ==
  ASSUME ChannelsTypeOK, counter = 0 => \A i \in Live(channel) : i < sequence
  PROVE  NextId \in Nat /\ NextId # 0 /\ NextId \notin Live(channel)
<1>1. Live(channel) \subseteq Ids /\ MaxId \in Nat /\ MaxId # 0
  BY ChannelsAssumption DEF ChannelsTypeOK, TablesType, Tables, Live
<1>2. CASE counter = 0
  BY <1>2 DEF NextId, ChannelsTypeOK
<1>3. CASE counter # 0
  <2> DEFINE free == {n \in counter .. counter + MaxId : n \notin Live(channel)}
  <2>1. counter \in Nat /\ counter # 0
    BY <1>3 DEF ChannelsTypeOK
  <2>2. counter + MaxId \in free
    BY <1>1, <2>1 DEF Ids
  <2>3. free \subseteq Nat
    BY <1>1, <2>1
  <2>4. PICK n \in free : \A m \in free : n <= m
    BY <2>2, <2>3, LeastNumber
  <2>5. /\ n \in counter .. counter + MaxId /\ n \notin Live(channel)
        /\ \A m \in counter .. n - 1 : m \in Live(channel)
    BY <1>1, <2>1, <2>4
  <2>6. NextId \in counter .. counter + MaxId /\ NextId \notin Live(channel)
    BY <1>3, <2>5 DEF NextId
  <2>. QED
    BY <1>1, <2>1, <2>6
<1>. QED
  BY <1>2, <1>3

\* The largest id of some rows is one of them.
LEMMA LargestIdIsOne ==
  ASSUME NEW rows, Live(rows) \subseteq Ids, Live(rows) # {}
  PROVE  LargestId(rows) \in Live(rows)
<1> DEFINE above == {n \in Nat : \A i \in Live(rows) : i <= n}
<1>1. MaxId \in Nat /\ Live(rows) \subseteq 1 .. MaxId
  BY ChannelsAssumption DEF Ids
<1>2. MaxId \in above
  BY <1>1
<1>3. PICK n \in above : \A m \in above : n <= m
  BY <1>2, LeastNumber
<1>4. n \in Live(rows)
  <2>. SUFFICES ASSUME n \notin Live(rows) PROVE FALSE
    OBVIOUS
  <2>1. n \in Nat /\ \A i \in Live(rows) : i \in Nat /\ i # 0 /\ i <= n
    BY <1>1
  <2>2. \A i \in Live(rows) : i <= n - 1
    BY <2>1
  <2>3. n - 1 \in Nat
    BY <2>1, <2>2
  <2>4. n - 1 \in above
    BY <2>2, <2>3
  <2>. QED
    BY <1>3, <2>1, <2>4
<1>5. \E i \in Live(rows) : \A j \in Live(rows) : j <= i
  BY <1>4
<1>. QED
  BY <1>5 DEF LargestId

LEMMA RaisedIsCounter ==
  ASSUME NEW maxId \in Nat, counter \in Nat
  PROVE  /\ Raised(maxId) \in Nat
         /\ Raised(maxId) = 0 => counter = 0 /\ maxId = 0
BY DEF Raised

\* The numbers that renumbering a section writes.
LEMMA IndexIsNumber ==
  ASSUME NEW rows, NEW group \in SUBSET Ids, NEW i
  PROVE  IndexAmong(rows, group, i) \in Nat /\ Cardinality(group) \in Nat
<1>1. IsFiniteSet(Ids)
  BY ChannelsAssumption, FS_Interval DEF Ids
<1>2. {j \in group \ {i} : Before(rows, j, i)} \subseteq Ids
  OBVIOUS
<1>3. IsFiniteSet(group) /\ IsFiniteSet({j \in group \ {i} : Before(rows, j, i)})
  BY <1>1, <1>2, FS_Subset
<1>. QED
  BY <1>3, FS_CardinalityType DEF IndexAmong

\* Moving a channel takes no row away and makes none.
LEMMA MovedToKeepsRows ==
  ASSUME ChannelsTypeOK, NEW i \in Live(channel), NEW section \in Sections, NEW position \in Int
  PROVE  /\ MovedTo(i, section, position) \in [Ids -> ChannelRow \cup {None}]
         /\ Live(MovedTo(i, section, position)) = Live(channel)
<1> DEFINE entered == InSection(channel, channel[i].space, section) \ {i}
           left    == Siblings(i) \ {i}
           index   == Smaller(position, Cardinality(entered))
           n(j)    == IndexAmong(channel, entered, j)
           moved   == MovedTo(i, section, position)
<1>1. channel \in [Ids -> ChannelRow \cup {None}]
  BY DEF ChannelsTypeOK, TablesType, Tables
<1>2. Live(channel) \subseteq Ids /\ \A j \in Live(channel) : channel[j] \in ChannelRow
  BY <1>1 DEF Live
<1>3. entered \in SUBSET Live(channel) /\ left \in SUBSET Live(channel)
  BY DEF InSection, Siblings
<1>4. index \in Int
  BY <1>2, <1>3, IndexIsNumber DEF Smaller
<1>5. \A j : n(j) \in Int /\ IndexAmong(channel, left, j) \in Int
  BY <1>2, <1>3, IndexIsNumber
<1>6. \A row \in ChannelRow, p \in Int :
        /\ [row EXCEPT !.position = p] \in ChannelRow
        /\ [row EXCEPT !.section = section, !.position = p] \in ChannelRow
  BY DEF ChannelRow
<1>7. moved = [j \in Ids |->
          IF j = i
          THEN [channel[i] EXCEPT !.section = section, !.position = index]
          ELSE IF j \in entered
          THEN [channel[j] EXCEPT !.position = IF n(j) < index THEN n(j) ELSE n(j) + 1]
          ELSE IF j \in left
          THEN [channel[j] EXCEPT !.position = IndexAmong(channel, left, j)]
          ELSE channel[j]]
  BY DEF MovedTo
<1> HIDE DEF moved, entered, left, index, n
<1>8. ASSUME NEW j \in Ids
      PROVE  /\ j \in Live(channel) => moved[j] \in ChannelRow
             /\ j \notin Live(channel) => moved[j] = None
  <2>1. CASE j = i
    BY <1>2, <1>4, <1>6, <1>7, <2>1
  <2>2. CASE j # i /\ j \in entered
    <3> DEFINE p == IF n(j) < index THEN n(j) ELSE n(j) + 1
    <3>1. p \in Int
      BY <1>4, <1>5
    <3>2. moved[j] = [channel[j] EXCEPT !.position = p]
      BY <1>7, <2>2
    <3> HIDE DEF p
    <3>. QED
      BY <1>2, <1>3, <1>6, <2>2, <3>1, <3>2
  <2>3. CASE j # i /\ j \notin entered /\ j \in left
    BY <1>2, <1>3, <1>5, <1>6, <1>7, <2>3
  <2>4. CASE j # i /\ j \notin entered /\ j \notin left
    BY <1>1, <1>2, <1>7, <2>4 DEF Live
  <2>. QED
    BY <2>1, <2>2, <2>3, <2>4
<1>9. moved \in [Ids -> ChannelRow \cup {None}]
  <2>1. \A j \in Ids : moved[j] \in ChannelRow \cup {None}
    BY <1>8
  <2>2. moved = [j \in Ids |-> moved[j]]
    BY <1>7
  <2>. QED
    BY <2>1, <2>2
<1>10. Live(moved) = Live(channel)
  BY <1>1, <1>8, <1>9, NoneAssumption DEF Live
<1>. QED
  BY <1>9, <1>10 DEF moved

\* A step that keeps the rows of the channels and what hangs on them.
LEMMA RowsKept ==
  ASSUME IdsInv,
         channel' \in [Ids -> ChannelRow \cup {None}], Live(channel') = Live(channel),
         UNCHANGED <<spaces, message, pinned, cursors, sequence, counter, wiped, archive>>
  PROVE  IdsInv'
BY DEF IdsInv, ChannelsTypeOK, TablesType, Tables, Coherent

\* Channels go with all that hangs on them.
LEMMA DroppedCoherently ==
  ASSUME IdsInv, NEW gone \in SUBSET Ids, DropChannels(gone), spaces' \subseteq spaces,
         UNCHANGED <<sequence, counter, wiped, archive>>
  PROVE  IdsInv'
<1> DEFINE lost == {m \in Live(message) : message[m].channel \in gone}
<1>1. /\ channel \in [Ids -> ChannelRow \cup {None}] /\ message \in [Messages -> MessageRow \cup {None}]
      /\ spaces \subseteq Spaces /\ pinned \subseteq Messages /\ cursors \subseteq Ids
  BY DEF IdsInv, ChannelsTypeOK, TablesType, Tables
<1>2. /\ channel' = [i \in Ids |-> IF i \in gone THEN None ELSE channel[i]]
      /\ message' = [m \in Messages |-> IF m \in lost THEN None ELSE message[m]]
      /\ pinned' = pinned \ lost /\ cursors' = cursors \ gone
  BY DEF DropChannels
<1>3. Live(channel') = Live(channel) \ gone
  BY <1>1, <1>2 DEF Live
<1>4. Live(message') = Live(message) \ lost /\ \A m \in Live(message') : message'[m] = message[m]
  BY <1>1, <1>2 DEF Live
<1>5. Tables' \in TablesType
  BY <1>1, <1>2 DEF TablesType, Tables
<1>6. Coherent(Tables)'
  BY <1>1, <1>2, <1>3, <1>4 DEF Coherent, Tables, IdsInv
<1>. QED
  BY <1>3, <1>5, <1>6 DEF IdsInv, ChannelsTypeOK

\* A step that changes what hangs on the channels only.
LEMMA RowsHang ==
  ASSUME IdsInv, Elsewhere, message' \in [Messages -> MessageRow \cup {None}],
         pinned' \subseteq Messages, cursors' \subseteq Live(channel),
         \A m \in Live(message') : message'[m].channel \in Live(channel),
         \A m \in pinned' : m \in Live(message') /\ ~message'[m].deleted
  PROVE  IdsInv'
<1>1. Live(channel) \subseteq Ids
  BY DEF IdsInv, ChannelsTypeOK, TablesType, Tables, Live
<1>. QED
  BY <1>1 DEF IdsInv, ChannelsTypeOK, TablesType, Tables, Coherent, Elsewhere

LEMMA NoTablesAreCoherent == NoTables \in TablesType /\ Coherent(NoTables) /\ Live(NoTables.channel) = {}
<1>1. Live(NoTables.channel) = {} /\ Live(NoTables.message) = {}
  BY DEF NoTables, Live
<1>2. NoTables \in TablesType
  BY DEF NoTables, TablesType
<1>. QED
  BY <1>1, <1>2 DEF NoTables, Coherent

LEMMA InitIds == ChannelsInit => IdsInv
<1>. SUFFICES ASSUME ChannelsInit PROVE IdsInv
  OBVIOUS
<1>1. Tables = NoTables /\ archive = NoTables
  BY DEF ChannelsInit, Tables, NoTables
<1>2. Live(channel) = {}
  BY NoTablesAreCoherent DEF ChannelsInit
<1>3. Coherent(Tables) /\ Coherent(archive)
  BY <1>1, NoTablesAreCoherent
<1>4. Tables \in TablesType /\ archive \in TablesType
  BY <1>1, NoTablesAreCoherent
<1>5. sequence \in Nat \ {0} /\ counter \in Nat
  BY DEF ChannelsInit
<1>6. wiped \in BOOLEAN
  BY DEF ChannelsInit
<1>. QED
  BY <1>2, <1>3, <1>4, <1>5, <1>6 DEF IdsInv, ChannelsTypeOK

\* New rows take ids that were free, and the ids move on.
LEMMA NewSpaceKeepsIds ==
  ASSUME IdsInv, NEW space \in Spaces, CreateSpace(space)
  PROVE  IdsInv'
<1> DEFINE row(kind) == [space |-> space, section |-> DefaultSection, position |-> 0, kind |-> kind]
<1>1. NextId \in Ids /\ NextId + 1 \in Ids /\ NextId \notin Live(channel) /\ NextId + 1 \notin Live(channel)
  BY NextIdIsFree, ChannelsAssumption DEF IdsInv, CreateSpace, Ids
<1>2. row("message") \in ChannelRow /\ row("voice") \in ChannelRow
  BY ChannelsAssumption DEF ChannelRow
<1>3. /\ channel \in [Ids -> ChannelRow \cup {None}] /\ message \in [Messages -> MessageRow \cup {None}]
      /\ spaces \subseteq Spaces /\ pinned \subseteq Messages /\ cursors \subseteq Ids
      /\ sequence \in Nat \ {0} /\ counter \in Nat
  BY DEF IdsInv, ChannelsTypeOK, TablesType, Tables
<1>4. \A i \in Ids : channel'[i] = IF i = NextId + 1 THEN row("voice")
                                   ELSE IF i = NextId THEN row("message") ELSE channel[i]
  BY <1>1, <1>3 DEF CreateSpace
<1>5. channel' \in [Ids -> ChannelRow \cup {None}]
  BY <1>1, <1>2, <1>3 DEF CreateSpace
<1>6. Live(channel') = Live(channel) \cup {NextId, NextId + 1}
  BY <1>1, <1>2, <1>3, <1>4, <1>5, NoneAssumption DEF Live
<1>7. counter' = 0 => counter = 0 /\ sequence' = sequence + 2 /\ NextId = sequence
  BY <1>1, <1>3 DEF CreateSpace, NextId, Ids
<1>8. counter' = 0 => \A i \in Live(channel') : i < sequence'
  BY <1>3, <1>6, <1>7 DEF IdsInv, Live, Ids
<1>9. sequence' \in Nat \ {0} /\ counter' \in Nat
  BY <1>1, <1>3 DEF CreateSpace, Ids
<1>10. Tables' \in TablesType
  BY <1>3, <1>5 DEF CreateSpace, TablesType, Tables
<1>11. Coherent(Tables)'
  BY <1>3, <1>6 DEF CreateSpace, IdsInv, Coherent, Tables
<1>. QED
  BY <1>8, <1>9, <1>10, <1>11 DEF CreateSpace, IdsInv, ChannelsTypeOK

LEMMA NewChannelKeepsIds ==
  ASSUME IdsInv, NEW space \in Spaces, NEW section \in Sections, NEW kind \in {"message", "voice"},
         CreateChannel(space, section, kind)
  PROVE  IdsInv'
<1> DEFINE row == [space |-> space, section |-> section,
                   position |-> Cardinality(InSection(channel, space, section)), kind |-> kind]
<1>1. NextId \in Ids /\ NextId \notin Live(channel)
  BY NextIdIsFree DEF IdsInv, CreateChannel
<1>3. /\ channel \in [Ids -> ChannelRow \cup {None}] /\ message \in [Messages -> MessageRow \cup {None}]
      /\ spaces \subseteq Spaces /\ pinned \subseteq Messages /\ cursors \subseteq Ids
      /\ sequence \in Nat \ {0} /\ counter \in Nat
  BY DEF IdsInv, ChannelsTypeOK, TablesType, Tables
<1>2. row \in ChannelRow
  <2>1. InSection(channel, space, section) \in SUBSET Ids
    BY <1>3 DEF InSection, Live
  <2>2. Cardinality(InSection(channel, space, section)) \in Int
    BY <2>1, IndexIsNumber
  <2>. QED
    BY <2>2 DEF ChannelRow
<1>4. \A i \in Ids : channel'[i] = IF i = NextId THEN row ELSE channel[i]
  BY <1>1, <1>3 DEF CreateChannel
<1>5. channel' \in [Ids -> ChannelRow \cup {None}]
  BY <1>1, <1>2, <1>3 DEF CreateChannel
<1>6. Live(channel') = Live(channel) \cup {NextId}
  BY <1>1, <1>2, <1>3, <1>4, <1>5, NoneAssumption DEF Live
<1>7. counter' = 0 => counter = 0 /\ sequence' = sequence + 1 /\ NextId = sequence
  BY <1>1, <1>3 DEF CreateChannel, TakesId, NextId, Ids
<1>8. counter' = 0 => \A i \in Live(channel') : i < sequence'
  BY <1>3, <1>6, <1>7 DEF IdsInv, Live, Ids
<1>9. sequence' \in Nat \ {0} /\ counter' \in Nat
  BY <1>1, <1>3 DEF CreateChannel, TakesId, Ids
<1>10. Tables' \in TablesType
  BY <1>3, <1>5 DEF CreateChannel, TablesType, Tables
<1>11. Coherent(Tables)'
  BY <1>3, <1>6 DEF CreateChannel, IdsInv, Coherent, Tables
<1>. QED
  BY <1>8, <1>9, <1>10, <1>11 DEF CreateChannel, IdsInv, ChannelsTypeOK

\* Every way to reorder channels keeps their rows.
LEMMA ReorderKeepsIds ==
  ASSUME IdsInv, NEW i \in Ids,
         \/ \E up \in BOOLEAN : MoveChannel(i, up)
         \/ \E p \in Positions : UpdateChannel(i, p)
         \/ \E section \in Sections :
              \/ SetChannelSection(i, section)
              \/ \E p \in Positions : MoveChannelTo(i, section, p)
         \/ \E target \in Ids, after \in BOOLEAN : MoveChannelRelative(i, target, after)
  PROVE  IdsInv'
<1>1. channel \in [Ids -> ChannelRow \cup {None}] /\ \A j \in Live(channel) : j \in Ids /\ channel[j] \in ChannelRow
  BY DEF IdsInv, ChannelsTypeOK, TablesType, Tables, Live
<1>2. \A j \in Live(channel) : channel[j].section \in Sections
  BY <1>1 DEF ChannelRow
<1>3. ASSUME NEW section \in Sections, NEW position \in Int, i \in Live(channel), Reorders,
             channel' = MovedTo(i, section, position)
      PROVE  IdsInv'
  BY <1>3, MovedToKeepsRows, RowsKept DEF IdsInv, Reorders
<1>4. ASSUME NEW up \in BOOLEAN, MoveChannel(i, up) PROVE IdsInv'
  <2> DEFINE index == IndexAmong(channel, Siblings(i), i)
  <2>1. i \in Live(channel) /\ Reorders
        /\ channel' = MovedTo(i, channel[i].section, IF up THEN index - 1 ELSE index + 1)
    BY <1>4 DEF MoveChannel
  <2>2. Siblings(i) \in SUBSET Ids
    BY <1>1 DEF Siblings, InSection
  <2>3. index \in Nat
    BY <2>2, IndexIsNumber
  <2>4. (IF up THEN index - 1 ELSE index + 1) \in Int
    BY <2>3
  <2>. QED
    BY <1>2, <1>3, <2>1, <2>4
<1>5. ASSUME NEW p \in Positions, UpdateChannel(i, p) PROVE IdsInv'
  <2>1. i \in Live(channel) /\ channel' = [channel EXCEPT ![i].position = p] /\ p \in Int
    BY <1>5, ChannelsAssumption DEF UpdateChannel, Positions
  <2>2. [channel[i] EXCEPT !.position = p] \in ChannelRow
    BY <1>1, <2>1 DEF ChannelRow
  <2>3. channel' \in [Ids -> ChannelRow \cup {None}]
    BY <1>1, <2>1, <2>2
  <2>4. Live(channel') = Live(channel)
    BY <1>1, <2>1, <2>2, <2>3, NoneAssumption DEF Live
  <2>. QED
    BY <1>5, <2>3, <2>4, RowsKept DEF UpdateChannel, Reorders
<1>6. ASSUME NEW section \in Sections, SetChannelSection(i, section) PROVE IdsInv'
  <2>1. InSection(channel, channel[i].space, section) \in SUBSET Ids
    BY <1>1 DEF InSection
  <2>2. Cardinality(InSection(channel, channel[i].space, section)) \in Int
    BY <2>1, IndexIsNumber
  <2>. QED
    BY <1>3, <1>6, <2>2 DEF SetChannelSection
<1>7. ASSUME NEW section \in Sections, NEW p \in Positions, MoveChannelTo(i, section, p) PROVE IdsInv'
  BY <1>3, <1>7, ChannelsAssumption DEF MoveChannelTo, Positions
<1>8. ASSUME NEW target \in Ids, NEW after \in BOOLEAN, MoveChannelRelative(i, target, after) PROVE IdsInv'
  <2> DEFINE index == IndexAmong(channel, Siblings(target) \ {i}, target)
  <2>1. Siblings(target) \ {i} \in SUBSET Ids
    BY <1>1 DEF Siblings, InSection
  <2>2. index \in Nat
    BY <2>1, IndexIsNumber
  <2>3. (IF after THEN index + 1 ELSE index) \in Int
    BY <2>2
  <2>4. /\ i \in Live(channel) /\ target \in Live(channel) /\ Reorders
        /\ channel' = MovedTo(i, channel[target].section, IF after THEN index + 1 ELSE index)
    BY <1>8 DEF MoveChannelRelative, Beside
  <2>. QED
    BY <1>2, <1>3, <2>3, <2>4
<1>. QED
  BY <1>4, <1>5, <1>6, <1>7, <1>8

\* Messages, pins and read cursors hang on rows that are there.
LEMMA HangingKeepsIds ==
  ASSUME IdsInv,
         \/ \E i \in Ids : MarkChannelRead(i) \/ \E m \in Messages : SendMessage(m, i)
         \/ \E m \in Messages : DeleteMessage(m) \/ PinMessage(m) \/ UnpinMessage(m)
  PROVE  IdsInv'
<1>1. /\ channel \in [Ids -> ChannelRow \cup {None}] /\ message \in [Messages -> MessageRow \cup {None}]
      /\ pinned \subseteq Messages /\ cursors \subseteq Ids
  BY DEF IdsInv, ChannelsTypeOK, TablesType, Tables
<1>2. /\ \A m \in Live(message) : message[m].channel \in Live(channel)
      /\ cursors \subseteq Live(channel)
      /\ \A m \in pinned : m \in Live(message) /\ ~message[m].deleted
  BY DEF IdsInv, Coherent, Tables
<1>3. ASSUME NEW i \in Ids, MarkChannelRead(i) PROVE IdsInv'
  BY <1>1, <1>2, <1>3, RowsHang DEF MarkChannelRead
<1>4. ASSUME NEW i \in Ids, NEW m \in Messages, SendMessage(m, i) PROVE IdsInv'
  <2> DEFINE row == [channel |-> i, deleted |-> FALSE]
  <2>1. row \in MessageRow /\ message[m] = None /\ i \in Live(channel)
    BY <1>4 DEF SendMessage, MessageRow
  <2>2. message' = [message EXCEPT ![m] = row]
    BY <1>4 DEF SendMessage
  <2>3. message' \in [Messages -> MessageRow \cup {None}]
    BY <1>1, <2>1, <2>2
  <2>4. \A n \in Messages : message'[n] = IF n = m THEN row ELSE message[n]
    BY <1>1, <2>2
  <2>5. \A n \in Live(message') : n = m \/ (n \in Live(message) /\ message'[n] = message[n])
    BY <1>1, <2>3, <2>4 DEF Live
  <2>6. \A n \in Live(message') : message'[n].channel \in Live(channel)
    BY <1>2, <2>1, <2>4, <2>5
  <2>7. \A n \in pinned : n # m /\ n \in Live(message') /\ ~message'[n].deleted
    BY <1>1, <1>2, <2>1, <2>3, <2>4 DEF Live
  <2>. QED
    BY <1>1, <1>2, <1>4, <2>3, <2>6, <2>7, RowsHang DEF SendMessage
<1>5. ASSUME NEW m \in Messages, DeleteMessage(m) PROVE IdsInv'
  <2>1. m \in Live(message) /\ message[m] \in MessageRow
    BY <1>1, <1>5 DEF DeleteMessage, Live
  <2>2. [message[m] EXCEPT !.deleted = TRUE] \in MessageRow
        /\ [message[m] EXCEPT !.deleted = TRUE].channel = message[m].channel
    BY <2>1 DEF MessageRow
  <2>3. message' = [message EXCEPT ![m].deleted = TRUE]
    BY <1>5 DEF DeleteMessage
  <2>4. message' \in [Messages -> MessageRow \cup {None}]
    BY <1>1, <2>2, <2>3
  <2>5. \A n \in Messages : n # m => message'[n] = message[n]
    BY <1>1, <2>3
  <2>6. message'[m] = [message[m] EXCEPT !.deleted = TRUE]
    BY <1>1, <2>3
  <2>7. Live(message') = Live(message)
    BY <1>1, <2>1, <2>2, <2>4, <2>5, <2>6, NoneAssumption DEF Live
  <2>8. \A n \in Live(message') : message'[n].channel \in Live(channel)
    BY <1>1, <1>2, <2>2, <2>5, <2>6, <2>7 DEF Live
  <2>9. pinned' = pinned \ {m} /\ \A n \in pinned' : n \in Live(message') /\ ~message'[n].deleted
    BY <1>1, <1>2, <1>5, <2>5, <2>7 DEF DeleteMessage
  <2>. QED
    BY <1>1, <1>2, <1>5, <2>4, <2>8, <2>9, RowsHang DEF DeleteMessage
<1>6. ASSUME NEW m \in Messages, PinMessage(m) PROVE IdsInv'
  BY <1>1, <1>2, <1>6, RowsHang DEF PinMessage
<1>7. ASSUME NEW m \in Messages, UnpinMessage(m) PROVE IdsInv'
  BY <1>1, <1>2, <1>7, RowsHang DEF UnpinMessage
<1>. QED
  BY <1>3, <1>4, <1>5, <1>6, <1>7

\* A wipe starts the ids again; the first channel that is restored brings a
\* counter above it.
LEMMA RebuildKeepsIds ==
  ASSUME IdsInv,
         \/ Wipe \/ RestoreTheRest \/ ReseedIdCounters
         \/ \E batch \in SUBSET Live(archive.channel) : batch # {} /\ RestoreChannels(batch)
  PROVE  IdsInv'
<1>1. /\ channel \in [Ids -> ChannelRow \cup {None}] /\ Tables \in TablesType /\ archive \in TablesType
      /\ archive.channel \in [Ids -> ChannelRow \cup {None}] /\ counter \in Nat
  BY DEF IdsInv, ChannelsTypeOK, TablesType, Tables
<1>2. CASE Wipe
  <2>1. Tables' = NoTables /\ archive' = Tables /\ sequence' = 1 /\ counter' = 0 /\ wiped' = TRUE
    BY <1>2 DEF Wipe, Tables, NoTables
  <2>2. NoTables \in TablesType /\ Coherent(NoTables) /\ Live(NoTables.channel) = {}
    BY NoTablesAreCoherent
  <2>3. Live(channel') = {}
    BY <1>2, <2>2 DEF Wipe
  <2>4. Coherent(Tables)' /\ Coherent(archive)'
    BY <2>1, <2>2 DEF IdsInv, Coherent
  <2>. QED
    BY <1>1, <2>1, <2>2, <2>3, <2>4 DEF IdsInv, ChannelsTypeOK
<1>3. CASE RestoreTheRest
  <2>1. Live(archive.channel) \subseteq Live(channel)
    BY <1>3 DEF RestoreTheRest
  <2>2. NoTables \in TablesType /\ Coherent(NoTables)
    BY NoTablesAreCoherent
  <2>3. Tables' \in TablesType
    BY <1>1, <1>3 DEF RestoreTheRest, Tables, TablesType
  <2>4. Coherent(Tables)'
    BY <1>3, <2>1 DEF RestoreTheRest, IdsInv, Coherent, Tables
  <2>5. Coherent(archive)'
    BY <1>3, <2>2 DEF RestoreTheRest, Coherent
  <2>. QED
    BY <1>3, <2>2, <2>3, <2>4, <2>5 DEF RestoreTheRest, IdsInv, ChannelsTypeOK
<1>4. CASE ReseedIdCounters
  <2>1. LargestId(channel) \in Nat
    <3>1. CASE Live(channel) = {}
      BY <3>1 DEF LargestId
    <3>2. CASE Live(channel) # {}
      <4>1. Live(channel) \subseteq Ids
        BY <1>1 DEF Live
      <4>. QED
        BY <3>2, <4>1, LargestIdIsOne DEF Ids
    <3>. QED
      BY <3>1, <3>2
  <2>2. counter' \in Nat /\ (counter' = 0 => counter = 0)
    BY <1>1, <1>4, <2>1, RaisedIsCounter DEF ReseedIdCounters
  <2>3. channel' = channel /\ Tables' = Tables
    BY <1>4 DEF ReseedIdCounters, tables, Tables
  <2>. QED
    BY <1>4, <2>2, <2>3 DEF ReseedIdCounters, IdsInv, ChannelsTypeOK, Coherent
<1>5. ASSUME NEW batch \in SUBSET Live(archive.channel), batch # {}, RestoreChannels(batch)
      PROVE  IdsInv'
  <2> DEFINE rows == [i \in batch |-> archive.channel[i]]
  <2>1. batch \subseteq Ids /\ \A i \in batch : archive.channel[i] \in ChannelRow
    BY <1>1 DEF Live
  <2>2. Live(rows) = batch
    BY <2>1, NoneAssumption DEF Live
  <2>3. LargestId(rows) \in Nat /\ LargestId(rows) # 0
    BY <1>5, <2>1, <2>2, LargestIdIsOne DEF Ids
  <2>4. counter' \in Nat /\ counter' # 0
    BY <1>1, <1>5, <2>3, RaisedIsCounter DEF RestoreChannels
  <2>5. channel' \in [Ids -> ChannelRow \cup {None}]
    BY <1>1, <1>5 DEF RestoreChannels
  <2>6. Live(channel) \subseteq Live(channel')
    BY <1>1, <1>5, <2>1, <2>5, NoneAssumption DEF RestoreChannels, Live
  <2>7. Tables' \in TablesType
    BY <1>1, <1>5, <2>5 DEF RestoreChannels, Tables, TablesType
  <2>8. Coherent(Tables)'
    BY <1>5, <2>6 DEF RestoreChannels, IdsInv, Coherent, Tables
  <2>. QED
    BY <1>5, <2>4, <2>7, <2>8 DEF RestoreChannels, IdsInv, ChannelsTypeOK, Coherent
<1>. QED
  BY <1>2, <1>3, <1>4, <1>5

LEMMA StepIds == IdsInv /\ [ChannelsNext]_chVars => IdsInv'
<1>. SUFFICES ASSUME IdsInv, [ChannelsNext]_chVars PROVE IdsInv'
  OBVIOUS
<1>1. ASSUME NEW space \in Spaces, NEW section \in Sections, DeleteChannelSection(space, section)
      PROVE  IdsInv'
  <2>1. InSection(channel, space, section) \in SUBSET Ids
    BY DEF InSection, Live, IdsInv, ChannelsTypeOK, TablesType, Tables
  <2>. QED
    BY <1>1, <2>1, DroppedCoherently DEF DeleteChannelSection
<1>2. ASSUME NEW space \in Spaces, DeleteSpace(space) PROVE IdsInv'
  <2>1. {i \in Live(channel) : channel[i].space = space} \in SUBSET Ids
    BY DEF Live, IdsInv, ChannelsTypeOK, TablesType, Tables
  <2>. QED
    BY <1>2, <2>1, DroppedCoherently DEF DeleteSpace
<1>3. ASSUME NEW i \in Ids, DeleteChannel(i) PROVE IdsInv'
  BY <1>3, DroppedCoherently DEF DeleteChannel
<1>4. CASE UNCHANGED chVars
  BY <1>4 DEF chVars, tables, IdsInv, ChannelsTypeOK, Tables, Coherent
<1>. QED
  BY <1>1, <1>2, <1>3, <1>4, NewSpaceKeepsIds, NewChannelKeepsIds, ReorderKeepsIds, HangingKeepsIds,
     RebuildKeepsIds DEF ChannelsNext

LEMMA IdsAlways == ChannelsSpec => []IdsInv
BY InitIds, StepIds, PTL DEF ChannelsSpec

\* helpers.rs alloc_id: whatever was deleted, wiped and restored, the next id is
\* that of no channel, and no message or read cursor waits for it.
THEOREM NextIdIsAlwaysUnused == ChannelsSpec => []NextIdIsUnused
<1>1. IdsInv => NextIdIsUnused
  BY NextIdIsFree DEF IdsInv, NextIdIsUnused, Coherent, Tables
<1>. QED
  BY <1>1, IdsAlways, PTL

\* delete_channel_with_dependencies: whatever goes, and in whichever order tables
\* come back, no message, read cursor or pin is left without what it hangs on.
THEOREM NothingEverDangles == ChannelsSpec => []NothingDangles
<1>1. IdsInv => NothingDangles
  BY DEF IdsInv, NothingDangles, Coherent, Tables
<1>. QED
  BY <1>1, IdsAlways, PTL

-----------------------------------------------------------------------------
(* The client's connection *)

Statuses == {"connecting", "connected", "disconnected", "error"}
SocketStates == {"free", "opening", "open", "applied", "closing"}

SocketType ==
  [at : SocketStates, who : SocketIdentities, waits : BOOLEAN, established : BOOLEAN,
   abandoned : BOOLEAN, candidate : Nat, gzip : BOOLEAN, verify : BOOLEAN,
   login : Accounts \cup {Nothing}, retry : BOOLEAN]

ClientType ==
  [token : SocketIdentities \cup {Nothing}, intentional : BOOLEAN, status : Statuses,
   synced : BOOLEAN, identity : SocketIdentities \cup {Nothing},
   user : Accounts \cup {Nothing}, stores : SUBSET SocketIdentities, live : BOOLEAN,
   queue : SUBSET SocketIdentities, connection : Sockets \cup {Nothing},
   promise : Sockets \cup {Nothing}, timer : BOOLEAN, heartbeat : BOOLEAN,
   downgraded : BOOLEAN, shown : SocketIdentities \cup {Nothing},
   sock : [Sockets -> SocketType]]

\* An attempt that connect() still waits for.
Waiting(c, s) == c.sock[s].waits /\ ~c.sock[s].abandoned

\* An attempt waits for a socket that has no rows yet.
AttemptsWait(c) ==
  \A s \in Sockets : c.sock[s].waits =>
    ~c.sock[s].established /\ c.sock[s].at \notin {"free", "applied"}

\* The socket in use is the handle's, and it is its identity that is shown.
OneInUse(c) ==
  \A s \in Sockets :
    /\ c.sock[s].at \in {"opening", "open", "applied"} => c.connection = s
    /\ c.sock[s].at \in {"open", "applied"} => c.identity = c.sock[s].who
    /\ c.sock[s].at \in {"opening", "open"} => Waiting(c, s)

\* connectPromise stands for the one attempt that was not abandoned.
PromiseOK(c) ==
  /\ \A s \in Sockets : Waiting(c, s) => c.promise = s
  /\ c.promise # Nothing => c.promise = c.connection /\ Waiting(c, c.promise)

\* The handle of a socket that had its rows, and may be closing.
HasRows(c) ==
  /\ c.connection # Nothing
  /\ c.sock[c.connection].at \in {"applied", "closing"} /\ c.sock[c.connection].established

HandleOK(c) ==
  c.connection # Nothing /\ c.sock[c.connection].at \in {"applied", "closing"}
    => HasRows(c) \/ Waiting(c, c.connection)

\* Rows reach the stores only from a socket that has its rows.
StoresOK(c) ==
  /\ c.live => HasRows(c) /\ c.stores = {c.identity} /\ c.queue \subseteq {c.identity}
  /\ ~c.live => c.queue = {}

Held(c) ==
  c \in ClientType /\ AttemptsWait(c) /\ OneInUse(c) /\ PromiseOK(c) /\ HandleOK(c) /\ StoresOK(c)

\* connect() can do without another handle, or finds one.
Ready(c) == Active(c) \/ c.promise # Nothing \/ FreeSockets(c) # {}

\* What brings a session back.
UnderWay(c) ==
  HasRows(c) \/ c.timer \/ (c.promise # Nothing /\ c.sock[c.promise].retry)

Back(c) ==
  /\ c.connection # Nothing => ~c.intentional
  /\ c.user # Nothing => ~c.intentional /\ UnderWay(c)

ConnectionInv ==
  /\ NoneLeftOpen => Held(client) /\ (EffectsRan \/ Ready(client))
  /\ mishaps = {} => Back(client)

\* Nothing is held: what disconnect() leaves, or a socket that is gone.
Silent(c) ==
  /\ c \in ClientType /\ AttemptsWait(c) /\ ~c.live /\ c.queue = {}
  /\ \A s \in Sockets : c.sock[s].at \notin {"opening", "open", "applied"} /\ ~Waiting(c, s)

Left(c) ==
  Silent(c) /\ c.connection = Nothing /\ c.promise = Nothing /\ c.user = Nothing

LEMMA FreeType == Free \in SocketType
BY ConnectionBounds DEF Free, SocketType, SocketStates, SocketIdentities

LEMMA LeftIsHeld ==
  ASSUME NEW c, Left(c)
  PROVE  Held(c) /\ Back(c)
BY DEF Left, Silent, Held, Back, OneInUse, PromiseOK, HandleOK, HasRows, StoresOK, Waiting

LEMMA CloseHandleGives ==
  ASSUME NEW c \in ClientType
  PROVE  /\ CloseHandle(c) \in ClientType
         /\ \A s \in Sockets : s # c.connection => CloseHandle(c).sock[s] = c.sock[s]
         /\ \A s \in Sockets : s = c.connection =>
              CloseHandle(c).sock[s] =
                IF c.sock[s].at = "free" THEN c.sock[s] ELSE [c.sock[s] EXCEPT !.at = "closing"]
         /\ CloseHandle(c) = [c EXCEPT !.sock = CloseHandle(c).sock]
<1>1. CASE c.connection = Nothing \/ c.sock[c.connection].at = "free"
  BY <1>1, ConnectionBounds DEF CloseHandle, ClientType
<1>2. CASE ~(c.connection = Nothing \/ c.sock[c.connection].at = "free")
  <2>1. c.connection \in Sockets
    BY <1>2 DEF ClientType
  <2>2. [c.sock[c.connection] EXCEPT !.at = "closing"] \in SocketType
    BY <2>1 DEF ClientType, SocketType, SocketStates
  <2>3. CloseHandle(c) = [c EXCEPT !.sock = [c.sock EXCEPT ![c.connection] =
                                    [c.sock[c.connection] EXCEPT !.at = "closing"]]]
    BY <1>2, <2>1 DEF CloseHandle, ClientType
  <2>4. QED
    BY <1>2, <2>1, <2>2, <2>3 DEF ClientType
<1>3. QED BY <1>1, <1>2

LEMMA ResetGives ==
  ASSUME NEW c \in ClientType
  PROVE  LET e == ResetClientState(c)
         IN  /\ e \in ClientType /\ e.user = Nothing /\ e.sock = c.sock
             /\ e.connection = c.connection /\ e.promise = c.promise /\ e.live = c.live
             /\ e.queue = c.queue /\ e.intentional = c.intentional
             /\ e.shown = c.shown /\ e.timer = c.timer
BY DEF ResetClientState, ClientType

Ended(c, k) ==
  ResetClientState([c EXCEPT
    !.intentional = TRUE, !.heartbeat = FALSE, !.promise = Nothing,
    !.status = "disconnected", !.sock = k])

LEMMA EndedGives ==
  ASSUME NEW c \in ClientType, NEW k \in [Sockets -> SocketType]
  PROVE  LET e == Ended(c, k)
         IN  /\ e \in ClientType /\ e.sock = k /\ e.connection = c.connection
             /\ e.promise = Nothing /\ e.user = Nothing /\ e.live = c.live
             /\ e.queue = c.queue /\ e.intentional /\ e.shown = c.shown /\ e.timer = c.timer
<1> DEFINE f == [c EXCEPT !.intentional = TRUE, !.heartbeat = FALSE, !.promise = Nothing,
                          !.status = "disconnected", !.sock = k]
<1>1. f \in ClientType
  BY DEF ClientType, Statuses
<1>2. /\ f.sock = k /\ f.promise = Nothing /\ f.intentional /\ f.connection = c.connection
      /\ f.live = c.live /\ f.queue = c.queue /\ f.shown = c.shown /\ f.timer = c.timer
  BY DEF ClientType
<1> HIDE DEF f
<1>3. PICK g : g = f
  OBVIOUS
<1>4. Ended(c, k) = ResetClientState(g)
  BY <1>3 DEF f, Ended
<1>5. g \in ClientType
  BY <1>1, <1>3
<1>6. QED BY <1>2, <1>3, <1>4, <1>5, ResetGives

LEMMA TeardownGives ==
  ASSUME NEW c \in ClientType
  PROVE  /\ Teardown(c) \in ClientType /\ Teardown(c).sock = c.sock
         /\ Teardown(c).connection = Nothing /\ ~Teardown(c).live
         /\ Teardown(c).queue = {} /\ Teardown(c).shown = c.shown
         /\ Teardown(c).timer = c.timer /\ Teardown(c).promise = c.promise
         /\ Teardown(c).identity = c.identity /\ Teardown(c).user = c.user
         /\ Teardown(c).intentional = c.intentional /\ Teardown(c).status = c.status
BY DEF Teardown, ClientType

LEMMA AbandonedGives ==
  ASSUME NEW c \in ClientType
  PROVE  /\ Abandoned(c) \in [Sockets -> SocketType]
         /\ \A s \in Sockets :
              /\ Abandoned(c)[s].at = c.sock[s].at
              /\ Abandoned(c)[s].waits = c.sock[s].waits
              /\ Abandoned(c)[s].established = c.sock[s].established
              /\ Abandoned(c)[s].abandoned = c.sock[s].waits
<1>1. \A s \in Sockets : c.sock[s] \in SocketType
  BY DEF ClientType
<1> DEFINE A(s) == [c.sock[s] EXCEPT !.abandoned = c.sock[s].waits]
<1>2. \A s \in Sockets : /\ A(s) \in SocketType /\ A(s).at = c.sock[s].at
                         /\ A(s).waits = c.sock[s].waits
                         /\ A(s).established = c.sock[s].established
                         /\ A(s).abandoned = c.sock[s].waits
  BY <1>1 DEF SocketType
<1>3. Abandoned(c) = [s \in Sockets |-> A(s)]
  BY DEF Abandoned
<1> HIDE DEF A
<1>4. QED BY <1>2, <1>3

\* disconnect() leaves nothing in use, and abandons what waited.
LEMMA LeaveLeaves ==
  ASSUME NEW c \in ClientType, AttemptsWait(c),
         \A s \in Sockets : c.sock[s].at \in {"opening", "open", "applied"} => c.connection = s
  PROVE  /\ Left(Leave(c)) /\ Leave(c).intentional
         /\ FreeSockets(Leave(c)) = FreeSockets(c)
         /\ Leave(c).shown = c.shown /\ Leave(c).timer = c.timer
<1> DEFINE d == CloseHandle(c)
<1> DEFINE t == Teardown(d)
<1>1. d \in ClientType /\ d = [c EXCEPT !.sock = d.sock]
  BY CloseHandleGives
<1>2. \A s \in Sockets : /\ d.sock[s] \in SocketType
                         /\ d.sock[s].at \in {"closing", "free"}
                         /\ d.sock[s].at = "free" <=> c.sock[s].at = "free"
                         /\ d.sock[s].waits = c.sock[s].waits
                         /\ d.sock[s].established = c.sock[s].established
  <2>. SUFFICES ASSUME NEW s \in Sockets
       PROVE  /\ d.sock[s] \in SocketType
              /\ d.sock[s].at \in {"closing", "free"}
              /\ d.sock[s].at = "free" <=> c.sock[s].at = "free"
              /\ d.sock[s].waits = c.sock[s].waits
              /\ d.sock[s].established = c.sock[s].established
    OBVIOUS
  <2>1. c.sock[s] \in SocketType /\ d.sock[s] \in SocketType
    BY <1>1 DEF ClientType
  <2>2. CASE s = c.connection
    <3>1. d.sock[s] = IF c.sock[s].at = "free" THEN c.sock[s] ELSE [c.sock[s] EXCEPT !.at = "closing"]
      BY <2>2, CloseHandleGives
    <3>2. QED BY <2>1, <3>1 DEF SocketType
  <2>3. CASE s # c.connection
    <3>1. d.sock[s] = c.sock[s]
      BY <2>3, CloseHandleGives
    <3>2. QED BY <2>1, <2>3, <3>1 DEF SocketType, SocketStates
  <2>4. QED BY <2>2, <2>3
<1>3. d.shown = c.shown /\ d.timer = c.timer
  BY <1>1 DEF ClientType
<1> HIDE DEF d
<1>4. /\ t \in ClientType /\ t.sock = d.sock /\ t.connection = Nothing /\ ~t.live
      /\ t.queue = {} /\ t.shown = d.shown /\ t.timer = d.timer
  BY <1>1, TeardownGives
<1>5. Leave(c) = Ended(t, Abandoned(t))
  BY DEF Leave, d, Ended
<1> HIDE DEF t
<1>6. /\ Leave(c) \in ClientType /\ Leave(c).sock = Abandoned(t)
      /\ Leave(c).connection = t.connection
      /\ Leave(c).promise = Nothing /\ Leave(c).user = Nothing /\ Leave(c).live = t.live
      /\ Leave(c).queue = t.queue /\ Leave(c).intentional
      /\ Leave(c).shown = t.shown /\ Leave(c).timer = t.timer
  BY <1>4, <1>5, EndedGives, AbandonedGives
<1>7. \A s \in Sockets : /\ Leave(c).sock[s].at = d.sock[s].at
                         /\ Leave(c).sock[s].waits = d.sock[s].waits
                         /\ Leave(c).sock[s].established = d.sock[s].established
                         /\ Leave(c).sock[s].abandoned = d.sock[s].waits
  BY <1>4, <1>6, AbandonedGives
<1>8. FreeSockets(Leave(c)) = FreeSockets(c)
  BY <1>2, <1>7 DEF FreeSockets
<1>9. AttemptsWait(Leave(c))
  BY <1>2, <1>7 DEF AttemptsWait
<1>10. \A s \in Sockets : /\ Leave(c).sock[s].at \notin {"opening", "open", "applied"}
                          /\ ~Waiting(Leave(c), s)
  BY <1>2, <1>7 DEF Waiting
<1>11. QED BY <1>3, <1>4, <1>6, <1>8, <1>9, <1>10 DEF Left, Silent

LEMMA LeftSame ==
  ASSUME NEW c, Left(c), NEW d \in ClientType, d.sock = c.sock, d.live = c.live,
         d.queue = c.queue, d.connection = c.connection, d.promise = c.promise, d.user = c.user
  PROVE  Left(d) /\ FreeSockets(d) = FreeSockets(c)
BY DEF Left, Silent, AttemptsWait, Waiting, FreeSockets

\* A step of a socket that is left behind.
LeftFrom(d, c) == Left(d) /\ FreeSockets(d) = FreeSockets(c) /\ d.shown = c.shown

LEMMA DisconnectLeaves ==
  ASSUME NEW c \in ClientType, AttemptsWait(c),
         \A s \in Sockets : c.sock[s].at \in {"opening", "open", "applied"} => c.connection = s
  PROVE  LeftFrom(Disconnect(c), c) /\ Disconnect(c).intentional
<1>1. PICK d : d = Leave(c)
  OBVIOUS
<1>2. /\ Left(d) /\ d.intentional /\ FreeSockets(d) = FreeSockets(c) /\ d.shown = c.shown
  BY <1>1, LeaveLeaves
<1>3. d \in ClientType
  BY <1>2 DEF Left, Silent
<1>4. PICK e : e = [d EXCEPT !.timer = FALSE]
  OBVIOUS
<1>5. /\ e \in ClientType /\ e.sock = d.sock /\ e.live = d.live /\ e.queue = d.queue
      /\ e.connection = d.connection /\ e.promise = d.promise /\ e.user = d.user
      /\ e.intentional = d.intentional /\ e.shown = d.shown
  BY <1>3, <1>4 DEF ClientType
<1>6. Disconnect(c) = e
  BY <1>1, <1>4 DEF Disconnect
<1>7. QED BY <1>2, <1>5, <1>6, LeftSame DEF LeftFrom

\* disconnect() and the token that is stored afterwards.
LEMMA TokenStored ==
  ASSUME NEW c \in ClientType, AttemptsWait(c),
         \A s \in Sockets : c.sock[s].at \in {"opening", "open", "applied"} => c.connection = s,
         NEW token \in SocketIdentities \cup {Nothing}
  PROVE  /\ LeftFrom([Disconnect(c) EXCEPT !.token = token], c)
         /\ [Disconnect(c) EXCEPT !.token = token].intentional
<1>1. PICK d : d = Disconnect(c)
  OBVIOUS
<1>2. LeftFrom(d, c) /\ d.intentional
  BY <1>1, DisconnectLeaves
<1>3. d \in ClientType
  BY <1>2 DEF LeftFrom, Left, Silent
<1>4. PICK e : e = [d EXCEPT !.token = token]
  OBVIOUS
<1>5. /\ e \in ClientType /\ e.sock = d.sock /\ e.live = d.live /\ e.queue = d.queue
      /\ e.connection = d.connection /\ e.promise = d.promise /\ e.user = d.user
      /\ e.intentional = d.intentional /\ e.shown = d.shown
  BY <1>3, <1>4 DEF ClientType
<1>6. QED BY <1>1, <1>2, <1>4, <1>5, LeftSame DEF LeftFrom

LEMMA CheckLoginGives ==
  ASSUME NEW c \in ClientType, AttemptsWait(c),
         \A s \in Sockets : c.sock[s].at \in {"opening", "open", "applied"} => c.connection = s,
         NEW account
  PROVE  CheckLogin(c, account) = c \/ LeftFrom(CheckLogin(c, account), c)
BY TokenStored DEF CheckLogin

\* e is c with a new attempt at k, on the free handle s.
Opened(c, attempt, e, s, k) ==
  /\ c.sock[s].at = "free"
  /\ k.at = "opening" /\ k.waits /\ k.established = attempt.established
  /\ k.abandoned = attempt.abandoned /\ k.retry = attempt.retry
  /\ e \in ClientType /\ e.sock = [c.sock EXCEPT ![s] = k]
  /\ e.connection = s /\ e.promise = s
  /\ e.identity = c.identity /\ e.stores = c.stores /\ e.live = c.live
  /\ e.queue = c.queue /\ e.user = c.user /\ e.timer = c.timer
  /\ e.intentional = c.intentional /\ e.shown = c.shown

LEMMA OpenGives ==
  ASSUME NEW c \in ClientType, NEW attempt \in SocketType, FreeSockets(c) # {}
  PROVE  \E s \in Sockets, k \in SocketType : Opened(c, attempt, Open(c, attempt, TRUE), s, k)
<1>1. PICK s : s = CHOOSE x \in FreeSockets(c) : TRUE
  OBVIOUS
<1>2. s \in Sockets /\ c.sock[s].at = "free"
  BY <1>1 DEF FreeSockets
<1>3. PICK who : who = IF c.token = Nothing THEN Anonymous ELSE c.token
  OBVIOUS
<1>4. who \in SocketIdentities
  BY <1>3 DEF ClientType, SocketIdentities
<1>5. PICK k : k = [attempt EXCEPT !.at = "opening", !.waits = TRUE, !.who = who]
  OBVIOUS
<1>6. /\ k \in SocketType /\ k.at = "opening" /\ k.waits /\ k.established = attempt.established
      /\ k.abandoned = attempt.abandoned /\ k.retry = attempt.retry
  BY <1>4, <1>5 DEF SocketType, SocketStates
<1>7. PICK m : m = [c.sock EXCEPT ![s] = k]
  OBVIOUS
<1>8. m \in [Sockets -> SocketType]
  BY <1>6, <1>7 DEF ClientType
<1>9. PICK e : e = [c EXCEPT !.connection = s, !.promise = s, !.sock = m]
  OBVIOUS
<1>10. e \in ClientType
  BY <1>2, <1>8, <1>9 DEF ClientType
<1>11. /\ e.sock = m /\ e.connection = s /\ e.promise = s
       /\ e.identity = c.identity /\ e.stores = c.stores /\ e.live = c.live
       /\ e.queue = c.queue /\ e.user = c.user /\ e.timer = c.timer
       /\ e.intentional = c.intentional /\ e.shown = c.shown
  BY <1>2, <1>8, <1>9 DEF ClientType
<1>12. Open(c, attempt, TRUE) = e
  BY <1>1, <1>3, <1>5, <1>7, <1>9 DEF Open
<1>13. Opened(c, attempt, e, s, k)
  BY <1>2, <1>6, <1>7, <1>10, <1>11 DEF Opened
<1>14. QED BY <1>2, <1>6, <1>12, <1>13

\* An attempt that opens another socket when nothing is held.
LEMMA OpenHolds ==
  ASSUME NEW c, Silent(c), NEW attempt \in SocketType, FreeSockets(c) # {},
         ~attempt.abandoned, ~attempt.established
  PROVE  LET e == Open(c, attempt, TRUE)
         IN  /\ Held(e) /\ e.promise # Nothing /\ e.sock[e.promise].retry = attempt.retry
             /\ e.user = c.user /\ e.timer = c.timer /\ e.intentional = c.intentional
             /\ e.shown = c.shown
<1>1. c \in ClientType
  BY DEF Silent
<1>2. PICK e : e = Open(c, attempt, TRUE)
  OBVIOUS
<1>3. PICK s \in Sockets, k \in SocketType : Opened(c, attempt, e, s, k)
  BY <1>1, <1>2, OpenGives
<1> USE <1>3 DEF Opened
<1>4. /\ e.sock[s] = k
      /\ \A t \in Sockets : t # s => e.sock[t] = c.sock[t]
  BY <1>1, <1>3 DEF ClientType
<1>5. s # Nothing
  BY ConnectionBounds
<1>6. AttemptsWait(e)
  BY <1>3, <1>4 DEF AttemptsWait, Silent
<1>7. OneInUse(e)
  BY <1>3, <1>4 DEF OneInUse, Silent, Waiting
<1>8. PromiseOK(e)
  BY <1>3, <1>4 DEF PromiseOK, Silent, Waiting
<1>9. HandleOK(e) /\ StoresOK(e)
  BY <1>3, <1>4 DEF HandleOK, StoresOK, Silent, Waiting
<1>10. QED BY <1>2, <1>3, <1>4, <1>5, <1>6, <1>7, <1>8, <1>9 DEF Held

LEMMA HeldSame ==
  ASSUME NEW c, Held(c), NEW e \in ClientType, e.sock = c.sock, e.connection = c.connection,
         e.promise = c.promise, e.identity = c.identity, e.live = c.live,
         e.stores = c.stores, e.queue = c.queue
  PROVE  /\ Held(e) /\ (Active(e) <=> Active(c)) /\ (HasRows(e) <=> HasRows(c))
         /\ FreeSockets(e) = FreeSockets(c)
BY DEF Held, AttemptsWait, OneInUse, PromiseOK, HandleOK, StoresOK, HasRows, Waiting, Active,
       FreeSockets

LEMMA SilentIsHeld ==
  ASSUME NEW c, Silent(c), c.promise = Nothing,
         c.connection = Nothing \/ c.sock[c.connection].at = "free"
  PROVE  Held(c)
BY DEF Silent, Held, OneInUse, PromiseOK, HandleOK, HasRows, StoresOK

\* connect() joins the attempt under way.
LEMMA JoinGives ==
  ASSUME NEW c, Held(c), c.promise # Nothing, NEW retry \in BOOLEAN
  PROVE  LET e == Join(c, retry)
         IN  /\ Held(e) /\ e.promise # Nothing
             /\ e.user = c.user /\ e.timer = c.timer /\ e.intentional = c.intentional
             /\ e.shown = c.shown /\ (HasRows(c) => HasRows(e))
             /\ e.sock[e.promise].retry <=> c.sock[c.promise].retry \/ retry
<1>0. PICK e : e = Join(c, retry)
  OBVIOUS
<1>1. PICK s : s = c.promise
  OBVIOUS
<1>2. s \in Sockets /\ c \in ClientType
  BY <1>1 DEF Held, ClientType
<1>3. PICK r \in BOOLEAN : r <=> c.sock[s].retry \/ retry
  OBVIOUS
<1>4. c.sock[s].retry \in BOOLEAN
  BY <1>2 DEF ClientType, SocketType
<1>5. r = (c.sock[s].retry \/ retry)
  BY <1>3, <1>4
<1>6. PICK k : k = [c.sock[s] EXCEPT !.retry = r]
  OBVIOUS
<1>7. PICK m : m = [c.sock EXCEPT ![s] = k]
  OBVIOUS
<1>8. e = [c EXCEPT !.sock = m]
  BY <1>0, <1>1, <1>2, <1>5, <1>6, <1>7 DEF Join, ClientType, SocketType
<1>9. /\ k \in SocketType /\ k.retry = r /\ k.at = c.sock[s].at /\ k.who = c.sock[s].who
      /\ k.waits = c.sock[s].waits /\ k.established = c.sock[s].established
      /\ k.abandoned = c.sock[s].abandoned
  BY <1>2, <1>3, <1>6 DEF ClientType, SocketType
<1>10. m \in [Sockets -> SocketType] /\ m[s] = k /\ \A t \in Sockets : t # s => m[t] = c.sock[t]
  BY <1>2, <1>7, <1>9 DEF ClientType
<1>11. e \in ClientType
  BY <1>2, <1>8, <1>10 DEF ClientType
<1>12. /\ e.sock = m /\ e.connection = c.connection /\ e.promise = c.promise
       /\ e.identity = c.identity /\ e.live = c.live /\ e.stores = c.stores
       /\ e.queue = c.queue /\ e.user = c.user /\ e.timer = c.timer
       /\ e.intentional = c.intentional /\ e.shown = c.shown
  BY <1>2, <1>8, <1>10 DEF ClientType
<1>13. \A t \in Sockets :
         /\ e.sock[t].at = c.sock[t].at /\ e.sock[t].who = c.sock[t].who
         /\ e.sock[t].waits = c.sock[t].waits /\ e.sock[t].established = c.sock[t].established
         /\ e.sock[t].abandoned = c.sock[t].abandoned
  BY <1>9, <1>10, <1>12
<1>14. c.connection \in Sockets \cup {Nothing}
  BY <1>2 DEF ClientType
<1>15. HasRows(e) <=> HasRows(c)
  BY <1>12, <1>13, <1>14 DEF HasRows
<1>16. Held(e)
  <2>1. AttemptsWait(e) /\ OneInUse(e)
    BY <1>12, <1>13 DEF Held, AttemptsWait, OneInUse, Waiting
  <2>2. PromiseOK(e)
    BY <1>1, <1>2, <1>12, <1>13 DEF Held, PromiseOK, Waiting
  <2>3. HandleOK(e)
    BY <1>12, <1>13, <1>14, <1>15 DEF Held, HandleOK, Waiting
  <2>4. StoresOK(e)
    BY <1>12, <1>15 DEF Held, StoresOK
  <2>5. QED BY <1>11, <2>1, <2>2, <2>3, <2>4 DEF Held
<1>17. QED BY <1>0, <1>1, <1>3, <1>9, <1>10, <1>12, <1>15, <1>16

LEMMA FreshAttempt ==
  ASSUME NEW c \in ClientType, NEW login \in Accounts \cup {Nothing}, NEW retry \in BOOLEAN
  PROVE  LET a == NewAttempt(c, login, retry)
         IN  a \in SocketType /\ ~a.abandoned /\ ~a.established /\ a.retry = retry
<1>1. PickCompression(c) \in BOOLEAN
  BY ConnectionBounds DEF PickCompression, ClientType
<1>2. Free \in SocketType /\ ~Free.abandoned /\ ~Free.established
  BY FreeType DEF Free
<1>3. PICK f : f = Free
  OBVIOUS
<1>4. QED BY <1>1, <1>2, <1>3 DEF NewAttempt, SocketType

\* Without a socket in use or an attempt under way nothing is held.
LEMMA IdleIsSilent ==
  ASSUME NEW c, Held(c), ~Active(c), c.promise = Nothing
  PROVE  Silent(c)
<1>1. \A s \in Sockets : ~Waiting(c, s)
  BY ConnectionBounds DEF Held, PromiseOK
<1>2. \A s \in Sockets : c.sock[s].at \notin {"opening", "open", "applied"}
  BY <1>1, ConnectionBounds DEF Held, OneInUse, Active
<1>3. ~c.live
  BY DEF Held, StoresOK, HasRows, Active
<1>4. QED BY <1>1, <1>2, <1>3 DEF Silent, Held, StoresOK

LEMMA ConnectGives ==
  ASSUME NEW c, Held(c), Ready(c), NEW login \in Accounts \cup {Nothing}, NEW retry \in BOOLEAN
  PROVE  LET e == Connect(c, login, retry)
         IN  /\ Held(e) /\ (Active(e) \/ e.promise # Nothing)
             /\ e.user = c.user /\ e.shown = c.shown
             /\ \/ c.user # Nothing => UnderWay(c)
                \/ retry /\ ~(Active(c) /\ c.promise # Nothing)
                => Back(e)
<1>1. PICK d : d = [c EXCEPT !.intentional = FALSE]
  OBVIOUS
<1>2. PICK e : e = Connect(c, login, retry)
  OBVIOUS
<1>3. c \in ClientType
  BY DEF Held
<1>4. /\ d \in ClientType /\ d.sock = c.sock /\ d.connection = c.connection
      /\ d.promise = c.promise /\ d.identity = c.identity /\ d.live = c.live
      /\ d.stores = c.stores /\ d.queue = c.queue /\ d.user = c.user
      /\ d.shown = c.shown /\ d.timer = c.timer /\ ~d.intentional
  BY <1>1, <1>3 DEF ClientType
<1>5. /\ Held(d) /\ (Active(d) <=> Active(c)) /\ (HasRows(d) <=> HasRows(c))
      /\ FreeSockets(d) = FreeSockets(c)
  BY <1>4, HeldSame
<1>6. UnderWay(d) <=> UnderWay(c)
  BY <1>4, <1>5 DEF UnderWay
<1>7. CASE Active(d)
  <2>1. e = d
    BY <1>1, <1>2, <1>7 DEF Connect
  <2>2. c.promise = Nothing => HasRows(d)
    <3>. SUFFICES ASSUME d.promise = Nothing PROVE HasRows(d)
      BY <1>4
    <3>1. PICK s : s = d.connection
      OBVIOUS
    <3>2. s \in Sockets /\ d.sock[s].at \in {"open", "applied", "closing"}
      BY <1>4, <1>7, <3>1 DEF Active, ClientType
    <3>3. ~Waiting(d, s)
      BY <1>5, <3>2, ConnectionBounds DEF Held, PromiseOK
    <3>4. QED
      BY <1>5, <1>7, <3>1, <3>2, <3>3 DEF Active, Held, HandleOK, OneInUse
  <2>3. QED BY <1>2, <1>4, <1>5, <1>6, <1>7, <2>1, <2>2 DEF Back, UnderWay
<1>8. CASE ~Active(d) /\ d.promise # Nothing
  <2>1. e = Join(d, retry)
    BY <1>1, <1>2, <1>8 DEF Connect
  <2>2. /\ Held(e) /\ e.promise # Nothing
        /\ e.user = d.user /\ e.timer = d.timer /\ e.intentional = d.intentional
        /\ e.shown = d.shown /\ (HasRows(d) => HasRows(e))
        /\ e.sock[e.promise].retry <=> d.sock[d.promise].retry \/ retry
    BY <1>5, <1>8, <2>1, JoinGives
  <2>3. QED BY <1>2, <1>4, <1>5, <1>6, <2>2 DEF Back, UnderWay
<1>9. CASE ~Active(d) /\ d.promise = Nothing
  <2>1. PICK f : f = [d EXCEPT !.status = "connecting"]
    OBVIOUS
  <2>2. /\ f \in ClientType /\ f.sock = d.sock /\ f.connection = d.connection
        /\ f.promise = d.promise /\ f.identity = d.identity /\ f.live = d.live
        /\ f.stores = d.stores /\ f.queue = d.queue /\ f.user = d.user
        /\ f.shown = d.shown /\ f.timer = d.timer /\ f.intentional = d.intentional
    BY <1>4, <2>1 DEF ClientType, Statuses
  <2>3. Silent(f) /\ FreeSockets(f) = FreeSockets(c)
    <3>1. Held(f) /\ (Active(f) <=> Active(d)) /\ FreeSockets(f) = FreeSockets(d)
      BY <1>5, <2>2, HeldSame
    <3>2. QED BY <1>5, <1>9, <2>2, <3>1, IdleIsSilent
  <2>4. FreeSockets(f) # {}
    BY <1>4, <1>5, <1>9, <2>3 DEF Ready
  <2>5. PICK a : a = NewAttempt(d, login, retry)
    OBVIOUS
  <2>6. a \in SocketType /\ ~a.abandoned /\ ~a.established /\ a.retry = retry
    BY <1>4, <2>5, FreshAttempt
  <2>7. e = Open(f, a, TRUE)
    BY <1>1, <1>2, <1>9, <2>1, <2>5 DEF Connect
  <2>8. /\ Held(e) /\ e.promise # Nothing /\ e.sock[e.promise].retry = retry
        /\ e.user = f.user /\ e.timer = f.timer /\ e.intentional = f.intentional
        /\ e.shown = f.shown
    BY <2>3, <2>4, <2>6, <2>7, OpenHolds
  <2>9. ~HasRows(d)
    BY <1>9 DEF HasRows, Active
  <2>10. QED BY <1>2, <1>4, <1>6, <1>9, <2>2, <2>8, <2>9 DEF Back, UnderWay
<1>10. QED BY <1>7, <1>8, <1>9

\* The attempt in flight has no address left: it ends, and with it the session
\* when its token was refused.
LEMMA GiveUpGives ==
  ASSUME NEW c, Silent(c), FreeSockets(c) # {},
         c.connection = Nothing \/ c.sock[c.connection].at = "free",
         NEW a \in SocketType, ~a.abandoned, NEW refused \in BOOLEAN
  PROVE  LET e == GiveUp(c, a, refused)
         IN  /\ Held(e) /\ Ready(e) /\ e.shown = c.shown
             /\ ~c.intentional /\ (c.user # Nothing => c.timer \/ a.retry) => Back(e)
<1>1. /\ c \in ClientType /\ AttemptsWait(c)
      /\ \A s \in Sockets : c.sock[s].at \in {"opening", "open", "applied"} => c.connection = s
  BY DEF Silent
<1> DEFINE ends == refused /\ c.token # Nothing
<1>3. PICK d : d = IF ends THEN [Disconnect(c) EXCEPT !.token = Nothing] ELSE c
  OBVIOUS
<1>4. d \in ClientType
  BY <1>1, <1>3, TokenStored DEF LeftFrom, Left, Silent
<1>5. PICK token : token = IF a.login # Nothing THEN Nothing ELSE d.token
  OBVIOUS
<1>6. token \in SocketIdentities \cup {Nothing}
  BY <1>4, <1>5 DEF ClientType
<1>7. PICK f : f = [d EXCEPT !.promise = Nothing, !.status = "error", !.token = token]
  OBVIOUS
<1>8. f \in ClientType
  BY <1>4, <1>6, <1>7 DEF ClientType, Statuses
<1>9. /\ f.sock = d.sock /\ f.connection = d.connection /\ f.promise = Nothing
      /\ f.live = d.live /\ f.queue = d.queue /\ f.user = d.user /\ f.shown = d.shown
      /\ f.timer = d.timer /\ f.intentional = d.intentional
  BY <1>4, <1>6, <1>7 DEF ClientType
<1>10. PICK e : e = IF a.retry THEN ScheduleReconnect(f) ELSE f
  OBVIOUS
<1>11. GiveUp(c, a, refused) = e
  BY <1>3, <1>5, <1>7, <1>10 DEF GiveUp
<1> HIDE DEF ends
<1>12. CASE ends
  <2>1. LeftFrom(d, c) /\ d.intentional
    BY <1>1, <1>3, <1>12, TokenStored
  <2>2. Left(f) /\ FreeSockets(f) = FreeSockets(d)
    BY <1>8, <1>9, <2>1, LeftSame DEF LeftFrom, Left
  <2>3. e = f
    BY <1>9, <1>10, <2>1 DEF ScheduleReconnect
  <2>4. QED BY <1>9, <1>11, <2>1, <2>2, <2>3, LeftIsHeld DEF LeftFrom, Ready
<1>13. CASE ~ends
  <2>1. d = c
    BY <1>3, <1>13
  <2>2. PICK g : g = [f EXCEPT !.timer = TRUE]
    OBVIOUS
  <2>3. /\ g \in ClientType /\ g.sock = f.sock /\ g.connection = f.connection
        /\ g.promise = f.promise /\ g.live = f.live /\ g.queue = f.queue /\ g.user = f.user
        /\ g.shown = f.shown /\ g.timer /\ g.intentional = f.intentional
    BY <1>8, <2>2 DEF ClientType
  <2>4. e = IF a.retry /\ ~c.intentional THEN g ELSE f
    BY <1>9, <1>10, <2>1, <2>2 DEF ScheduleReconnect
  <2>5. /\ e \in ClientType /\ e.sock = c.sock /\ e.connection = c.connection
        /\ e.promise = Nothing /\ e.live = c.live /\ e.queue = c.queue /\ e.user = c.user
        /\ e.shown = c.shown /\ e.intentional = c.intentional
        /\ ~c.intentional /\ (c.user # Nothing => c.timer \/ a.retry)
             => (c.user # Nothing => e.timer)
    BY <1>8, <1>9, <2>1, <2>3, <2>4
  <2>6. Silent(e) /\ FreeSockets(e) = FreeSockets(c)
    BY <2>5 DEF Silent, AttemptsWait, Waiting, FreeSockets
  <2>7. Held(e)
    BY <2>5, <2>6, SilentIsHeld
  <2>8. QED BY <1>11, <2>5, <2>6, <2>7 DEF Ready, Back, UnderWay
<1>14. QED BY <1>12, <1>13

\* An attempt in flight has failed at one address.
LEMMA CurrentFails ==
  ASSUME NEW c, Silent(c), FreeSockets(c) # {},
         c.connection = Nothing \/ c.sock[c.connection].at = "free",
         NEW a \in SocketType, a.waits, ~a.abandoned, NEW refused \in BOOLEAN
  PROVE  LET e == NextAddress(c, a, TRUE, refused)
         IN  /\ Held(e) /\ Ready(e) /\ e.shown = c.shown
             /\ ~c.intentional /\ (c.user # Nothing => c.timer \/ a.retry) => Back(e)
<1>1. PICK verify \in BOOLEAN : verify = (a.verify \/ refused)
  BY DEF SocketType
<1>2. PICK b : b = [a EXCEPT !.verify = verify, !.established = FALSE]
  OBVIOUS
<1>3. b = [a EXCEPT !.verify = @ \/ refused, !.established = FALSE]
  BY <1>1, <1>2
<1>4. /\ b \in SocketType /\ b.verify = verify /\ ~b.established /\ b.waits = a.waits
      /\ b.abandoned = a.abandoned /\ b.retry = a.retry /\ b.candidate = a.candidate
      /\ b.gzip = a.gzip
  BY <1>2 DEF SocketType
<1>5. PICK e : e = NextAddress(c, a, TRUE, refused)
  OBVIOUS
<1>6. CASE b.candidate < Candidates
  <2>1. PICK k : k = [b EXCEPT !.candidate = @ + 1]
    OBVIOUS
  <2>2. k \in SocketType /\ ~k.abandoned /\ ~k.established /\ k.retry = a.retry
    BY <1>4, <2>1 DEF SocketType
  <2>3. e = Open(c, k, TRUE)
    BY <1>3, <1>4, <1>5, <1>6, <2>1 DEF NextAddress
  <2>4. /\ Held(e) /\ e.promise # Nothing /\ e.sock[e.promise].retry = a.retry
        /\ e.user = c.user /\ e.timer = c.timer /\ e.intentional = c.intentional
        /\ e.shown = c.shown
    BY <2>2, <2>3, OpenHolds
  <2>5. Ready(e) /\ (~c.intentional /\ (c.user # Nothing => c.timer \/ a.retry) => Back(e))
    BY <2>4 DEF Ready, Back, UnderWay
  <2>6. QED BY <1>5, <2>4, <2>5
<1>7. CASE ~(b.candidate < Candidates) /\ b.gzip
  <2>1. PICK k : k = [b EXCEPT !.candidate = 1, !.gzip = FALSE, !.verify = FALSE]
    OBVIOUS
  <2>2. k \in SocketType /\ ~k.abandoned /\ ~k.established /\ k.retry = a.retry
    BY <1>4, <2>1 DEF SocketType
  <2>3. PICK d : d = [c EXCEPT !.downgraded = TRUE]
    OBVIOUS
  <2>4. c \in ClientType
    BY DEF Silent
  <2>5. /\ d \in ClientType /\ d.sock = c.sock /\ d.live = c.live /\ d.queue = c.queue
        /\ d.user = c.user /\ d.timer = c.timer /\ d.intentional = c.intentional
        /\ d.shown = c.shown
    BY <2>3, <2>4 DEF ClientType
  <2>6. Silent(d) /\ FreeSockets(d) = FreeSockets(c)
    BY <2>5 DEF Silent, AttemptsWait, Waiting, FreeSockets
  <2>7. e = Open(d, k, TRUE)
    BY <1>3, <1>4, <1>5, <1>7, <2>1, <2>3 DEF NextAddress
  <2>8. /\ Held(e) /\ e.promise # Nothing /\ e.sock[e.promise].retry = a.retry
        /\ e.user = c.user /\ e.timer = c.timer /\ e.intentional = c.intentional
        /\ e.shown = c.shown
    BY <2>2, <2>5, <2>6, <2>7, OpenHolds
  <2>9. Ready(e) /\ (~c.intentional /\ (c.user # Nothing => c.timer \/ a.retry) => Back(e))
    BY <2>8 DEF Ready, Back, UnderWay
  <2>10. QED BY <1>5, <2>8, <2>9
<1>8. CASE ~(b.candidate < Candidates) /\ ~b.gzip
  <2>1. e = GiveUp(c, b, b.verify)
    BY <1>3, <1>4, <1>5, <1>8 DEF NextAddress
  <2>2. ~b.abandoned /\ b.retry = a.retry /\ b.verify \in BOOLEAN
    BY <1>1, <1>4
  <2>3. /\ Held(e) /\ Ready(e) /\ e.shown = c.shown
        /\ ~c.intentional /\ (c.user # Nothing => c.timer \/ a.retry) => Back(e)
    BY <1>4, <2>1, <2>2, GiveUpGives
  <2>4. QED BY <1>5, <2>3
<1>9. QED BY <1>6, <1>7, <1>8

\* An abandoned attempt opens nothing more: it ends without a word, or ends the
\* session whose token was refused.
LEMMA AbandonedFails ==
  ASSUME NEW c \in ClientType, AttemptsWait(c),
         \A s \in Sockets : c.sock[s].at \in {"opening", "open", "applied"} => c.connection = s,
         NEW a \in SocketType, a.waits, a.abandoned, NEW mine, NEW refused \in BOOLEAN
  PROVE  LET e == NextAddress(c, a, mine, refused)
         IN  LeftFrom(e, c) \/ e = [c EXCEPT !.promise = Nothing]
<1>1. PICK b : b = [a EXCEPT !.verify = @ \/ refused, !.established = FALSE]
  OBVIOUS
<1>2. b.waits /\ b.abandoned
  BY <1>1 DEF SocketType
<1>3. PICK e : e = NextAddress(c, a, mine, refused)
  OBVIOUS
<1>4. e = GiveUp(c, b, FALSE) \/ e = GiveUp(c, b, b.verify)
  BY <1>1, <1>2, <1>3 DEF NextAddress
<1>5. PICK verify : e = GiveUp(c, b, verify)
  BY <1>4
<1>6. CASE verify /\ c.token # Nothing
  <2>1. PICK d : d = [Disconnect(c) EXCEPT !.token = Nothing]
    OBVIOUS
  <2>2. LeftFrom(d, c) /\ d.intentional
    BY <2>1, TokenStored
  <2>3. d \in ClientType
    BY <2>2 DEF LeftFrom, Left, Silent
  <2>4. PICK token : token = IF b.login # Nothing THEN Nothing ELSE d.token
    OBVIOUS
  <2>5. token \in SocketIdentities \cup {Nothing}
    BY <2>3, <2>4 DEF ClientType
  <2>6. PICK f : f = [d EXCEPT !.promise = Nothing, !.status = "error", !.token = token]
    OBVIOUS
  <2>7. f \in ClientType
    BY <2>3, <2>5, <2>6 DEF ClientType, Statuses
  <2>8. /\ f.sock = d.sock /\ f.connection = d.connection /\ f.promise = Nothing
        /\ f.live = d.live /\ f.queue = d.queue /\ f.user = d.user /\ f.shown = d.shown
        /\ f.intentional = d.intentional
    BY <2>3, <2>5, <2>6 DEF ClientType
  <2>9. e = IF b.retry THEN ScheduleReconnect(f) ELSE f
    BY <1>5, <1>6, <2>1, <2>4, <2>6 DEF GiveUp
  <2>10. e = f
    BY <2>2, <2>8, <2>9 DEF ScheduleReconnect
  <2>11. Left(f) /\ FreeSockets(f) = FreeSockets(d)
    BY <2>2, <2>7, <2>8, LeftSame DEF LeftFrom, Left
  <2>12. QED BY <1>3, <2>2, <2>8, <2>10, <2>11 DEF LeftFrom
<1>7. CASE ~(verify /\ c.token # Nothing)
  <2>1. PICK d : d = [c EXCEPT !.promise = Nothing]
    OBVIOUS
  <2>2. e = CheckLogin(d, b.login)
    BY <1>2, <1>5, <1>7, <2>1 DEF GiveUp
  <2>3. /\ d \in ClientType /\ d.sock = c.sock /\ d.connection = c.connection
        /\ d.shown = c.shown
    BY <2>1 DEF ClientType
  <2>4. /\ AttemptsWait(d) /\ FreeSockets(d) = FreeSockets(c)
        /\ \A s \in Sockets : d.sock[s].at \in {"opening", "open", "applied"} => d.connection = s
    BY <2>3 DEF AttemptsWait, FreeSockets
  <2>5. e = d \/ LeftFrom(e, d)
    BY <2>2, <2>3, <2>4, CheckLoginGives
  <2>6. QED BY <1>3, <2>1, <2>3, <2>4, <2>5 DEF LeftFrom
<1>8. QED BY <1>6, <1>7

LEMMA StepKeeps ==
  ASSUME NEW e, NEW new, StepWith(e, new),
         NoneLeftOpen' => /\ Held(e) /\ (e.shown = Shown(e) \/ Ready(e))
                          /\ mishaps' = {} => Back(e)
  PROVE  ConnectionInv'
BY DEF StepWith, ConnectionInv, EffectsRan, NoneLeftOpen

\* What was so before a step that adds no mishap of its own.
LEMMA BeforeStep ==
  ASSUME ConnectionInv, NEW e, NEW new, StepWith(e, new), NoneLeftOpen'
  PROVE  /\ Held(client) /\ client \in ClientType /\ ~Orphans(e) /\ new \subseteq {"late", "early"}
         /\ client.shown = Shown(client)
         /\ mishaps' = {} => mishaps = {} /\ new = {} /\ Back(client)
BY DEF StepWith, ConnectionInv, EffectsRan, NoneLeftOpen, Held

LEMMA HandlesAreFree ==
  ASSUME HandlesLeft PROVE FreeSockets(client) # {}
<1>1. FreeSockets(client) = {} => Cardinality(FreeSockets(client)) = 0
  BY FS_EmptySet
<1>2. QED BY <1>1 DEF HandlesLeft

LEMMA SocketOpensKeeps ==
  ASSUME ConnectionInv, NEW s \in Sockets, NEW who \in SocketIdentities, SocketOpens(s, who)
  PROVE  ConnectionInv'
<1>1. PICK e : /\ e = [client EXCEPT !.sock[s].at = "open", !.sock[s].who = who,
                         !.status = "connected", !.identity = who, !.token = who]
               /\ StepWith(e, {})
  BY DEF SocketOpens, Step
<1>2. client.sock[s].at = "opening"
  BY DEF SocketOpens
<1>3. ASSUME NoneLeftOpen'
      PROVE  /\ Held(e) /\ (e.shown = Shown(e) \/ Ready(e))
             /\ mishaps' = {} => Back(e)
  <2>1. Held(client) /\ client \in ClientType /\ (mishaps' = {} => Back(client))
    BY <1>1, <1>3, BeforeStep
  <2>2. PICK c : c = client
    OBVIOUS
  <2>3. PICK k : k = [c.sock[s] EXCEPT !.at = "open", !.who = who]
    OBVIOUS
  <2>4. PICK m : m = [c.sock EXCEPT ![s] = k]
    OBVIOUS
  <2>5. /\ k \in SocketType /\ k.at = "open" /\ k.who = who /\ k.waits = c.sock[s].waits
        /\ k.established = c.sock[s].established /\ k.abandoned = c.sock[s].abandoned
        /\ k.retry = c.sock[s].retry
    <3>1. PICK j : j = c.sock[s]
      OBVIOUS
    <3>2. j \in SocketType
      BY <2>1, <2>2, <3>1 DEF ClientType
    <3>3. k = [j EXCEPT !.at = "open", !.who = who]
      BY <2>3, <3>1
    <3>4. QED BY <3>1, <3>2, <3>3 DEF SocketType, SocketStates
  <2>6. m \in [Sockets -> SocketType] /\ m[s] = k /\ \A t \in Sockets : t # s => m[t] = c.sock[t]
    BY <2>1, <2>2, <2>4, <2>5 DEF ClientType
  <2>7. e = [c EXCEPT !.sock = m, !.status = "connected", !.identity = who, !.token = who]
    BY <1>1, <2>1, <2>2, <2>3, <2>4 DEF ClientType, SocketType
  <2>8. e \in ClientType
    BY <2>1, <2>2, <2>6, <2>7 DEF ClientType, Statuses
  <2>9. /\ e.sock = m /\ e.connection = c.connection /\ e.promise = c.promise
        /\ e.identity = who /\ e.live = c.live /\ e.stores = c.stores
        /\ e.queue = c.queue /\ e.user = c.user /\ e.timer = c.timer
        /\ e.intentional = c.intentional
    BY <2>1, <2>2, <2>6, <2>7 DEF ClientType
  <2>10. /\ c.connection = s /\ Waiting(c, s) /\ c.promise = s /\ ~c.live /\ c.sock[s].at = "opening"
         /\ \A t \in Sockets : t # s => c.sock[t].at \notin {"opening", "open", "applied"}
    BY <1>2, <2>1, <2>2 DEF Held, OneInUse, PromiseOK, StoresOK, HasRows
  <2>11. AttemptsWait(e) /\ OneInUse(e)
    <3>1. AttemptsWait(e)
      BY <2>1, <2>2, <2>5, <2>6, <2>9, <2>10 DEF Held, AttemptsWait
    <3>2. \A t \in Sockets : Waiting(e, t) <=> Waiting(c, t)
      BY <2>5, <2>6, <2>9 DEF Waiting
    <3>3. QED BY <2>5, <2>6, <2>9, <2>10, <3>1, <3>2 DEF OneInUse
  <2>12. PromiseOK(e)
    BY <2>1, <2>2, <2>5, <2>6, <2>9, <2>10 DEF Held, PromiseOK, Waiting
  <2>13. HandleOK(e) /\ StoresOK(e)
    BY <2>1, <2>2, <2>5, <2>6, <2>9, <2>10 DEF Held, HandleOK, StoresOK
  <2>14. Active(e)
    BY <2>5, <2>6, <2>9, <2>10, ConnectionBounds DEF Active
  <2>15. Back(c) => Back(e)
    BY <2>5, <2>6, <2>9, <2>10 DEF Back, UnderWay, HasRows
  <2>16. QED BY <2>1, <2>2, <2>8, <2>11, <2>12, <2>13, <2>14, <2>15 DEF Held, Ready
<1>4. QED BY <1>1, <1>3, StepKeeps

\* The rows of the socket s are applied, and its attempt has succeeded.
Applied(c, s, beats) ==
  [SyncAll(c, c.sock[s].who) EXCEPT
     !.sock = [c.sock EXCEPT
                 ![s] = [Unwatched(c.sock[s]) EXCEPT !.at = "applied", !.established = TRUE]],
     !.synced = TRUE, !.live = TRUE, !.promise = Nothing, !.heartbeat = beats]

LEMMA AppliedGives ==
  ASSUME NEW c, Held(c), NEW s \in Sockets, c.sock[s].at = "open",
         NEW beats \in BOOLEAN
  PROVE  LET e == Applied(c, s, beats)
         IN  Held(e) /\ HasRows(e) /\ e.connection = c.connection
               /\ e.intentional = c.intentional /\ e.shown = c.shown
               /\ (FreeSockets(c) # {} => FreeSockets(e) # {})
<1>1. c \in ClientType /\ c.sock[s] \in SocketType
  BY DEF Held, ClientType
<1>2. /\ c.connection = s /\ Waiting(c, s) /\ c.promise = s /\ ~c.live /\ c.queue = {}
      /\ c.identity = c.sock[s].who
      /\ \A t \in Sockets : t # s => /\ c.sock[t].at \notin {"opening", "open", "applied"}
                                     /\ ~Waiting(c, t)
  BY DEF Held, OneInUse, PromiseOK, StoresOK, HasRows
<1>3. PICK w : w = c.sock[s].who
  OBVIOUS
<1>4. w \in SocketIdentities
  BY <1>1, <1>3 DEF SocketType
<1>5. PICK k : k = [Unwatched(c.sock[s]) EXCEPT !.at = "applied", !.established = TRUE]
  OBVIOUS
<1>6. k \in SocketType /\ k.at = "applied" /\ k.established /\ ~k.waits /\ k.who = w
  <2>1. PICK u : u = Unwatched(c.sock[s])
    OBVIOUS
  <2>2. u \in SocketType /\ ~u.waits /\ u.who = w
    BY <1>1, <1>3, <2>1, FreeType DEF Unwatched, SocketType, Free
  <2>3. QED BY <1>5, <2>1, <2>2 DEF SocketType, SocketStates
<1>7. PICK m : m = [c.sock EXCEPT ![s] = k]
  OBVIOUS
<1>8. m \in [Sockets -> SocketType] /\ m[s] = k /\ \A t \in Sockets : t # s => m[t] = c.sock[t]
  BY <1>1, <1>6, <1>7 DEF ClientType
<1>9. PICK named : named = IF c.identity = w /\ w # Anonymous THEN w ELSE Nothing
  OBVIOUS
<1>10. named \in Accounts \cup {Nothing}
  BY <1>4, <1>9 DEF SocketIdentities
<1>11. PICK d : d = SyncAll(c, w)
  OBVIOUS
<1>12. d = [[c EXCEPT !.user = named] EXCEPT !.stores = {w}]
  BY <1>9, <1>11 DEF SyncAll, SyncUsers
<1>13. /\ d \in ClientType /\ d.stores = {w} /\ d.identity = c.identity /\ d.queue = c.queue
       /\ d.connection = c.connection /\ d.intentional = c.intentional /\ d.shown = c.shown
  BY <1>1, <1>4, <1>10, <1>12 DEF ClientType
<1>14. PICK e : e = [d EXCEPT !.sock = m, !.synced = TRUE, !.live = TRUE, !.promise = Nothing,
                              !.heartbeat = beats]
  OBVIOUS
<1>15. e \in ClientType
  BY <1>8, <1>13, <1>14 DEF ClientType
<1>16. /\ e.sock = m /\ e.live /\ e.promise = Nothing /\ e.stores = d.stores
       /\ e.identity = d.identity /\ e.queue = d.queue /\ e.connection = d.connection
       /\ e.intentional = d.intentional /\ e.shown = d.shown
  BY <1>8, <1>13, <1>14 DEF ClientType
<1>17. HasRows(e)
  BY <1>2, <1>6, <1>8, <1>13, <1>16, ConnectionBounds DEF HasRows
<1>18. AttemptsWait(e) /\ OneInUse(e)
  BY <1>2, <1>3, <1>6, <1>8, <1>13, <1>16 DEF Held, AttemptsWait, OneInUse, Waiting
<1>19. PromiseOK(e)
  BY <1>2, <1>6, <1>8, <1>16 DEF PromiseOK, Waiting
<1>20. HandleOK(e) /\ StoresOK(e)
  BY <1>2, <1>3, <1>13, <1>16, <1>17 DEF HandleOK, StoresOK
<1>21. FreeSockets(c) # {} => FreeSockets(e) # {}
  BY <1>2, <1>6, <1>8, <1>16 DEF FreeSockets
<1>22. QED
  BY <1>3, <1>5, <1>7, <1>11, <1>13, <1>14, <1>15, <1>16, <1>17, <1>18, <1>19, <1>20, <1>21
  DEF Held, Applied

LEMMA SucceedGives ==
  ASSUME NEW c, Held(c), NEW s \in Sockets, c.sock[s].at = "open"
  PROVE  LET d == [SyncAll(c, c.sock[s].who) EXCEPT
                     !.sock[s].at = "applied", !.sock[s].established = TRUE,
                     !.synced = TRUE, !.live = TRUE]
         IN  \E beats \in BOOLEAN :
               Succeed(d, s) = CheckLogin(Applied(c, s, beats), c.sock[s].login)
<1>1. c \in ClientType /\ c.sock[s] \in SocketType
  BY DEF Held, ClientType
<1>2. PICK w : w = c.sock[s].who
  OBVIOUS
<1>3. PICK named : named = IF c.identity = w /\ w # Anonymous THEN w ELSE Nothing
  OBVIOUS
<1>4. w \in SocketIdentities /\ named \in Accounts \cup {Nothing}
  BY <1>1, <1>2, <1>3 DEF SocketType, SocketIdentities
<1>5. PICK x : x = SyncAll(c, w)
  OBVIOUS
<1>6. x = [[c EXCEPT !.user = named] EXCEPT !.stores = {w}]
  BY <1>3, <1>5 DEF SyncAll, SyncUsers
<1>7. x \in ClientType /\ x.sock = c.sock /\ x.heartbeat = c.heartbeat
  BY <1>1, <1>4, <1>6 DEF ClientType
<1>8. PICK k : k = [c.sock[s] EXCEPT !.at = "applied", !.established = TRUE]
  OBVIOUS
<1>9. /\ k \in SocketType /\ k.at = "applied" /\ k.established /\ k.who = w
      /\ k.login = c.sock[s].login /\ k.abandoned = c.sock[s].abandoned
  BY <1>1, <1>2, <1>8 DEF SocketType, SocketStates
<1>10. PICK m : m = [c.sock EXCEPT ![s] = k]
  OBVIOUS
<1>11. m \in [Sockets -> SocketType] /\ m[s] = k
  BY <1>1, <1>9, <1>10 DEF ClientType
<1>12. PICK d : d = [x EXCEPT !.sock[s].at = "applied", !.sock[s].established = TRUE,
                              !.synced = TRUE, !.live = TRUE]
  OBVIOUS
<1>13. d = [x EXCEPT !.sock = m, !.synced = TRUE, !.live = TRUE]
  BY <1>7, <1>8, <1>10, <1>12 DEF ClientType, SocketType
<1>14. d \in ClientType /\ d.sock = m /\ d.heartbeat = c.heartbeat
  BY <1>7, <1>11, <1>13 DEF ClientType
<1>15. PICK beats \in BOOLEAN : beats = (c.heartbeat \/ ~k.abandoned)
  BY <1>1 DEF ClientType
<1>16. PICK u : u = Unwatched(k)
  OBVIOUS
<1>17. PICK j : j = [Unwatched(c.sock[s]) EXCEPT !.at = "applied", !.established = TRUE]
  OBVIOUS
<1>18. u = j
  BY <1>2, <1>9, <1>16, <1>17 DEF Unwatched, Free
<1>19. u \in SocketType
  BY <1>1, <1>4, <1>9, <1>16, FreeType DEF Unwatched, SocketType
<1>20. PICK n : n = [c.sock EXCEPT ![s] = u]
  OBVIOUS
<1>21. n \in [Sockets -> SocketType] /\ n = [m EXCEPT ![s] = u]
  BY <1>1, <1>9, <1>10, <1>19, <1>20 DEF ClientType
<1>22. PICK e : e = [d EXCEPT !.sock = n, !.promise = Nothing, !.heartbeat = beats]
  OBVIOUS
<1>23. Succeed(d, s) = CheckLogin(e, c.sock[s].login)
  BY <1>9, <1>11, <1>14, <1>15, <1>16, <1>21, <1>22 DEF Succeed, ClientType
<1>24. Applied(c, s, beats) = [x EXCEPT !.sock = n, !.synced = TRUE, !.live = TRUE,
                                       !.promise = Nothing, !.heartbeat = beats]
  BY <1>2, <1>5, <1>17, <1>18, <1>20 DEF Applied
<1>25. e = Applied(c, s, beats)
  BY <1>7, <1>11, <1>13, <1>21, <1>22, <1>24 DEF ClientType
<1>26. QED BY <1>2, <1>5, <1>12, <1>23, <1>25

LEMMA RowsAppliedKeeps ==
  ASSUME ConnectionInv, NEW s \in Sockets, RowsApplied(s)
  PROVE  ConnectionInv'
<1>1. PICK d : d = [SyncAll(client, client.sock[s].who) EXCEPT
                      !.sock[s].at = "applied", !.sock[s].established = TRUE,
                      !.synced = TRUE, !.live = TRUE]
  OBVIOUS
<1>2. PICK e : e = IF client.sock[s].waits THEN Succeed(d, s) ELSE d
  OBVIOUS
<1>3. client.sock[s].at = "open" /\ HandlesLeft /\ StepWith(e, {})
  BY <1>1, <1>2 DEF RowsApplied, Step
<1>4. ASSUME NoneLeftOpen'
      PROVE  /\ Held(e) /\ (e.shown = Shown(e) \/ Ready(e))
             /\ mishaps' = {} => Back(e)
  <2>1. Held(client) /\ client \in ClientType /\ (mishaps' = {} => Back(client))
    BY <1>3, <1>4, BeforeStep
  <2>2. client.sock[s].waits /\ client.connection = s
    BY <1>3, <2>1 DEF Held, OneInUse, Waiting
  <2>3. PICK beats \in BOOLEAN : e = CheckLogin(Applied(client, s, beats), client.sock[s].login)
    BY <1>1, <1>2, <1>3, <2>1, <2>2, SucceedGives
  <2>4. PICK f : f = Applied(client, s, beats)
    OBVIOUS
  <2>5. /\ Held(f) /\ HasRows(f) /\ f.connection = client.connection
        /\ f.intentional = client.intentional /\ FreeSockets(f) # {}
    BY <1>3, <2>1, <2>4, AppliedGives, HandlesAreFree
  <2>6. f \in ClientType /\ AttemptsWait(f)
        /\ \A t \in Sockets : f.sock[t].at \in {"opening", "open", "applied"} => f.connection = t
    BY <2>5 DEF Held, OneInUse
  <2>7. e = f \/ LeftFrom(e, f)
    BY <2>3, <2>4, <2>6, CheckLoginGives
  <2>8. CASE e = f
    BY <2>1, <2>2, <2>5, <2>8, ConnectionBounds DEF Ready, Back, UnderWay
  <2>9. CASE LeftFrom(e, f)
    BY <2>5, <2>9, LeftIsHeld DEF LeftFrom, Ready
  <2>10. QED BY <2>7, <2>8, <2>9
<1>5. QED BY <1>3, <1>4, StepKeeps

\* Without the socket in use nothing is held.
LEMMA SilentWithout ==
  ASSUME NEW c, Held(c), NEW s \in Sockets, c.connection = s,
         NEW g \in ClientType, g.sock = [c.sock EXCEPT ![s] = Free], ~g.live, g.queue = {}
  PROVE  Silent(g) /\ FreeSockets(g) # {}
<1>1. c \in ClientType
  BY DEF Held
<1>2. g.sock[s] = Free /\ \A t \in Sockets : t # s => g.sock[t] = c.sock[t]
  BY <1>1 DEF ClientType
<1>3. Free.at = "free" /\ ~Free.waits
  BY DEF Free
<1>4. \A t \in Sockets : t # s => /\ c.sock[t].at \notin {"opening", "open", "applied"}
                                  /\ ~Waiting(c, t)
  BY ConnectionBounds DEF Held, OneInUse, PromiseOK
<1>5. AttemptsWait(g)
  BY <1>2, <1>3 DEF Held, AttemptsWait
<1>6. QED BY <1>2, <1>3, <1>4, <1>5 DEF Silent, Waiting, FreeSockets

\* What is held stays so when an older socket is gone.
LEMMA HeldWithout ==
  ASSUME NEW c, Held(c), NEW s \in Sockets, c.connection # s, ~Waiting(c, s),
         NEW g \in ClientType, g.sock = [c.sock EXCEPT ![s] = Free],
         g.connection = c.connection, g.promise = c.promise, g.identity = c.identity,
         g.live = c.live, g.stores = c.stores, g.queue = c.queue
  PROVE  /\ Held(g) /\ FreeSockets(g) # {} /\ (HasRows(g) <=> HasRows(c))
         /\ c.promise # Nothing => c.promise \in Sockets /\ g.sock[c.promise] = c.sock[c.promise]
<1>1. c \in ClientType
  BY DEF Held
<1>2. g.sock[s] = Free /\ \A t \in Sockets : t # s => g.sock[t] = c.sock[t]
  BY <1>1 DEF ClientType
<1>3. Free.at = "free" /\ ~Free.waits
  BY DEF Free
<1>4. c.connection \in Sockets \cup {Nothing} /\ c.promise \in Sockets \cup {Nothing}
  BY <1>1 DEF ClientType
<1>5. HasRows(g) <=> HasRows(c)
  BY <1>2, <1>4 DEF HasRows
<1>6. AttemptsWait(g)
  BY <1>2, <1>3 DEF Held, AttemptsWait
<1>7. OneInUse(g)
  BY <1>2, <1>3 DEF Held, OneInUse, Waiting
<1>8. PromiseOK(g)
  BY <1>2, <1>3, <1>4 DEF Held, PromiseOK, Waiting
<1>9. HandleOK(g)
  BY <1>2, <1>4, <1>5 DEF Held, HandleOK, Waiting
<1>10. StoresOK(g)
  BY <1>5 DEF Held, StoresOK
<1>11. FreeSockets(g) # {}
  BY <1>2, <1>3 DEF FreeSockets
<1>12. c.promise # Nothing => c.promise \in Sockets /\ g.sock[c.promise] = c.sock[c.promise]
  BY <1>2, <1>4 DEF Held, PromiseOK
<1>13. QED BY <1>5, <1>6, <1>7, <1>8, <1>9, <1>10, <1>11, <1>12 DEF Held

LEMMA ConnectFailsKeeps ==
  ASSUME ConnectionInv, NEW s \in Sockets, NEW refused \in BOOLEAN, ConnectFails(s, refused)
  PROVE  ConnectionInv'
<1>1. PICK a : a = client.sock[s]
  OBVIOUS
<1>2. PICK d : d = [client EXCEPT !.sock[s] = Free,
                      !.status = IF a.candidate = Candidates /\ ~a.gzip
                                 THEN "disconnected" ELSE @]
  OBVIOUS
<1>3. PICK e : e = NextAddress(d, a, client.promise = s, refused)
  OBVIOUS
<1>4. a.at = "opening" /\ StepWith(e, {})
  BY <1>1, <1>2, <1>3 DEF ConnectFails, Step
<1>5. ASSUME NoneLeftOpen'
      PROVE  /\ Held(e) /\ (e.shown = Shown(e) \/ Ready(e))
             /\ mishaps' = {} => Back(e)
  <2>1. PICK c : c = client
    OBVIOUS
  <2>2. Held(c) /\ c \in ClientType /\ (mishaps' = {} => Back(c))
    BY <1>4, <1>5, <2>1, BeforeStep
  <2>3. PICK status : status = IF a.candidate = Candidates /\ ~a.gzip
                               THEN "disconnected" ELSE c.status
    OBVIOUS
  <2>4. status \in Statuses
    BY <2>2, <2>3 DEF ClientType, Statuses
  <2>5. PICK m : m = [c.sock EXCEPT ![s] = Free]
    OBVIOUS
  <2>6. m \in [Sockets -> SocketType]
    BY <2>2, <2>5, FreeType DEF ClientType
  <2>7. d = [c EXCEPT !.sock = m, !.status = status]
    BY <1>2, <2>1, <2>3, <2>5
  <2>8. /\ d \in ClientType /\ d.sock = m /\ d.connection = c.connection /\ d.live = c.live
        /\ d.queue = c.queue /\ d.user = c.user /\ d.timer = c.timer
        /\ d.intentional = c.intentional
    BY <2>2, <2>4, <2>6, <2>7 DEF ClientType
  <2>9. /\ a \in SocketType /\ a.waits /\ ~a.abandoned /\ ~a.established
        /\ c.connection = s /\ c.promise = s /\ ~c.live /\ c.queue = {} /\ ~HasRows(c)
    BY <1>1, <1>4, <2>1, <2>2
    DEF Held, OneInUse, PromiseOK, Waiting, AttemptsWait, StoresOK, HasRows, ClientType
  <2>10. Silent(d) /\ FreeSockets(d) # {}
    BY <2>2, <2>5, <2>8, <2>9, SilentWithout
  <2>11. d.sock[d.connection].at = "free"
    BY <2>2, <2>5, <2>8, <2>9 DEF ClientType, Free
  <2>12. e = NextAddress(d, a, TRUE, refused)
    BY <1>3, <2>1, <2>9
  <2>13. /\ Held(e) /\ Ready(e)
         /\ ~d.intentional /\ (d.user # Nothing => d.timer \/ a.retry) => Back(e)
    BY <2>9, <2>10, <2>11, <2>12, CurrentFails
  <2>14. Back(c) => ~d.intentional /\ (d.user # Nothing => d.timer \/ a.retry)
    BY <1>1, <2>1, <2>8, <2>9, ConnectionBounds DEF Back, UnderWay
  <2>15. QED BY <2>2, <2>13, <2>14
<1>6. QED BY <1>4, <1>5, StepKeeps

LEMMA OnDisconnectGives ==
  ASSUME NEW c \in ClientType, NEW s \in Sockets
  PROVE  LET g == OnDisconnect(c, s)
         IN  /\ g \in ClientType /\ g.sock = [c.sock EXCEPT ![s] = Free]
             /\ g.promise = c.promise /\ g.identity = c.identity /\ g.stores = c.stores
             /\ g.user = c.user /\ g.intentional = c.intentional
             /\ c.sock[s].established /\ ~c.intentional => g.timer
             /\ c.timer => g.timer
             /\ c.connection = s => g.connection = Nothing /\ ~g.live /\ g.queue = {}
             /\ c.connection # s => /\ g.connection = c.connection /\ g.live = c.live
                                    /\ g.queue = c.queue
<1>1. PICK m : m = [c.sock EXCEPT ![s] = Free]
  OBVIOUS
<1>2. m \in [Sockets -> SocketType]
  BY <1>1, FreeType DEF ClientType
<1>3. PICK d : d = [c EXCEPT !.status = "disconnected", !.heartbeat = FALSE, !.sock = m]
  OBVIOUS
<1>4. d \in ClientType
  BY <1>2, <1>3 DEF ClientType, Statuses
<1>5. /\ d.sock = m /\ d.promise = c.promise /\ d.identity = c.identity /\ d.stores = c.stores
      /\ d.user = c.user /\ d.intentional = c.intentional /\ d.timer = c.timer
      /\ d.connection = c.connection /\ d.live = c.live /\ d.queue = c.queue
  BY <1>2, <1>3 DEF ClientType
<1>6. PICK f : f = IF c.connection = s THEN Teardown(d) ELSE d
  OBVIOUS
<1>7. Teardown(d).stores = d.stores
  BY <1>4 DEF Teardown, ClientType
<1>8. /\ f \in ClientType /\ f.sock = m /\ f.promise = c.promise /\ f.identity = c.identity
      /\ f.stores = c.stores /\ f.user = c.user /\ f.intentional = c.intentional
      /\ f.timer = c.timer
      /\ c.connection = s => f.connection = Nothing /\ ~f.live /\ f.queue = {}
      /\ c.connection # s => f.connection = c.connection /\ f.live = c.live /\ f.queue = c.queue
  BY <1>4, <1>5, <1>6, <1>7, TeardownGives
<1>9. PICK h : h = [f EXCEPT !.timer = TRUE]
  OBVIOUS
<1>10. /\ h \in ClientType /\ h.sock = f.sock /\ h.promise = f.promise
       /\ h.identity = f.identity /\ h.stores = f.stores /\ h.user = f.user
       /\ h.intentional = f.intentional /\ h.timer /\ h.connection = f.connection
       /\ h.live = f.live /\ h.queue = f.queue
  BY <1>8, <1>9 DEF ClientType
<1>11. OnDisconnect(c, s) = IF c.sock[s].established /\ ~c.intentional THEN h ELSE f
  BY <1>1, <1>3, <1>6, <1>8, <1>9 DEF OnDisconnect, ScheduleReconnect
<1>12. QED BY <1>1, <1>8, <1>10, <1>11

LEMMA SocketClosesKeeps ==
  ASSUME ConnectionInv, NEW s \in Sockets, SocketCloses(s)
  PROVE  ConnectionInv'
<1>1. PICK c : c = client
  OBVIOUS
<1>2. PICK g : g = OnDisconnect(c, s)
  OBVIOUS
<1>3. PICK a : a = c.sock[s]
  OBVIOUS
<1>4. PICK e : e = NextAddress(g, a, c.promise = s, FALSE)
  OBVIOUS
<1>5. PICK new : new = IF c.connection \in {Nothing, s} THEN {} ELSE {"late"}
  OBVIOUS
<1>6. a.at \in {"open", "applied", "closing"} /\ StepWith(e, new)
  BY <1>1, <1>2, <1>3, <1>4, <1>5 DEF SocketCloses
<1>7. ASSUME NoneLeftOpen'
      PROVE  /\ Held(e) /\ (e.shown = Shown(e) \/ Ready(e))
             /\ mishaps' = {} => Back(e)
  <2>1. /\ Held(c) /\ c \in ClientType /\ ~Orphans(e)
        /\ (mishaps' = {} => Back(c) /\ c.connection \in {Nothing, s})
    BY <1>1, <1>5, <1>6, <1>7, BeforeStep
  <2>2. /\ g \in ClientType /\ g.sock = [c.sock EXCEPT ![s] = Free]
        /\ g.promise = c.promise /\ g.identity = c.identity /\ g.stores = c.stores
        /\ g.user = c.user /\ g.intentional = c.intentional
        /\ c.sock[s].established /\ ~c.intentional => g.timer
        /\ c.timer => g.timer
        /\ c.connection = s => g.connection = Nothing /\ ~g.live /\ g.queue = {}
        /\ c.connection # s => /\ g.connection = c.connection /\ g.live = c.live
                               /\ g.queue = c.queue
    BY <1>2, <2>1, OnDisconnectGives
  <2>3. a \in SocketType /\ (a.waits => ~a.established)
    BY <1>3, <2>1 DEF ClientType, Held, AttemptsWait
  <2>4. ~a.waits => e = g
    BY <1>4, <2>3 DEF NextAddress, SocketType
  <2>5. CASE c.connection = s
    <3>1. Silent(g) /\ FreeSockets(g) # {} /\ s # Nothing
      BY <2>1, <2>2, <2>5, SilentWithout, ConnectionBounds
    <3>2. a.waits => ~a.abandoned /\ c.promise = s
      <4>. SUFFICES ASSUME a.waits PROVE Waiting(c, s)
        BY <1>3, <2>1 DEF Held, PromiseOK, Waiting
      <4>1. a.at # "applied" /\ ~a.established
        BY <1>3, <2>1 DEF Held, AttemptsWait
      <4>2. ~HasRows(c)
        BY <1>3, <2>5, <4>1 DEF HasRows
      <4>3. CASE a.at = "open"
        BY <1>3, <2>1, <4>3 DEF Held, OneInUse
      <4>4. CASE a.at = "closing"
        BY <1>3, <2>1, <2>5, <3>1, <4>2, <4>4 DEF Held, HandleOK
      <4>5. QED BY <1>6, <4>1, <4>3, <4>4
    <3>3. CASE a.waits
      <4>1. e = NextAddress(g, a, TRUE, FALSE)
        BY <1>4, <3>2, <3>3
      <4>2. /\ Held(e) /\ Ready(e)
            /\ ~g.intentional /\ (g.user # Nothing => g.timer \/ a.retry) => Back(e)
        BY <2>2, <2>3, <2>5, <3>1, <3>2, <3>3, <4>1, CurrentFails
      <4>3. Back(c) => ~g.intentional /\ (g.user # Nothing => g.timer \/ a.retry)
        BY <1>3, <2>2, <2>3, <2>5, <3>1, <3>2, <3>3 DEF Back, UnderWay, HasRows
      <4>4. QED BY <2>1, <4>2, <4>3
    <3>4. CASE ~a.waits
      <4>1. g.promise = Nothing
        BY <1>3, <2>1, <2>2, <2>5, <3>4 DEF Held, PromiseOK, Waiting
      <4>2. HasRows(c)
        BY <1>3, <1>6, <2>1, <2>5, <3>1, <3>4 DEF Held, HandleOK, OneInUse, Waiting
      <4>3. Back(c) => Back(g)
        BY <2>2, <2>5, <3>1, <4>2 DEF Back, UnderWay, HasRows
      <4>4. Held(g)
        BY <2>2, <2>5, <3>1, <4>1, SilentIsHeld
      <4>5. QED BY <2>1, <2>4, <3>1, <3>4, <4>3, <4>4 DEF Ready
    <3>5. QED BY <3>3, <3>4
  <2>6. CASE c.connection # s
    <3>1. ~Waiting(c, s)
      BY <2>1, <2>6, ConnectionBounds DEF Held, PromiseOK
    <3>2. /\ Held(g) /\ FreeSockets(g) # {} /\ (HasRows(g) <=> HasRows(c))
          /\ c.promise # Nothing => c.promise \in Sockets /\ g.sock[c.promise] = c.sock[c.promise]
      BY <2>1, <2>2, <2>6, <3>1, HeldWithout
    <3>3. mishaps' = {} => Back(g)
      BY <2>1, <2>2, <2>6, <3>2 DEF Back, UnderWay, HasRows, Held, PromiseOK
    <3>4. CASE ~a.waits
      BY <2>4, <3>2, <3>3, <3>4 DEF Ready
    <3>5. CASE a.waits
      <4>1. a.abandoned
        BY <1>3, <3>1, <3>5 DEF Waiting
      <4>2. /\ AttemptsWait(g)
            /\ \A t \in Sockets : g.sock[t].at \in {"opening", "open", "applied"} => g.connection = t
        BY <3>2 DEF Held, OneInUse
      <4>3. LeftFrom(e, g) \/ e = [g EXCEPT !.promise = Nothing]
        <5>1. PICK mine : mine = (c.promise = s)
          OBVIOUS
        <5>2. e = NextAddress(g, a, mine, FALSE)
          BY <1>4, <5>1
        <5>3. g \in ClientType /\ a \in SocketType
          BY <2>2, <2>3
        <5>4. PICK refused \in BOOLEAN : refused = FALSE
          OBVIOUS
        <5>5. e = NextAddress(g, a, mine, refused)
          BY <5>2, <5>4
        <5>6. QED BY <3>5, <4>1, <4>2, <5>3, <5>5, AbandonedFails
      <4>4. CASE LeftFrom(e, g)
        BY <3>2, <4>4, LeftIsHeld DEF LeftFrom, Ready
      <4>5. CASE e = [g EXCEPT !.promise = Nothing]
        <5>1. /\ e \in ClientType /\ e.sock = g.sock /\ e.promise = Nothing
              /\ e.connection = g.connection /\ e.identity = g.identity /\ e.live = g.live
              /\ e.stores = g.stores /\ e.queue = g.queue /\ e.user = g.user
              /\ e.timer = g.timer /\ e.intentional = g.intentional
          BY <2>2, <4>5 DEF ClientType
        <5>2. c.promise = Nothing
          <6>1. c.promise # Nothing => Waiting(c, c.promise)
            BY <2>1 DEF Held, PromiseOK
          <6>2. c.promise # Nothing =>
                  e.sock[c.promise].waits /\ ~e.sock[c.promise].abandoned
            BY <3>2, <5>1, <6>1 DEF Waiting
          <6>3. QED BY <1>1, <2>1, <5>1, <6>2 DEF Orphans
        <5>3. Held(e) /\ (HasRows(e) <=> HasRows(g)) /\ FreeSockets(e) = FreeSockets(g)
          BY <2>2, <3>2, <5>1, <5>2, HeldSame
        <5>4. Back(g) => Back(e)
          BY <2>2, <5>1, <5>2, <5>3 DEF Back, UnderWay
        <5>5. QED BY <3>2, <3>3, <5>3, <5>4 DEF Ready
      <4>6. QED BY <4>3, <4>4, <4>5
    <3>6. QED BY <3>4, <3>5
  <2>7. QED BY <2>5, <2>6
<1>8. QED BY <1>6, <1>7, StepKeeps

LEMMA AttemptStallsKeeps ==
  ASSUME NEW s \in Sockets, AttemptStalls(s)
  PROVE  ConnectionInv'
<1>1. "stall" \in mishaps'
  BY DEF AttemptStalls, StepWith
<1>2. ~NoneLeftOpen' /\ mishaps' # {}
  BY <1>1 DEF NoneLeftOpen
<1>3. QED BY <1>2 DEF ConnectionInv

LEMMA RowArrivesKeeps ==
  ASSUME ConnectionInv, NEW s \in Sockets, RowArrives(s)
  PROVE  ConnectionInv'
<1>1. PICK c : c = client
  OBVIOUS
<1>2. PICK queue : queue = c.queue \cup {c.sock[s].who}
  OBVIOUS
<1>3. PICK e : e = [c EXCEPT !.queue = queue]
  OBVIOUS
<1>4. c.sock[s].at = "applied" /\ c.live /\ StepWith(e, {})
  BY <1>1, <1>2, <1>3 DEF RowArrives, Step
<1>5. ASSUME NoneLeftOpen'
      PROVE  /\ Held(e) /\ (e.shown = Shown(e) \/ Ready(e))
             /\ mishaps' = {} => Back(e)
  <2>1. Held(c) /\ c \in ClientType /\ (mishaps' = {} => Back(c)) /\ c.shown = Shown(c)
    BY <1>1, <1>4, <1>5, BeforeStep
  <2>2. c.sock[s].who \in SocketIdentities /\ c.sock[s].who = c.identity
    BY <1>4, <2>1 DEF ClientType, SocketType, Held, OneInUse
  <2>3. queue \subseteq SocketIdentities /\ queue \subseteq {c.identity}
    BY <1>2, <1>4, <2>1, <2>2 DEF ClientType, Held, StoresOK
  <2>4. e \in ClientType
    BY <1>3, <2>1, <2>3 DEF ClientType
  <2>5. /\ e.queue = queue /\ e.sock = c.sock /\ e.connection = c.connection
        /\ e.promise = c.promise /\ e.identity = c.identity /\ e.live = c.live
        /\ e.stores = c.stores /\ e.user = c.user /\ e.timer = c.timer
        /\ e.intentional = c.intentional /\ e.shown = c.shown /\ e.status = c.status
    BY <1>3, <2>1, <2>3 DEF ClientType
  <2>6. HasRows(e) <=> HasRows(c)
    BY <2>5 DEF HasRows
  <2>7. AttemptsWait(e) /\ OneInUse(e) /\ PromiseOK(e)
    BY <2>1, <2>5 DEF Held, AttemptsWait, OneInUse, PromiseOK, Waiting
  <2>8. HandleOK(e)
    BY <2>1, <2>5, <2>6 DEF Held, HandleOK, Waiting
  <2>9. StoresOK(e)
    BY <1>4, <2>1, <2>3, <2>5, <2>6 DEF Held, StoresOK
  <2>10. Back(c) => Back(e)
    BY <2>5, <2>6 DEF Back, UnderWay
  <2>11. e.shown = Shown(e)
    BY <2>1, <2>5 DEF Shown
  <2>12. QED BY <2>1, <2>4, <2>7, <2>8, <2>9, <2>10, <2>11 DEF Held
<1>6. QED BY <1>4, <1>5, StepKeeps

LEMMA FlushRefreshesKeeps ==
  ASSUME ConnectionInv, FlushRefreshes
  PROVE  ConnectionInv'
<1>1. PICK c : c = client
  OBVIOUS
<1>2. PICK stores : stores = c.stores \cup c.queue
  OBVIOUS
<1>3. PICK e : e = [[c EXCEPT !.stores = stores] EXCEPT !.queue = {}]
  OBVIOUS
<1>4. c.queue # {} /\ StepWith(e, {})
  BY <1>1, <1>2, <1>3 DEF FlushRefreshes, Step, Rebuild
<1>5. ASSUME NoneLeftOpen'
      PROVE  /\ Held(e) /\ (e.shown = Shown(e) \/ Ready(e))
             /\ mishaps' = {} => Back(e)
  <2>1. Held(c) /\ c \in ClientType /\ (mishaps' = {} => Back(c)) /\ c.shown = Shown(c)
    BY <1>1, <1>4, <1>5, BeforeStep
  <2>2. stores \subseteq SocketIdentities /\ stores = c.stores
    BY <1>2, <1>4, <2>1 DEF ClientType, Held, StoresOK
  <2>3. e \in ClientType
    BY <1>3, <2>1, <2>2 DEF ClientType
  <2>4. /\ e.queue = {} /\ e.sock = c.sock /\ e.connection = c.connection
        /\ e.promise = c.promise /\ e.identity = c.identity /\ e.live = c.live
        /\ e.stores = c.stores /\ e.user = c.user /\ e.timer = c.timer
        /\ e.intentional = c.intentional /\ e.shown = c.shown /\ e.status = c.status
    BY <1>3, <2>1, <2>2 DEF ClientType
  <2>5. HasRows(e) <=> HasRows(c)
    BY <2>4 DEF HasRows
  <2>6. AttemptsWait(e) /\ OneInUse(e) /\ PromiseOK(e)
    BY <2>1, <2>4 DEF Held, AttemptsWait, OneInUse, PromiseOK, Waiting
  <2>7. HandleOK(e)
    BY <2>1, <2>4, <2>5 DEF Held, HandleOK, Waiting
  <2>8. StoresOK(e)
    BY <2>1, <2>4, <2>5 DEF Held, StoresOK
  <2>9. Back(c) => Back(e)
    BY <2>4, <2>5 DEF Back, UnderWay
  <2>10. e.shown = Shown(e)
    BY <2>1, <2>4 DEF Shown
  <2>11. QED BY <2>1, <2>3, <2>6, <2>7, <2>8, <2>9, <2>10 DEF Held
<1>6. QED BY <1>4, <1>5, StepKeeps

LEMMA HeartbeatFailsKeeps ==
  ASSUME ConnectionInv, HeartbeatFails
  PROVE  ConnectionInv'
<1>1. PICK c : c = client
  OBVIOUS
<1>2. PICK e : e = CloseHandle(c)
  OBVIOUS
<1>3. Active(c) /\ StepWith(e, {})
  BY <1>1, <1>2 DEF HeartbeatFails, Step
<1>4. ASSUME NoneLeftOpen'
      PROVE  /\ Held(e) /\ (e.shown = Shown(e) \/ Ready(e))
             /\ mishaps' = {} => Back(e)
  <2>1. Held(c) /\ c \in ClientType /\ (mishaps' = {} => Back(c))
    BY <1>1, <1>3, <1>4, BeforeStep
  <2>2. PICK h : h = c.connection
    OBVIOUS
  <2>3. h \in Sockets /\ h # Nothing /\ c.sock[h].at \in {"open", "applied", "closing"}
    BY <1>3, <2>1, <2>2 DEF Active, ClientType
  <2>4. /\ e \in ClientType
        /\ \A t \in Sockets : t # h => e.sock[t] = c.sock[t]
        /\ e.sock[h] = [c.sock[h] EXCEPT !.at = "closing"]
        /\ e = [c EXCEPT !.sock = e.sock]
    BY <1>2, <2>1, <2>2, <2>3, CloseHandleGives
  <2>5. /\ e.sock[h].at = "closing" /\ e.sock[h].waits = c.sock[h].waits
        /\ e.sock[h].established = c.sock[h].established
        /\ e.sock[h].abandoned = c.sock[h].abandoned /\ e.sock[h].retry = c.sock[h].retry
    BY <2>1, <2>3, <2>4 DEF ClientType, SocketType
  <2>6. /\ e.connection = c.connection /\ e.promise = c.promise /\ e.identity = c.identity
        /\ e.live = c.live /\ e.stores = c.stores /\ e.queue = c.queue /\ e.user = c.user
        /\ e.timer = c.timer /\ e.intentional = c.intentional
    BY <2>1, <2>4 DEF ClientType
  <2>7. \A t \in Sockets : Waiting(e, t) <=> Waiting(c, t)
    BY <2>4, <2>5 DEF Waiting
  <2>8. HasRows(c) => HasRows(e)
    BY <2>2, <2>5, <2>6 DEF HasRows
  <2>9. AttemptsWait(e)
    BY <2>1, <2>4, <2>5 DEF Held, AttemptsWait
  <2>10. OneInUse(e)
    BY <2>1, <2>4, <2>5, <2>6, <2>7 DEF Held, OneInUse
  <2>11. PromiseOK(e)
    BY <2>1, <2>2, <2>3, <2>6, <2>7 DEF Held, PromiseOK
  <2>12. HandleOK(e)
    <3>1. CASE c.sock[h].at = "open"
      BY <2>1, <2>2, <2>3, <2>6, <2>7, <3>1 DEF Held, OneInUse, HandleOK
    <3>2. CASE c.sock[h].at \in {"applied", "closing"}
      BY <2>1, <2>2, <2>3, <2>6, <2>7, <2>8, <3>2 DEF Held, HandleOK
    <3>3. QED BY <2>3, <3>1, <3>2
  <2>13. StoresOK(e)
    BY <2>1, <2>6, <2>8 DEF Held, StoresOK
  <2>14. Active(e)
    BY <2>2, <2>3, <2>5, <2>6 DEF Active
  <2>15. c.promise # Nothing => e.sock[c.promise].retry = c.sock[c.promise].retry
    BY <2>1, <2>2, <2>5 DEF Held, PromiseOK
  <2>16. Back(c) => Back(e)
    BY <2>6, <2>8, <2>15 DEF Back, UnderWay
  <2>17. QED BY <2>1, <2>4, <2>9, <2>10, <2>11, <2>12, <2>13, <2>14, <2>16 DEF Held, Ready
<1>5. QED BY <1>3, <1>4, StepKeeps

LEMMA ReconnectTimerKeeps ==
  ASSUME ConnectionInv, ReconnectTimer
  PROVE  ConnectionInv'
<1>1. PICK c : c = client
  OBVIOUS
<1>2. PICK d : d = [c EXCEPT !.timer = FALSE]
  OBVIOUS
<1>3. PICK retry \in BOOLEAN : retry = TRUE
  OBVIOUS
<1>4. PICK e : e = Connect(d, Nothing, retry)
  OBVIOUS
<1>5. PICK new : new = IF Active(c) /\ c.promise # Nothing THEN {"early"} ELSE {}
  OBVIOUS
<1>6. HandlesLeft /\ StepWith(e, new)
  BY <1>1, <1>2, <1>3, <1>4, <1>5 DEF ReconnectTimer
<1>7. ASSUME NoneLeftOpen'
      PROVE  /\ Held(e) /\ (e.shown = Shown(e) \/ Ready(e))
             /\ mishaps' = {} => Back(e)
  <2>1. Held(c) /\ c \in ClientType /\ (mishaps' = {} => new = {})
    BY <1>1, <1>6, <1>7, BeforeStep
  <2>2. /\ d \in ClientType /\ d.sock = c.sock /\ d.connection = c.connection
        /\ d.promise = c.promise /\ d.identity = c.identity /\ d.live = c.live
        /\ d.stores = c.stores /\ d.queue = c.queue
    BY <1>2, <2>1 DEF ClientType
  <2>3. Held(d) /\ (Active(d) <=> Active(c)) /\ FreeSockets(d) = FreeSockets(c)
    BY <2>1, <2>2, HeldSame
  <2>4. Ready(d)
    BY <1>1, <1>6, <2>3, HandlesAreFree DEF Ready
  <2>5. /\ Held(e) /\ (Active(e) \/ e.promise # Nothing)
        /\ retry /\ ~(Active(d) /\ d.promise # Nothing) => Back(e)
    BY <1>4, <2>3, <2>4, ConnectGives
  <2>6. mishaps' = {} => ~(Active(d) /\ d.promise # Nothing)
    BY <1>5, <2>1, <2>2, <2>3
  <2>7. QED BY <1>3, <2>5, <2>6 DEF Ready
<1>8. QED BY <1>6, <1>7, StepKeeps

LEMMA CallKeeps ==
  ASSUME ConnectionInv, Call
  PROVE  ConnectionInv'
<1>1. PICK c : c = client
  OBVIOUS
<1>2. PICK retry \in BOOLEAN : retry = FALSE
  OBVIOUS
<1>3. PICK e : e = Connect(c, Nothing, retry)
  OBVIOUS
<1>4. HandlesLeft /\ StepWith(e, {})
  BY <1>1, <1>2, <1>3 DEF Call, Step
<1>5. ASSUME NoneLeftOpen'
      PROVE  /\ Held(e) /\ (e.shown = Shown(e) \/ Ready(e))
             /\ mishaps' = {} => Back(e)
  <2>1. Held(c) /\ (mishaps' = {} => Back(c))
    BY <1>1, <1>4, <1>5, BeforeStep
  <2>2. Ready(c)
    BY <1>1, <1>4, HandlesAreFree DEF Ready
  <2>3. /\ Held(e) /\ (Active(e) \/ e.promise # Nothing)
        /\ (c.user # Nothing => UnderWay(c)) => Back(e)
    BY <1>3, <2>1, <2>2, ConnectGives
  <2>4. QED BY <2>1, <2>3 DEF Ready, Back
<1>6. QED BY <1>4, <1>5, StepKeeps

LEMMA RunEffectsKeeps ==
  ASSUME ConnectionInv, RunEffects
  PROVE  ConnectionInv'
<1>1. PICK c : c = client
  OBVIOUS
<1>2. PICK retry \in BOOLEAN : retry = FALSE
  OBVIOUS
<1>3. PICK e : e = Connect(c, Nothing, retry)
  OBVIOUS
<1>4. PICK f : f = [e EXCEPT !.shown = Shown(c)]
  OBVIOUS
<1>5. client' = f /\ mishaps' = mishaps /\ ~EffectsRan
  BY <1>1, <1>2, <1>3, <1>4 DEF RunEffects
<1>6. ASSUME NoneLeftOpen
      PROVE  /\ Held(f) /\ Ready(f)
             /\ Back(c) => Back(f)
  <2>1. Held(c) /\ Ready(c) /\ c \in ClientType
    BY <1>1, <1>5, <1>6 DEF ConnectionInv, Held
  <2>2. /\ Held(e) /\ (Active(e) \/ e.promise # Nothing)
        /\ (c.user # Nothing => UnderWay(c)) => Back(e)
    BY <1>3, <2>1, ConnectGives
  <2>3. Shown(c) \in SocketIdentities \cup {Nothing} /\ e \in ClientType
    BY <2>1, <2>2 DEF Shown, ClientType, Held
  <2>4. /\ f \in ClientType /\ f.sock = e.sock /\ f.connection = e.connection
        /\ f.promise = e.promise /\ f.identity = e.identity /\ f.live = e.live
        /\ f.stores = e.stores /\ f.queue = e.queue /\ f.user = e.user
        /\ f.timer = e.timer /\ f.intentional = e.intentional
    BY <1>4, <2>3 DEF ClientType
  <2>5. Held(f) /\ (Active(f) <=> Active(e)) /\ (HasRows(f) <=> HasRows(e))
    BY <2>2, <2>4, HeldSame
  <2>6. Back(e) => Back(f)
    BY <2>4, <2>5 DEF Back, UnderWay
  <2>7. QED BY <2>2, <2>4, <2>5, <2>6 DEF Ready, Back
<1>7. mishaps = {} => NoneLeftOpen
  BY DEF NoneLeftOpen
<1>8. Ready(client)' <=> Ready(f)
  BY <1>5 DEF Ready, Active, FreeSockets
<1>9. Held(client)' <=> Held(f)
  BY <1>5 DEF Held, AttemptsWait, OneInUse, PromiseOK, HandleOK, HasRows, StoresOK, Waiting
<1>10. Back(client)' <=> Back(f)
  BY <1>5 DEF Back, UnderWay, HasRows
<1>11. NoneLeftOpen' <=> NoneLeftOpen
  BY <1>5 DEF NoneLeftOpen
<1>12. mishaps = {} => Back(c)
  BY <1>1 DEF ConnectionInv
<1>13. QED BY <1>5, <1>6, <1>7, <1>8, <1>9, <1>10, <1>11, <1>12 DEF ConnectionInv

LEMMA LoginKeeps ==
  ASSUME ConnectionInv, NEW account \in Accounts, Login(account)
  PROVE  ConnectionInv'
<1>1. PICK c : c = client
  OBVIOUS
<1>2. PICK d : d = [Disconnect(c) EXCEPT !.token = account]
  OBVIOUS
<1>3. PICK retry \in BOOLEAN : retry = FALSE
  OBVIOUS
<1>4. PICK e : e = Connect(d, account, retry)
  OBVIOUS
<1>5. HandlesLeft /\ StepWith(e, {})
  BY <1>1, <1>2, <1>3, <1>4 DEF Login, Step
<1>6. ASSUME NoneLeftOpen'
      PROVE  /\ Held(e) /\ (e.shown = Shown(e) \/ Ready(e))
             /\ mishaps' = {} => Back(e)
  <2>1. Held(c)
    BY <1>1, <1>5, <1>6, BeforeStep
  <2>2. /\ c \in ClientType /\ AttemptsWait(c)
        /\ \A s \in Sockets : c.sock[s].at \in {"opening", "open", "applied"} => c.connection = s
    BY <2>1 DEF Held, OneInUse
  <2>3. LeftFrom(d, c)
    BY <1>2, <2>2, TokenStored DEF SocketIdentities
  <2>4. Held(d) /\ d.user = Nothing /\ Ready(d)
    BY <1>1, <1>5, <2>3, LeftIsHeld, HandlesAreFree DEF LeftFrom, Left, Ready
  <2>5. /\ Held(e) /\ (Active(e) \/ e.promise # Nothing)
        /\ (d.user # Nothing => UnderWay(d)) => Back(e)
    BY <1>4, <2>4, ConnectGives
  <2>6. QED BY <2>4, <2>5 DEF Ready
<1>7. QED BY <1>5, <1>6, StepKeeps

LEMMA SignOutKeeps ==
  ASSUME ConnectionInv, SignOut
  PROVE  ConnectionInv'
<1>1. PICK c : c = client
  OBVIOUS
<1>2. PICK e : e = [Disconnect(c) EXCEPT !.token = Nothing]
  OBVIOUS
<1>3. HandlesLeft /\ StepWith(e, {})
  BY <1>1, <1>2 DEF SignOut, Step
<1>4. ASSUME NoneLeftOpen'
      PROVE  /\ Held(e) /\ (e.shown = Shown(e) \/ Ready(e))
             /\ mishaps' = {} => Back(e)
  <2>1. Held(c)
    BY <1>1, <1>3, <1>4, BeforeStep
  <2>2. /\ c \in ClientType /\ AttemptsWait(c)
        /\ \A s \in Sockets : c.sock[s].at \in {"opening", "open", "applied"} => c.connection = s
    BY <2>1 DEF Held, OneInUse
  <2>3. LeftFrom(e, c)
    BY <1>2, <2>2, TokenStored
  <2>4. QED BY <1>1, <1>3, <2>3, LeftIsHeld, HandlesAreFree DEF LeftFrom, Ready
<1>5. QED BY <1>3, <1>4, StepKeeps

\* The page that is loaded connects.
LEMMA StartedGives ==
  ASSUME NEW token \in SocketIdentities \cup {Nothing}
  PROVE  Held(Started(token)) /\ Ready(Started(token)) /\ Back(Started(token))
<1>1. PICK m : m = [s \in Sockets |-> Free]
  OBVIOUS
<1>2. m \in [Sockets -> SocketType] /\ \A s \in Sockets : m[s] = Free
  BY <1>1, FreeType
<1>3. PICK b : b = [token |-> token, intentional |-> FALSE, status |-> "disconnected",
                    synced |-> FALSE, identity |-> Nothing, user |-> Nothing, stores |-> {},
                    live |-> FALSE, queue |-> {}, connection |-> Nothing, promise |-> Nothing,
                    timer |-> FALSE, heartbeat |-> FALSE, downgraded |-> FALSE,
                    shown |-> Nothing, sock |-> m]
  OBVIOUS
<1>4. b \in ClientType
  BY <1>2, <1>3 DEF ClientType, Statuses
<1>5. /\ b.sock = m /\ ~b.live /\ b.queue = {} /\ b.connection = Nothing
      /\ b.promise = Nothing /\ b.user = Nothing
  BY <1>3
<1>6. Free.at = "free" /\ ~Free.waits
  BY DEF Free
<1>7. Left(b)
  BY <1>2, <1>4, <1>5, <1>6 DEF Left, Silent, AttemptsWait, Waiting
<1>8. Held(b) /\ Ready(b)
  BY <1>2, <1>5, <1>6, <1>7, LeftIsHeld, ConnectionBounds DEF Ready, FreeSockets
<1>9. PICK retry \in BOOLEAN : retry = FALSE
  OBVIOUS
<1>10. PICK e : e = Connect(b, Nothing, retry)
  OBVIOUS
<1>11. /\ Held(e) /\ (Active(e) \/ e.promise # Nothing)
       /\ (b.user # Nothing => UnderWay(b)) => Back(e)
  BY <1>8, <1>10, ConnectGives
<1>12. Started(token) = e
  BY <1>1, <1>3, <1>9, <1>10 DEF Started
<1>13. QED BY <1>5, <1>11, <1>12 DEF Ready

LEMMA ReloadKeeps ==
  ASSUME ConnectionInv, Reload
  PROVE  ConnectionInv'
<1>1. PICK token : token = client.token
  OBVIOUS
<1>2. PICK e : e = Started(token)
  OBVIOUS
<1>3. StepWith(e, {})
  BY <1>1, <1>2 DEF Reload, Step
<1>4. ASSUME NoneLeftOpen'
      PROVE  /\ Held(e) /\ (e.shown = Shown(e) \/ Ready(e))
             /\ mishaps' = {} => Back(e)
  <2>1. token \in SocketIdentities \cup {Nothing}
    BY <1>1, <1>3, <1>4, BeforeStep DEF ClientType
  <2>2. QED BY <1>2, <2>1, StartedGives
<1>5. QED BY <1>3, <1>4, StepKeeps

LEMMA ConnectionStarts == ConnectionInit => ConnectionInv
<1>. SUFFICES ASSUME ConnectionInit PROVE ConnectionInv
  OBVIOUS
<1>1. PICK token \in Accounts \cup {Nothing} : client = Started(token)
  BY DEF ConnectionInit
<1>2. PICK c : c = client
  OBVIOUS
<1>3. Held(c) /\ Ready(c) /\ Back(c)
  BY <1>1, <1>2, StartedGives DEF SocketIdentities
<1>4. QED BY <1>2, <1>3 DEF ConnectionInv

LEMMA ConnectionStep == ConnectionInv /\ [ConnectionNext]_connectionVars => ConnectionInv'
<1>. SUFFICES ASSUME ConnectionInv, [ConnectionNext]_connectionVars PROVE ConnectionInv'
  OBVIOUS
<1>1. CASE RunEffects
  BY <1>1, RunEffectsKeeps
<1>2. ASSUME NEW s \in Sockets, SocketEvent(s) PROVE ConnectionInv'
  BY <1>2, SocketOpensKeeps, RowsAppliedKeeps, ConnectFailsKeeps, SocketClosesKeeps,
     AttemptStallsKeeps, RowArrivesKeeps DEF SocketEvent
<1>3. CASE FlushRefreshes
  BY <1>3, FlushRefreshesKeeps
<1>4. CASE HeartbeatFails
  BY <1>4, HeartbeatFailsKeeps
<1>5. CASE ReconnectTimer
  BY <1>5, ReconnectTimerKeeps
<1>6. CASE Call
  BY <1>6, CallKeeps
<1>7. ASSUME NEW a \in Accounts, Login(a) PROVE ConnectionInv'
  BY <1>7, LoginKeeps
<1>8. CASE SignOut
  BY <1>8, SignOutKeeps
<1>9. CASE Reload
  BY <1>9, ReloadKeeps
<1>10. CASE UNCHANGED connectionVars
  BY <1>10 DEF connectionVars, ConnectionInv, NoneLeftOpen, EffectsRan, Shown, Ready, Active,
               FreeSockets, Held, AttemptsWait, OneInUse, PromiseOK, HandleOK, HasRows,
               StoresOK, Waiting, Back, UnderWay
<1>11. QED
  BY <1>1, <1>2, <1>3, <1>4, <1>5, <1>6, <1>7, <1>8, <1>9, <1>10 DEF ConnectionNext

\* Rows that arrive find every store with the rows of the connected identity
\* (events.ts, cancelPendingRefreshes): no account sees another's.
THEOREM StoresAreOfTheSession == ConnectionSpec => []StoresOfTheSession
<1>1. ConnectionInv => StoresOfTheSession
  BY DEF ConnectionInv, StoresOfTheSession, Held, StoresOK
<1>2. QED BY <1>1, ConnectionStarts, ConnectionStep, PTL DEF ConnectionSpec

\* A signed-in session that lost its socket has a reconnect due or an attempt
\* in flight (connection.ts, scheduleReconnect).
THEOREM SessionsComeBack == ConnectionSpec => []ComesBack
<1>1. ConnectionInv => ComesBack
  <2>. SUFFICES ASSUME ConnectionInv, mishaps = {}, client.user # Nothing, ~Active(client)
       PROVE  client.timer \/ client.promise # Nothing
    BY DEF ComesBack
  <2>1. UnderWay(client)
    BY DEF ConnectionInv, Back
  <2>2. ~HasRows(client)
    BY DEF HasRows, Active
  <2>3. QED BY <2>1, <2>2 DEF UnderWay
<1>2. QED BY <1>1, ConnectionStarts, ConnectionStep, PTL DEF ConnectionSpec

\* The client holds one socket at a time (connection.ts, connectionGeneration
\* and connectPromise).
THEOREM OneSocketAtATime == ConnectionSpec => []OneSocket
<1>1. ConnectionInv => OneSocket
  BY DEF ConnectionInv, OneSocket, Held, OneInUse, InUse
<1>2. QED BY <1>1, ConnectionStarts, ConnectionStep, PTL DEF ConnectionSpec

=============================================================================
