--------------------------- MODULE IdentityRekey ---------------------------
(***************************************************************************)
(* The move of the accounts from client-made ("old") identities to those   *)
(* derived from the account ("new").  At every start core-api has the chat *)
(* database re-key its rows, in one call, and advances its own copy of the *)
(* identities only when that call has succeeded; else it tries again at    *)
(* the next start.  Meanwhile people sign in: their tokens resolve to the  *)
(* new identity already.                                                   *)
(*                                                                         *)
(* One table stands for each of the kinds the reducer treats: user (the    *)
(* identity is the key), friends (two identities make the key), author (an *)
(* identity in a column).                                                  *)
(***************************************************************************)
EXTENDS Naturals, FiniteSets

CONSTANTS People,
          Unknown,  \* those whose old identity is none: no 64 hex digits, no rows
          DatabaseOwner,    \* the identity of the database's owner, of no account
          MaxSince  \* bound: friendships made while the move is pending

VARIABLES
    stored,   \* [People -> {"old", "new"}]: core-api's copy
    user,     \* user rows: from identities to whose data they hold
    friends,   \* friend rows: from sets of identities to [by, since], where since is
              \* "before", "since" the move is pending, or "nobody"
    author,   \* [People -> Identities]: the sender of an old message of theirs
    caller,   \* the identity of SPACETIMEDB_SERVICE_TOKEN
    job       \* core-api's start: "down", "asked", "moved"

rkVars == <<stored, user, friends, author, caller, job>>

Old(p) == <<p, "old">>
New(p) == <<p, "new">>
Identities == People \X {"old", "new"}

RekeyInit ==
    /\ stored \in [People -> {"old", "new"}]
    /\ \A p \in Unknown : stored[p] = "old"
    /\ user = [i \in {<<p, stored[p]>> : p \in People \ Unknown} |-> "data"]
    /\ friends = [pair \in {pair \in SUBSET DOMAIN user : \E i, j \in pair : i # j /\ pair = {i, j}} |->
                    [by |-> CHOOSE i \in pair : TRUE, since |-> "before"]]
    /\ author = [p \in People |-> <<p, stored[p]>>]
    /\ caller \in {DatabaseOwner} \cup DOMAIN user
    /\ job = "down"

OldPairs == {p \in People \ Unknown : stored[p] = "old"}

----------------------------------------------------------------------------
(* The chat database meanwhile *)

\* register_user, under a name of its own
Register(p) ==
    /\ New(p) \notin DOMAIN user
    /\ user' = [i \in DOMAIN user \cup {New(p)} |-> IF i \in DOMAIN user THEN user[i] ELSE "placeholder"]
    /\ UNCHANGED <<stored, friends, author, caller, job>>

\* send_friend_request, which does not ask whether there is anyone to receive it:
\* a client may still know a person by an identity that is no longer theirs.
Befriend(i, j) ==
    /\ i # j /\ i \in DOMAIN user
    /\ {i, j} \notin DOMAIN friends
    /\ Cardinality({pair \in DOMAIN friends : friends[pair].since # "before"}) < MaxSince
    /\ friends' = [pair \in DOMAIN friends \cup {{i, j}} |->
            IF pair \in DOMAIN friends THEN friends[pair]
            ELSE [by |-> i, since |-> IF j \in DOMAIN user THEN "since" ELSE "nobody"]]
    /\ UNCHANGED <<stored, user, author, caller, job>>

----------------------------------------------------------------------------
(* rekey_identities *)

Remap(i) == IF i \in {Old(p) : p \in OldPairs} THEN New(i[1]) ELSE i

RemapPair(pair) == {Remap(i) : i \in pair}

\* Plausible bug: a row that is there already stays.
PlaceholderWins == [i \in {Remap(j) : j \in DOMAIN user} |->
                       IF i \in DOMAIN user THEN user[i]
                       ELSE user[CHOOSE j \in DOMAIN user : Remap(j) = i]]

\* The old row wins over a placeholder.
UserMoved == LET moved == {i \in DOMAIN user : Remap(i) # i}
             IN [i \in {Remap(j) : j \in DOMAIN user} |->
                    IF \E j \in moved : Remap(j) = i
                    THEN user[CHOOSE j \in moved : Remap(j) = i]
                    ELSE user[i]]

MovedPairs == {pair \in DOMAIN friends : RemapPair(pair) # pair}

RemapRow(row) == [row EXCEPT !.by = Remap(row.by)]

\* A moved row replaces what is under its new key; of two that meet there, the one
\* the iteration comes to last.
FriendsMoved ==
    LET keys == {RemapPair(pair) : pair \in MovedPairs}
        Last == {f \in [keys -> MovedPairs] : \A pair \in keys : RemapPair(f[pair]) = pair}
    IN {[pair \in (DOMAIN friends \ MovedPairs) \cup keys |->
            IF pair \in keys THEN RemapRow(friends[last[pair]]) ELSE friends[pair]] : last \in Last}

\* require_system_admin
MayRekey ==
    \/ caller = DatabaseOwner
    \/ caller \in DOMAIN user /\ user[caller] = "data"

----------------------------------------------------------------------------
(* MigrateLegacyIdentitiesAsync *)

\* A start finds accounts to advance; without rows to move it goes on at once.
Starts ==
    /\ job = "down"
    /\ \E p \in People : stored[p] # "new"
    /\ job' = IF OldPairs = {} THEN "moved" ELSE "asked"
    /\ UNCHANGED <<stored, user, friends, author, caller>>

Rekeys ==
    /\ job = "asked"
    /\ MayRekey
    /\ user' = UserMoved
    /\ friends' \in FriendsMoved
    /\ author' = [p \in People |-> Remap(author[p])]
    /\ job' \in {"moved", "down"}   \* "down": the answer is lost
    /\ UNCHANGED <<stored, caller>>

\* Refused, unreachable, no token, or a crash: the next start tries again.
GivesUp ==
    /\ job # "down"
    /\ job' = "down"
    /\ UNCHANGED <<stored, user, friends, author, caller>>

Saves ==
    /\ job = "moved"
    /\ stored' = [p \in People |-> "new"]
    /\ job' = "down"
    /\ UNCHANGED <<user, friends, author, caller>>

----------------------------------------------------------------------------

RekeyNext ==
    \/ \E p \in People : Register(p)
    \/ \E i, j \in Identities : Befriend(i, j)
    \/ Starts
    \/ Rekeys
    \/ GivesUp
    \/ Saves

RekeySpec == RekeyInit /\ [][RekeyNext]_rkVars

----------------------------------------------------------------------------
(* Properties *)

\* Core-api's copy and the database's rows do not diverge (DbInitializer.cs): what
\* core-api calls by the new identity has no row left under the old one, in no
\* table, whatever failed on the way; but for requests sent to the old identity
\* when nobody had it any more.
AdvancedIsMoved ==
    \A p \in People \ Unknown : stored[p] = "new" =>
        /\ Old(p) \notin DOMAIN user
        /\ author[p] = New(p)
        /\ \A pair \in DOMAIN friends : Old(p) \in pair => friends[pair].since = "nobody"

\* A person's own row is under one of the two identities, never lost to a
\* placeholder and never there twice, however often the call is repeated.
DataIsKept ==
    \A p \in People \ Unknown :
        \E i \in {Old(p), New(p)} \cap DOMAIN user :
            /\ user[i] = "data"
            /\ \A j \in {Old(p), New(p)} \cap DOMAIN user : user[j] = "data" => j = i

Person(i) == i[1]

\* Two friends stay friends: under whichever identities the row is kept, it is
\* replaced by another row of the same two people at most; and who asked for the
\* friendship is one of the two it is between.
FriendsStayFriends ==
    /\ \A p, q \in People \ Unknown :
        p # q => \E pair \in DOMAIN friends : {Person(i) : i \in pair} = {p, q}
    /\ \A pair \in DOMAIN friends : friends[pair].by \in pair
=============================================================================
