--------------------------- MODULE AttachmentStore ---------------------------
(***************************************************************************)
(* What attachment storage promises to the people who use the chat,        *)
(* whatever registries, fences and collectors stand behind it: content may *)
(* point at what is available, and nothing that content points at stops    *)
(* being available.                                                        *)
(***************************************************************************)
CONSTANTS Owners, Objects

VARIABLES
    available,  \* SUBSET Objects: can be fetched, and can be attached
    shown       \* [Owners -> SUBSET Objects]: what each row's content points at

storeVars == <<available, shown>>

OnShow == UNION {shown[o] : o \in Owners}

Init ==
    /\ available \in SUBSET Objects
    /\ shown \in [Owners -> SUBSET available]

\* Uploads become available.
Store(ks) ==
    /\ available' = available \cup ks
    /\ UNCHANGED shown

\* An owner's content is written: only available objects can be put on show.
Show(o, ks) ==
    /\ ks \subseteq available
    /\ shown' = [shown EXCEPT ![o] = ks]
    /\ UNCHANGED available

\* Owners are deleted.
Hide(os) ==
    /\ shown' = [o \in Owners |-> IF o \in os THEN {} ELSE shown[o]]
    /\ UNCHANGED available

\* Objects that nothing shows are given up.
Retire(ks) ==
    /\ ks \cap OnShow = {}
    /\ available' = available \ ks
    /\ UNCHANGED shown

Next ==
    \/ \E ks \in SUBSET Objects : Store(ks) \/ Retire(ks)
    \/ \E o \in Owners, ks \in SUBSET Objects : Show(o, ks)
    \/ \E os \in SUBSET Owners : Hide(os)

Spec == Init /\ [][Next]_storeVars

=============================================================================
