----------------------------- MODULE MCConversation -----------------------------
(***************************************************************************)
(* Writing to a conversation and paging through it.  The composer and the  *)
(* message stores share no state, so a behaviour exercises one of them and *)
(* leaves the other as it starts.  Writing: one conversation, a large file *)
(* or a small one, two accounts.  Reading: a window of one and pages of    *)
(* two over a history of six.                                              *)
(***************************************************************************)
EXTENDS MessageSending, MessageHistory, TLC

MCSymmetry == Permutations(Accounts) \cup Permutations(Uploads)

\* The files of the draft, of what it sends and of every send
Chosen ==
  DOMAIN draft.files \cup UNION {DOMAIN task[op].files : op \in Tasks}
    \cup IF draft.outgoing = None THEN {} ELSE DOMAIN draft.outgoing.files

\* Bound: a draft holds a text or a file, which is the one file there is at a
\* time, and either two messages share a millisecond, or two are changed.
Few ==
  /\ ~draft.text \/ DOMAIN draft.files = {}
  /\ Cardinality(Chosen) <= 1
  /\ Shared = {} \/ Changed = {}

VARIABLE part  \* the one that is exercised

ConversationInit ==
  /\ part \in {"writing", "reading"}
  /\ Init /\ HistoryInit
  /\ part = "writing" => ~direct

ConversationNext ==
  /\ UNCHANGED part
  /\ \/ part = "writing" /\ Next /\ UNCHANGED hVars
     \/ part = "reading" /\ HistoryNext /\ UNCHANGED sVars

ConversationSpec == ConversationInit /\ [][ConversationNext]_<<part, sVars, hVars>>
=============================================================================
