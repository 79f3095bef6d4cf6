--------------------------- MODULE MessageSending ---------------------------
(***************************************************************************)
(* Sending a message with files, from the composer of one conversation:    *)
(* the draft and its sends (composerStore.ts, submitComposer.ts), the      *)
(* upload of each file to object storage under a reservation of core-api   *)
(* (uploads.ts, UploadEndpoints.cs), and the reducer call at the end       *)
(* (connection.ts).  A send outlives the view, the socket and the sign-in  *)
(* it began under; requests and answers are lost; a failed send is tried   *)
(* again with what it has achieved; the page is reloaded.                  *)
(*                                                                         *)
(* An account's quotas are the subject of UploadQuota, the life of a       *)
(* stored object after confirmation that of AttachmentLifecycle.           *)
(***************************************************************************)
EXTENDS Naturals, FiniteSets

CONSTANTS Accounts, Nobody,
          Files,        \* File objects; choosing a file again makes a new one
          Large,        \* those above the part size
          Parts,        \* the part numbers of a large file
          MaxParallel,  \* MAX_PARALLEL_PARTS
          Uploads,      \* upload ids
          None,
          MaxTasks,     \* bound: sends begun
          MaxLogins     \* bound: sign-ins

\* Files with the attachments they have got, and what is sent with them
FileMaps == UNION {[S -> Uploads \cup {None}] : S \in SUBSET Files}
Messages == [text : BOOLEAN, files : FileMaps]

SendingAssumption ==
    /\ Large \subseteq Files /\ Parts \subseteq Nat
    /\ Nobody \notin Accounts /\ None \notin Uploads \cup Messages
    /\ MaxParallel \in Nat \ {0} /\ MaxTasks \in Nat /\ MaxLogins \in Nat

VARIABLES
    draft,    \* the conversation's ComposerDraft
    next,     \* nextOperation
    task,     \* [1..MaxTasks -> the running submitComposer of that operation]
    active,   \* activeUploads: from files to [upload, uploaded, expired]
    upload,   \* core-api's and MinIO's view of an upload id
    who,      \* the account of the stored tokens
    logins,   \* sign-ins so far
    socket    \* connection?.isActive; the socket is that of who

sVars == <<draft, next, task, active, upload, who, logins, socket>>

Tasks == 1..MaxTasks
Bare == [f \in {} |-> None]
EmptyDraft == [text |-> FALSE, files |-> Bare, outgoing |-> None, submitting |-> FALSE, operation |-> 0]
NoUpload == [state |-> "none", owner |-> Nobody, file |-> None, parts |-> {}, object |-> FALSE, expired |-> FALSE]
Idle == [step |-> "idle", files |-> Bare, file |-> None, upload |-> None,
         left |-> {}, flying |-> {}, limit |-> 1, failed |-> FALSE,
         who |-> Nobody, waited |-> FALSE, call |-> "none", by |-> Nobody]

Init ==
    /\ draft = EmptyDraft /\ next = 0
    /\ task = [op \in Tasks |-> Idle]
    /\ active = Bare
    /\ upload = [u \in Uploads |-> NoUpload]
    /\ who = Nobody /\ logins = 0 /\ socket = "down"

Running(op) == task[op].step \notin {"idle", "done"}
Current(op) == draft.operation = op
Without(m, f) == [g \in DOMAIN m \ {f} |-> m[g]]
With(m, f, v) == [g \in DOMAIN m \cup {f} |-> IF g = f THEN v ELSE m[g]]

\* Plausible bug: a file whose parts are all there counts as attached.
AttachedOrUploaded(files) ==
    \A f \in DOMAIN files : files[f] # None \/ (f \in DOMAIN active /\ active[f].uploaded)

Attached(files) == \A f \in DOMAIN files : files[f] # None

\* The attempt throws: the catch and the finally of submitComposer.  An empty
\* composer gets its message back, else the message waits beside the new text.
FailedDraft(op) ==
    IF ~Current(op) THEN draft
    ELSE IF ~draft.text /\ DOMAIN draft.files = {}
    THEN [draft EXCEPT !.text = draft.outgoing.text, !.files = draft.outgoing.files,
                       !.outgoing = None, !.submitting = FALSE]
    ELSE [draft EXCEPT !.submitting = FALSE]
Fail(op) ==
    /\ draft' = FailedDraft(op)
    /\ task' = [task EXCEPT ![op] = [@ EXCEPT !.step = "done"]]

\* The reservation is given up, with what is stored of the object.
Gone(u) == [upload EXCEPT ![u] = [@ EXCEPT !.state = "gone", !.object = FALSE, !.parts = {}]]
\* /uploads/abort of u, which may be refused or lost
Aborted(u) ==
    \/ upload' = upload
    \/ /\ upload[u].state = "pending" /\ upload[u].owner = who
       /\ upload' = Gone(u)
Cancelled(f) == IF f \in DOMAIN active THEN Aborted(active[f].upload) ELSE upload' = upload

----------------------------------------------------------------------------
(* The composer *)

Type ==
    /\ who # Nobody
    /\ draft' = [draft EXCEPT !.text = ~@]
    /\ UNCHANGED <<next, task, active, upload, who, logins, socket>>

AddFile(f) ==
    /\ who # Nobody
    /\ f \notin DOMAIN draft.files \cup DOMAIN active
    /\ draft.outgoing # None => f \notin DOMAIN draft.outgoing.files
    /\ \A op \in Tasks : f \notin DOMAIN task[op].files
    /\ draft' = [draft EXCEPT !.files = With(@, f, None)]
    /\ UNCHANGED <<next, task, active, upload, who, logins, socket>>

RemoveFile(f) ==
    /\ f \in DOMAIN draft.files
    /\ Cancelled(f)
    /\ active' = Without(active, f)
    /\ draft' = [draft EXCEPT !.files = Without(@, f)]
    /\ UNCHANGED <<next, task, who, logins, socket>>

\* "Discard failed message", offered once the attempt has failed
Discard ==
    /\ ~draft.submitting /\ draft.outgoing # None
    /\ draft' = [draft EXCEPT !.outgoing = None]
    /\ UNCHANGED <<next, task, active, upload, who, logins, socket>>

Begin(content, left) ==
    /\ ~draft.submitting /\ next < MaxTasks
    /\ content.text \/ DOMAIN content.files # {}
    /\ next' = next + 1
    /\ draft' = [text |-> left.text, files |-> left.files, outgoing |-> content,
                 submitting |-> TRUE, operation |-> next + 1]
    /\ task' = [task EXCEPT ![next + 1] =
            [Idle EXCEPT !.step = "loop", !.files = content.files, !.who = who]]
    /\ UNCHANGED <<active, upload, who, logins, socket>>
Submit ==
    /\ draft.outgoing = None
    /\ Begin([text |-> draft.text, files |-> draft.files], EmptyDraft)
Retry ==
    /\ draft.outgoing # None
    /\ Begin(draft.outgoing, draft)

----------------------------------------------------------------------------
(* The upload of a file *)

\* A send whose draft is gone, by a sign-out, stops between two files.
Abandon(op) ==
    /\ task[op].step = "loop" /\ ~Current(op)
    /\ task' = [task EXCEPT ![op] = [@ EXCEPT !.step = "done"]]
    /\ UNCHANGED <<draft, next, active, upload, who, logins, socket>>

Usable(f) == f \in DOMAIN active /\ ~active[f].expired
TakeFile(op, f) ==
    /\ task[op].step = "loop" /\ Current(op)
    /\ f \in DOMAIN task[op].files /\ task[op].files[f] = None
    /\ task' = [task EXCEPT ![op] = [@ EXCEPT !.file = f,
            !.upload = IF Usable(f) THEN active[f].upload ELSE None,
            !.step = IF ~Usable(f) THEN "request" ELSE IF active[f].uploaded THEN "confirm" ELSE "status"]]
    /\ IF Usable(f) THEN UNCHANGED <<active, upload>>
       ELSE Cancelled(f) /\ active' = Without(active, f)
    /\ UNCHANGED <<draft, next, who, logins, socket>>

\* RequestUpload: the reservation is the account's whose token the client holds now.
Reserve(op, u, answered) ==
    LET f == task[op].file IN
    /\ task[op].step = "request" /\ who # Nobody /\ upload[u].state = "none"
    /\ upload' = [upload EXCEPT ![u] = [NoUpload EXCEPT !.state = "pending", !.owner = who, !.file = f]]
    /\ IF answered
       THEN /\ task' = [task EXCEPT ![op] = [@ EXCEPT !.upload = u,
                    !.step = IF f \in Large THEN "status" ELSE "put"]]
            /\ active' = IF f \in Large
                         THEN With(active, f, [upload |-> u, uploaded |-> FALSE, expired |-> FALSE])
                         ELSE active
            /\ UNCHANGED draft
       ELSE Fail(op) /\ UNCHANGED active
    /\ UNCHANGED <<next, who, logins, socket>>

\* A request that is refused, or lost before it is executed
Refused(op) ==
    /\ task[op].step \in {"request", "status", "confirm", "connecting"}
    /\ Fail(op)
    /\ UNCHANGED <<next, active, upload, who, logins, socket>>

\* The one PUT of a small file; when it fails, however far it got, its
\* reservation is given back at once - unless that request fails as well.
Put(op) ==
    /\ task[op].step = "put"
    /\ upload' = [upload EXCEPT ![task[op].upload] = [@ EXCEPT !.object = TRUE]]
    /\ task' = [task EXCEPT ![op] = [@ EXCEPT !.step = "confirm"]]
    /\ UNCHANGED <<draft, next, active, who, logins, socket>>
PutFails(op, landed) ==
    LET u == task[op].upload IN
    /\ task[op].step = "put"
    /\ \/ upload' = IF landed THEN [upload EXCEPT ![u] = [@ EXCEPT !.object = TRUE]] ELSE upload
       \/ Aborted(u)
    /\ Fail(op)
    /\ UNCHANGED <<next, active, who, logins, socket>>

\* Status: the parts MinIO holds already
Resume(op) ==
    LET u == task[op].upload IN
    /\ task[op].step = "status"
    /\ upload[u].state = "pending" /\ upload[u].owner = who /\ ~upload[u].expired
    /\ task' = [task EXCEPT ![op] = [@ EXCEPT !.step = "parts", !.limit = 1, !.failed = FALSE,
            !.left = IF upload[u].object THEN {} ELSE Parts \ upload[u].parts]]
    /\ UNCHANGED <<draft, next, active, upload, who, logins, socket>>

StartPart(op, p) ==
    /\ task[op].step = "parts" /\ ~task[op].failed
    /\ p \in task[op].left /\ \A q \in task[op].left : p <= q
    /\ Cardinality(task[op].flying) < task[op].limit
    /\ task' = [task EXCEPT ![op] = [@ EXCEPT !.left = task[op].left \ {p},
                                              !.flying = task[op].flying \cup {p}]]
    /\ UNCHANGED <<draft, next, active, upload, who, logins, socket>>

\* The part is written, while its multipart upload is there to write to.
Writable(u) == upload[u].state = "pending" /\ ~upload[u].object
Written(u, p) == [upload EXCEPT ![u] = [@ EXCEPT !.parts = upload[u].parts \cup {p}]]
PartStored(op, p, fast) ==
    LET u == task[op].upload
        limit == task[op].limit IN
    /\ task[op].step = "parts" /\ p \in task[op].flying
    /\ Writable(u) /\ upload' = Written(u, p)
    /\ task' = [task EXCEPT ![op] = [@ EXCEPT !.flying = task[op].flying \ {p},
            !.limit = IF fast THEN IF limit < MaxParallel THEN limit + 1 ELSE MaxParallel
                              ELSE IF limit > 1 THEN limit - 1 ELSE 1]]
    /\ UNCHANGED <<draft, next, active, who, logins, socket>>

\* An attempt fails, perhaps only its answer.  It is made again twice at most,
\* unless another part has failed or the storage is full.
PartFails(op, p, again, landed) ==
    LET u == task[op].upload IN
    /\ task[op].step = "parts" /\ p \in task[op].flying
    /\ IF landed THEN Writable(u) /\ upload' = Written(u, p) ELSE upload' = upload
    /\ IF again
       THEN ~task[op].failed /\ task' = [task EXCEPT ![op] = [@ EXCEPT !.limit = 1]]
       ELSE task' = [task EXCEPT ![op] = [@ EXCEPT !.limit = 1, !.failed = TRUE,
                                                   !.flying = task[op].flying \ {p}]]
    /\ UNCHANGED <<draft, next, active, who, logins, socket>>

\* The upload settles only when no part of it is in flight any more.
PoolSettles(op) ==
    LET f == task[op].file IN
    /\ task[op].step = "parts" /\ task[op].flying = {}
    /\ \/ /\ task[op].failed
          /\ Fail(op) /\ UNCHANGED active
       \/ /\ ~task[op].failed /\ task[op].left = {}
          /\ task' = [task EXCEPT ![op] = [@ EXCEPT !.step = "confirm"]]
          /\ active' = IF f \in DOMAIN active /\ active[f].upload = task[op].upload
                       THEN [active EXCEPT ![f] = [@ EXCEPT !.uploaded = TRUE]] ELSE active
          /\ UNCHANGED draft
    /\ UNCHANGED <<next, upload, who, logins, socket>>

----------------------------------------------------------------------------
(* Confirmation *)

\* What a confirmed answer does: the attachment is kept with the message.
Keep(op) ==
    LET f == task[op].file
        files == [task[op].files EXCEPT ![f] = task[op].upload] IN
    /\ task' = [task EXCEPT ![op] = [@ EXCEPT !.files = files, !.step = "loop"]]
    /\ active' = Without(active, f)
    /\ draft' = IF Current(op) THEN [draft EXCEPT !.outgoing.files = files] ELSE draft

Whole(u) ==
    \/ upload[u].object
    \/ upload[u].file \in Large /\ upload[u].parts = Parts
Confirm(op, answered) ==
    LET u == task[op].upload IN
    /\ task[op].step = "confirm"
    /\ upload[u].state = "pending" /\ upload[u].owner = who /\ ~upload[u].expired
    /\ Whole(u)
    /\ upload' = [upload EXCEPT ![u] = [@ EXCEPT !.state = "confirmed", !.object = TRUE]]
    /\ IF answered THEN Keep(op) ELSE Fail(op) /\ UNCHANGED active
    /\ UNCHANGED <<next, who, logins, socket>>

\* The registry knows it already: an earlier confirmation's answer was lost.
ConfirmAgain(op) ==
    LET u == task[op].upload IN
    /\ task[op].step = "confirm"
    /\ upload[u].state = "confirmed" /\ upload[u].owner = who
    /\ Keep(op)
    /\ UNCHANGED <<next, upload, who, logins, socket>>

\* The object is completed and PostgreSQL's commit fails.
ConfirmFails(op) ==
    LET u == task[op].upload IN
    /\ task[op].step = "confirm"
    /\ upload[u].state = "pending" /\ upload[u].owner = who /\ ~upload[u].expired
    /\ Whole(u)
    /\ upload' = [upload EXCEPT ![u] = [@ EXCEPT !.object = TRUE]]
    /\ Fail(op)
    /\ UNCHANGED <<next, active, who, logins, socket>>

ConfirmLate(op) ==
    LET u == task[op].upload IN
    /\ task[op].step = "confirm"
    /\ upload[u].state = "pending" /\ upload[u].owner = who /\ upload[u].expired
    /\ upload' = Gone(u)
    /\ Fail(op)
    /\ UNCHANGED <<next, active, who, logins, socket>>

----------------------------------------------------------------------------
(* The reducer call *)

\* onSubmit, once every file has its attachment: the call is made on the
\* socket there is, in the name of that socket's account.
Issue(op) == task' = [task EXCEPT ![op] = [@ EXCEPT !.step = "calling", !.call = "issued", !.by = who]]
Send(op) ==
    /\ task[op].step = "loop" /\ Current(op) /\ Attached(task[op].files)
    /\ IF socket = "up" THEN Issue(op)
       ELSE task' = [task EXCEPT ![op] = [@ EXCEPT !.step = "connecting", !.waited = TRUE]]
    /\ UNCHANGED <<draft, next, active, upload, who, logins, socket>>

\* connect() has returned: with a socket of its own or, when it was abandoned
\* meanwhile, with whichever there is.
SendOnReconnect(op) ==
    /\ task[op].step = "connecting" /\ socket = "up"
    /\ Issue(op)
    /\ UNCHANGED <<draft, next, active, upload, who, logins, socket>>

\* send_message or send_direct_message, executed at any time after the call
Execute(op) ==
    /\ task[op].call = "issued"
    /\ task' = [task EXCEPT ![op] = [@ EXCEPT !.call = IF task[op].by # Nobody THEN "executed" ELSE "refused"]]
    /\ UNCHANGED <<draft, next, active, upload, who, logins, socket>>
Deny(op) ==
    /\ task[op].call = "issued"
    /\ task' = [task EXCEPT ![op] = [@ EXCEPT !.call = "refused"]]
    /\ UNCHANGED <<draft, next, active, upload, who, logins, socket>>

Answered(op) ==
    /\ task[op].step = "calling" /\ task[op].call = "executed"
    /\ task' = [task EXCEPT ![op] = [@ EXCEPT !.step = "done"]]
    /\ draft' = IF Current(op) THEN [draft EXCEPT !.outgoing = None, !.submitting = FALSE] ELSE draft
    /\ UNCHANGED <<next, active, upload, who, logins, socket>>

\* refused, timed out after 15 s, or the socket is lost: executed or not
CallFails(op) ==
    /\ task[op].step = "calling"
    /\ Fail(op)
    /\ UNCHANGED <<next, active, upload, who, logins, socket>>

----------------------------------------------------------------------------
(* Sessions, time, and the sweeper *)

SignIn(a) ==
    /\ who = Nobody /\ logins < MaxLogins
    /\ who' = a /\ logins' = logins + 1 /\ socket' = "up"
    /\ UNCHANGED <<draft, next, task, active, upload>>

\* Plausible bug: the drafts outlive the session.
SignOutKeepsDrafts ==
    /\ who # Nobody
    /\ who' = Nobody /\ socket' = "down"
    /\ UNCHANGED <<draft, next, task, active, upload, logins>>

SignOut ==
    /\ who # Nobody
    /\ who' = Nobody /\ socket' = "down" /\ draft' = EmptyDraft
    /\ UNCHANGED <<next, task, active, upload, logins>>

SocketChanges ==
    /\ socket' = IF socket = "up" THEN "down" ELSE "up"
    /\ UNCHANGED <<draft, next, task, active, upload, who, logins>>

\* The page is loaded again: its memory is lost, the stored tokens are not.
Reload ==
    /\ task' = [op \in Tasks |-> IF Running(op) THEN [task[op] EXCEPT !.step = "done", !.flying = {}] ELSE task[op]]
    /\ draft' = EmptyDraft /\ active' = Bare /\ socket' = "down"
    /\ UNCHANGED <<next, upload, who, logins>>

SessionEnds(u) ==
    /\ upload[u].state = "pending" /\ ~upload[u].expired
    /\ upload' = [upload EXCEPT ![u] = [@ EXCEPT !.expired = TRUE]]
    /\ UNCHANGED <<draft, next, task, active, who, logins, socket>>
ClientExpires(f) ==
    /\ f \in DOMAIN active /\ ~active[f].expired
    /\ active' = [active EXCEPT ![f] = [@ EXCEPT !.expired = TRUE]]
    /\ UNCHANGED <<draft, next, task, upload, who, logins, socket>>
Sweep(u) ==
    /\ upload[u].state = "pending" /\ upload[u].expired
    /\ upload' = Gone(u)
    /\ UNCHANGED <<draft, next, task, active, who, logins, socket>>

----------------------------------------------------------------------------

Compose ==
    \/ Type \/ Discard \/ Submit \/ Retry
    \/ \E f \in Files : AddFile(f) \/ RemoveFile(f)
UploadStep(op) ==
    \/ Abandon(op) \/ Refused(op)
    \/ \E f \in Files : TakeFile(op, f)
    \/ \E u \in Uploads, answered \in BOOLEAN : Reserve(op, u, answered)
    \/ Put(op) \/ \E landed \in BOOLEAN : PutFails(op, landed)
PartStep(op) ==
    \/ Resume(op) \/ PoolSettles(op)
    \/ \E p \in Parts :
          \/ StartPart(op, p)
          \/ \E fast \in BOOLEAN : PartStored(op, p, fast)
          \/ \E again, landed \in BOOLEAN : PartFails(op, p, again, landed)
ConfirmStep(op) ==
    \/ \E answered \in BOOLEAN : Confirm(op, answered)
    \/ ConfirmAgain(op) \/ ConfirmFails(op) \/ ConfirmLate(op)
CallStep(op) ==
    \/ Send(op) \/ SendOnReconnect(op)
    \/ Execute(op) \/ Deny(op) \/ Answered(op) \/ CallFails(op)
Environment ==
    \/ SignOut \/ SocketChanges \/ Reload
    \/ \E a \in Accounts : SignIn(a)
    \/ \E u \in Uploads : SessionEnds(u) \/ Sweep(u)
    \/ \E f \in Files : ClientExpires(f)

Next ==
    \/ Compose \/ Environment
    \/ \E op \in Tasks : UploadStep(op) \/ PartStep(op) \/ ConfirmStep(op) \/ CallStep(op)
Spec == Init /\ [][Next]_sVars

----------------------------------------------------------------------------

\* Every file of a message that goes out is in the registry, and whole there:
\* after any failures, retries and reloads, and sessions that ended meanwhile.
SentIsStored ==
    \A op \in Tasks : task[op].call # "none" =>
        \A f \in DOMAIN task[op].files :
            /\ task[op].files[f] # None
            /\ upload[task[op].files[f]].state = "confirmed"
            /\ f \in Large => upload[task[op].files[f]].parts = Parts

\* A message goes out in the name of the account that wrote it, with files that
\* account uploaded, unless it had to wait for a connection: a sign-out ends
\* every send but that one.
SentByItsWriter ==
    \A op \in Tasks : task[op].call # "none" /\ ~task[op].waited =>
        /\ task[op].by = task[op].who
        /\ \A f \in DOMAIN task[op].files : upload[task[op].files[f]].owner = task[op].by

\* Two sends never write the parts of one upload, not even when one of them is
\* left over from a failed attempt or an earlier sign-in.
Writing(op) == task[op].step = "parts" \/ task[op].flying # {}
OneWriterPerUpload ==
    \A o1, o2 \in Tasks :
        o1 # o2 /\ Writing(o1) /\ Writing(o2) => task[o1].upload # task[o2].upload
=============================================================================
