------------------------- MODULE ConversationProofs -------------------------
(***************************************************************************)
(* What a sent message carries and in whose name, for any number of files, *)
(* parts, accounts, attempts and sign-ins; and that paging through a       *)
(* conversation leaves no hole, for any window and page size.              *)
(*                                                                         *)
(* The invariant of sending has three parts.  Of the composer: the files   *)
(* of the draft, of its outgoing message and of the sends under way are    *)
(* disjoint, and the send that is current is the outgoing message's and    *)
(* the account's that is signed in.  Of the uploads: an upload id stands   *)
(* for one file, in every send and in activeUploads, and an object is      *)
(* completed from all parts.  Of the calls: what has been called for has   *)
(* all its attachments.                                                    *)
(*                                                                         *)
(* That of paging is on the order in which messages lie: the pages below   *)
(* the cache and the window, and the page asked for below all of them.     *)
(***************************************************************************)
EXTENDS MessageSending, MessageHistory, FiniteSetTheorems, WellFoundedInduction, TLAPS

People == Accounts \cup {Nobody}
Steps == {"idle", "loop", "request", "put", "status", "parts", "confirm", "connecting", "calling", "done"}
TaskType == [step : Steps, files : FileMaps, file : Files \cup {None}, upload : Uploads \cup {None},
             left : SUBSET Parts, flying : SUBSET Parts, limit : Nat, failed : BOOLEAN, who : People, waited : BOOLEAN,
             call : {"none", "issued", "executed", "refused"}, by : People]
UploadType == [state : {"none", "pending", "confirmed", "gone"}, owner : People, file : Files \cup {None},
               parts : SUBSET Parts, object : BOOLEAN, expired : BOOLEAN]
DraftType == [text : BOOLEAN, files : FileMaps, outgoing : Messages \cup {None},
              submitting : BOOLEAN, operation : Nat]
ActiveType == [upload : Uploads, uploaded : BOOLEAN, expired : BOOLEAN]

UploadTypeOK == upload \in [Uploads -> UploadType]
ActiveTypeOK == DOMAIN active \subseteq Files /\ \A f \in DOMAIN active : active[f] \in ActiveType
SendTypeOK ==
    /\ draft \in DraftType /\ next \in Nat /\ who \in People
    /\ task \in [Tasks -> TaskType]
    /\ UploadTypeOK /\ ActiveTypeOK

Disjoint(a, b) == \A f \in DOMAIN a : f \notin DOMAIN b

\* The attachments in m are confirmed, of their files, and of account w.
Ours(m, up, w) == \A f \in DOMAIN m : m[f] # None =>
    up[m[f]].state = "confirmed" /\ up[m[f]].file = f /\ up[m[f]].owner = w

Numbered ==
    /\ draft.operation <= next
    /\ \A op \in Tasks : op > next => task[op] = Idle
CurrentIsOutgoing ==
    \A op \in Tasks : Running(op) /\ Current(op) =>
        /\ draft.submitting /\ draft.outgoing # None
        /\ draft.outgoing.files = task[op].files
        /\ who = task[op].who
FilesApart ==
    /\ draft.outgoing # None => Disjoint(draft.outgoing.files, draft.files)
    /\ \A op \in Tasks : Running(op) =>
          /\ Disjoint(task[op].files, draft.files)
          /\ draft.outgoing # None /\ ~Current(op) => Disjoint(task[op].files, draft.outgoing.files)
          /\ \A o \in Tasks : Running(o) /\ o # op => Disjoint(task[op].files, task[o].files)
DraftIsOurs ==
    /\ Ours(draft.files, upload, who)
    /\ draft.outgoing # None => Ours(draft.outgoing.files, upload, who)
    /\ who = Nobody => ~draft.text /\ DOMAIN draft.files = {} /\ draft.outgoing = None
DraftInv == Numbered /\ CurrentIsOutgoing /\ FilesApart /\ DraftIsOurs

Completed == \A u \in Uploads :
    /\ upload[u].state = "confirmed" => upload[u].object
    /\ upload[u].object /\ upload[u].file \in Large => upload[u].parts = Parts
ActiveIsOf == \A f \in DOMAIN active :
    upload[active[f].upload].state # "none" /\ upload[active[f].upload].file = f

\* What holds of one send t, with up for the uploads
UploadOk(t, up) ==
    /\ t.step \in {"request", "put", "status", "parts", "confirm"} => t.file \in DOMAIN t.files
    /\ t.step \in {"put", "status", "parts", "confirm"} =>
          t.upload \in Uploads /\ up[t.upload].state # "none" /\ up[t.upload].file = t.file
    /\ t.step = "put" => t.file \notin Large
    /\ t.flying # {} => t.step = "parts"
KeptOk(t, up) == \A f \in DOMAIN t.files : t.files[f] # None =>
    up[t.files[f]].state = "confirmed" /\ up[t.files[f]].file = f
CallOk(t, up) ==
    /\ KeptOk(t, up)
    /\ t.step = "connecting" => t.waited /\ Attached(t.files)
    /\ t.call # "none" => t.step \in {"calling", "done"} /\ Attached(t.files)
    /\ t.call # "none" /\ ~t.waited =>
          t.by = t.who /\ \A f \in DOMAIN t.files : up[t.files[f]].owner = t.by
TasksInv == \A op \in Tasks : UploadOk(task[op], upload) /\ CallOk(task[op], upload)

SendInv == SendTypeOK /\ DraftInv /\ Completed /\ ActiveIsOf /\ TasksInv

\* What no step undoes: an id once reserved stays with its file and account,
\* and what is confirmed stays confirmed.
UploadsStay == \A u \in Uploads :
    /\ upload[u].state # "none" =>
          /\ upload'[u].state # "none"
          /\ upload'[u].owner = upload[u].owner /\ upload'[u].file = upload[u].file
    /\ upload[u].state = "confirmed" => upload'[u].state = "confirmed"
UploadsGood == UploadTypeOK' /\ UploadsStay /\ Completed'
ActiveGood == ActiveTypeOK' /\ ActiveIsOf'

----------------------------------------------------------------------------
(* Maps from files *)

LEMMA FileMapIs ==
    \A m : m \in FileMaps <=> DOMAIN m \subseteq Files /\ m \in [DOMAIN m -> Uploads \cup {None}]
BY DEF FileMaps

LEMMA BareIs == DOMAIN Bare = {} /\ Bare \in FileMaps
<1>1. DOMAIN Bare = {} /\ Bare \in [{} -> Uploads \cup {None}]
  BY DEF Bare
<1>2. QED BY <1>1, FileMapIs

LEMMA WithoutIs ==
    ASSUME NEW m, NEW f
    PROVE  /\ DOMAIN Without(m, f) = DOMAIN m \ {f}
           /\ \A g \in DOMAIN m \ {f} : Without(m, f)[g] = m[g]
BY DEF Without

LEMMA MapsStayMaps ==
    ASSUME NEW m \in FileMaps, NEW f \in Files
    PROVE  /\ With(m, f, None) \in FileMaps
           /\ Without(m, f) \in FileMaps
           /\ \A u \in Uploads : [m EXCEPT ![f] = u] \in FileMaps
<1>1. DOMAIN m \subseteq Files /\ m \in [DOMAIN m -> Uploads \cup {None}]
  BY FileMapIs
<1>2. With(m, f, None) \in [DOMAIN m \cup {f} -> Uploads \cup {None}]
  BY <1>1 DEF With
<1>3. Without(m, f) \in [DOMAIN m \ {f} -> Uploads \cup {None}]
  BY <1>1 DEF Without
<1>4. \A u \in Uploads : [m EXCEPT ![f] = u] \in [DOMAIN m -> Uploads \cup {None}]
  BY <1>1
<1>5. QED
  BY <1>1, <1>2, <1>3, <1>4, FileMapIs

----------------------------------------------------------------------------
(* The initial states *)

LEMMA IdleIs ==
    /\ Idle \in TaskType /\ Idle.step = "idle" /\ Idle.call = "none" /\ Idle.flying = {}
    /\ DOMAIN Idle.files = {}
BY BareIs DEF Idle, TaskType, People, Steps

LEMMA IdleOk == \A up : UploadOk(Idle, up) /\ CallOk(Idle, up)
BY IdleIs DEF UploadOk, CallOk, KeptOk, Attached

LEMMA InitInv == Init => SendInv
<1> SUFFICES ASSUME Init PROVE SendInv
  OBVIOUS
<1>1. SendTypeOK
  BY IdleIs, BareIs DEF Init, SendTypeOK, UploadTypeOK, ActiveTypeOK, DraftType, EmptyDraft, UploadType,
     NoUpload, People
<1>2. DraftInv
  BY IdleIs, BareIs DEF Init, DraftInv, Numbered, CurrentIsOutgoing, FilesApart, DraftIsOurs, Ours, Running,
     EmptyDraft
<1>3. Completed /\ ActiveIsOf
  BY BareIs DEF Init, Completed, ActiveIsOf, NoUpload
<1>4. TasksInv
  BY IdleOk DEF Init, TasksInv
<1>5. QED BY <1>1, <1>2, <1>3, <1>4 DEF SendInv

----------------------------------------------------------------------------
(* What a change of the uploads keeps *)

LEMMA SameUploads == SendInv /\ upload' = upload => UploadsGood
BY DEF SendInv, SendTypeOK, UploadsGood, UploadTypeOK, UploadsStay, Completed

LEMMA SameActive ==
    ASSUME SendInv, UploadsStay, active' = active PROVE ActiveGood
<1>1. \A f \in DOMAIN active : active[f].upload \in Uploads
  BY DEF SendInv, SendTypeOK, ActiveTypeOK, ActiveType
<1>2. QED BY <1>1 DEF SendInv, SendTypeOK, ActiveGood, ActiveTypeOK, ActiveIsOf, UploadsStay

LEMMA ActiveWithout ==
    ASSUME SendInv, UploadsStay, NEW f, active' = Without(active, f) PROVE ActiveGood
<1>1. /\ DOMAIN active' = DOMAIN active \ {f}
      /\ \A g \in DOMAIN active \ {f} : active'[g] = active[g]
  BY WithoutIs
<1>2. \A g \in DOMAIN active : active[g].upload \in Uploads
  BY DEF SendInv, SendTypeOK, ActiveTypeOK, ActiveType
<1>3. ActiveTypeOK'
  BY <1>1 DEF SendInv, SendTypeOK, ActiveTypeOK
<1>4. ActiveIsOf'
  BY <1>1, <1>2 DEF SendInv, ActiveIsOf, UploadsStay
<1>5. QED BY <1>3, <1>4 DEF ActiveGood

LEMMA ActiveWith ==
    ASSUME SendInv, UploadsStay, NEW f \in Files, NEW v \in ActiveType,
           upload'[v.upload].state # "none", upload'[v.upload].file = f, active' = With(active, f, v)
    PROVE  ActiveGood
<1>1. \A g \in DOMAIN active : active[g].upload \in Uploads
  BY DEF SendInv, SendTypeOK, ActiveTypeOK, ActiveType
<1>2. /\ DOMAIN active' = DOMAIN active \cup {f} /\ active'[f] = v
      /\ \A g \in DOMAIN active : g # f => active'[g] = active[g]
  BY DEF With
<1>3. ActiveTypeOK'
  BY <1>2 DEF SendInv, SendTypeOK, ActiveTypeOK
<1>4. ActiveIsOf'
  BY <1>1, <1>2 DEF SendInv, ActiveIsOf, UploadsStay
<1>5. QED BY <1>3, <1>4 DEF ActiveGood

LEMMA ActiveMarked ==
    ASSUME SendInv, UploadsStay, NEW f \in DOMAIN active, NEW v \in ActiveType,
           v.upload = active[f].upload, active' = [active EXCEPT ![f] = v]
    PROVE  ActiveGood
<1>1. \A g \in DOMAIN active : active[g].upload \in Uploads
  BY DEF SendInv, SendTypeOK, ActiveTypeOK, ActiveType
<1>2. /\ DOMAIN active' = DOMAIN active /\ active'[f] = v
      /\ \A g \in DOMAIN active : g # f => active'[g] = active[g]
  OBVIOUS
<1>3. ActiveTypeOK'
  BY <1>2 DEF SendInv, SendTypeOK, ActiveTypeOK
<1>4. ActiveIsOf'
  BY <1>1, <1>2 DEF SendInv, ActiveIsOf, UploadsStay
<1>5. QED BY <1>3, <1>4 DEF ActiveGood

\* One upload changes, to r.
LEMMA OneUpload ==
    ASSUME SendInv, NEW u \in Uploads, NEW r \in UploadType, upload' = [upload EXCEPT ![u] = r],
           upload[u].state # "none" => r.state # "none" /\ r.owner = upload[u].owner /\ r.file = upload[u].file,
           upload[u].state = "confirmed" => r.state = "confirmed",
           r.state = "confirmed" => r.object,
           r.object /\ r.file \in Large => r.parts = Parts
    PROVE  UploadsGood
<1>1. UploadTypeOK' /\ upload'[u] = r /\ \A v \in Uploads : v # u => upload'[v] = upload[v]
  BY DEF SendInv, SendTypeOK, UploadTypeOK
<1>2. UploadsStay
  BY <1>1 DEF UploadsStay
<1>3. Completed'
  BY <1>1 DEF SendInv, Completed
<1>4. QED BY <1>1, <1>2, <1>3 DEF UploadsGood

LEMMA GoneGood ==
    ASSUME SendInv, NEW u \in Uploads, upload' = Gone(u), upload[u].state = "pending"
    PROVE  UploadsGood
<1> DEFINE r == [upload[u] EXCEPT !.state = "gone", !.object = FALSE, !.parts = {}]
<1>1. upload[u] \in UploadType
  BY DEF SendInv, SendTypeOK, UploadTypeOK
<1>2. /\ r \in UploadType /\ ~r.object
      /\ r.state = "gone" /\ r.owner = upload[u].owner /\ r.file = upload[u].file
  BY <1>1 DEF UploadType
<1>3. upload' = [upload EXCEPT ![u] = r]
  BY DEF Gone
<1> HIDE DEF r
<1>4. QED BY <1>2, <1>3, OneUpload

LEMMA AbortGood ==
    ASSUME SendInv, NEW u \in Uploads, Aborted(u) PROVE UploadsGood
BY GoneGood, SameUploads DEF Aborted

LEMMA CancelGood ==
    ASSUME SendInv, NEW f, Cancelled(f) PROVE UploadsGood
<1>1. CASE f \in DOMAIN active
  <2>1. active[f].upload \in Uploads
    BY <1>1 DEF SendInv, SendTypeOK, ActiveTypeOK, ActiveType
  <2>2. QED BY <1>1, <2>1, AbortGood DEF Cancelled
<1>2. CASE f \notin DOMAIN active
  BY <1>2, SameUploads DEF Cancelled
<1>3. QED BY <1>1, <1>2

\* The object of u is there: it is not a large one's, or all its parts are.
LEMMA ObjectGood ==
    ASSUME SendInv, NEW u \in Uploads, upload' = [upload EXCEPT ![u] = [@ EXCEPT !.object = TRUE]],
           upload[u].file \notin Large \/ upload[u].parts = Parts
    PROVE  UploadsGood
<1> DEFINE r == [upload[u] EXCEPT !.object = TRUE]
<1>1. upload[u] \in UploadType
  BY DEF SendInv, SendTypeOK, UploadTypeOK
<1>2. /\ r \in UploadType /\ r.object /\ r.parts = upload[u].parts
      /\ r.state = upload[u].state /\ r.owner = upload[u].owner /\ r.file = upload[u].file
  BY <1>1 DEF UploadType
<1>3. upload' = [upload EXCEPT ![u] = r]
  OBVIOUS
<1> HIDE DEF r
<1>4. /\ upload[u].state # "none" => r.state # "none" /\ r.owner = upload[u].owner /\ r.file = upload[u].file
      /\ upload[u].state = "confirmed" => r.state = "confirmed"
      /\ r.state = "confirmed" => r.object
      /\ r.object /\ r.file \in Large => r.parts = Parts
  BY <1>2
<1>5. r \in UploadType
  BY <1>2
<1>6. QED BY <1>3, <1>4, <1>5, OneUpload

LEMMA WrittenGood ==
    ASSUME SendInv, NEW u \in Uploads, NEW p \in Parts, Writable(u), upload' = Written(u, p)
    PROVE  UploadsGood
<1> DEFINE ps == upload[u].parts \cup {p}
           r  == [upload[u] EXCEPT !.parts = ps]
<1>1. upload[u] \in UploadType /\ ps \in SUBSET Parts
  BY DEF SendInv, SendTypeOK, UploadTypeOK, UploadType
<1>2. upload' = [upload EXCEPT ![u] = r] /\ upload[u].state = "pending" /\ ~upload[u].object
  BY DEF Written, Writable
<1> HIDE DEF ps
<1>3. /\ r \in UploadType /\ r.object = upload[u].object
      /\ r.state = upload[u].state /\ r.owner = upload[u].owner /\ r.file = upload[u].file
  BY <1>1 DEF UploadType
<1> HIDE DEF r
<1>4. QED BY <1>2, <1>3, OneUpload

\* What holds of a send, and of the files of the composer, survives that.
LEMMA SendsStay ==
    ASSUME SendInv, UploadsStay, NEW t \in TaskType
    PROVE  /\ UploadOk(t, upload) => UploadOk(t, upload')
           /\ CallOk(t, upload) => CallOk(t, upload')
<1>1. UploadOk(t, upload) => UploadOk(t, upload')
  BY DEF UploadOk, UploadsStay
<1>2. \A f \in DOMAIN t.files : t.files[f] \in Uploads \cup {None}
  BY FileMapIs DEF TaskType
<1>3. KeptOk(t, upload) => KeptOk(t, upload')
  BY <1>2 DEF KeptOk, UploadsStay
<1>4. ASSUME CallOk(t, upload), t.call # "none", ~t.waited, NEW f \in DOMAIN t.files
      PROVE  upload'[t.files[f]].owner = t.by
  <2>1. t.files[f] \in Uploads /\ upload[t.files[f]].state = "confirmed" /\ upload[t.files[f]].owner = t.by
    BY <1>2, <1>4 DEF CallOk, KeptOk, Attached
  <2>2. QED BY <2>1 DEF UploadsStay
<1>5. CallOk(t, upload) => CallOk(t, upload')
  BY <1>3, <1>4 DEF CallOk
<1>6. QED BY <1>1, <1>5

LEMMA OursStay ==
    ASSUME SendInv, UploadsStay, NEW m \in FileMaps, NEW w, Ours(m, upload, w)
    PROVE  Ours(m, upload', w)
<1>1. \A f \in DOMAIN m : m[f] \in Uploads \cup {None}
  BY FileMapIs
<1>2. QED BY <1>1 DEF Ours, UploadsStay

LEMMA DraftStays ==
    ASSUME SendInv, UploadsStay, UNCHANGED <<draft, who>>
    PROVE  DraftIsOurs'
<1>1. draft.files \in FileMaps /\ (draft.outgoing # None => draft.outgoing.files \in FileMaps)
  BY DEF SendInv, SendTypeOK, DraftType, Messages
<1>2. Ours(draft.files, upload', who)
  BY <1>1, OursStay DEF SendInv, DraftInv, DraftIsOurs
<1>3. draft.outgoing # None => Ours(draft.outgoing.files, upload', who)
  BY <1>1, OursStay DEF SendInv, DraftInv, DraftIsOurs
<1>4. QED BY <1>2, <1>3 DEF SendInv, DraftInv, DraftIsOurs

----------------------------------------------------------------------------
(* What a step of one send keeps *)

\* The send op becomes r, with its files and its account.
LEMMA TaskStep ==
    ASSUME SendInv, NEW op \in Tasks, NEW r \in TaskType, task' = [task EXCEPT ![op] = r],
           r.files = task[op].files, r.who = task[op].who, task[op] # Idle,
           r.step \notin {"idle", "done"} => Running(op),
           UNCHANGED <<draft, next, who>>, UploadsGood, ActiveGood,
           UploadOk(r, upload'), CallOk(r, upload')
    PROVE  SendInv'
<1>1. /\ task' \in [Tasks -> TaskType] /\ task'[op] = r
      /\ \A o \in Tasks : o # op => task'[o] = task[o]
  BY DEF SendInv, SendTypeOK
<1>2. /\ \A o \in Tasks : task'[o].files = task[o].files /\ task'[o].who = task[o].who
      /\ \A o \in Tasks : Running(o)' => Running(o)
      /\ \A o \in Tasks : Current(o)' <=> Current(o)
  BY <1>1 DEF Running, Current
<1>3. SendTypeOK' /\ Completed' /\ ActiveIsOf'
  BY <1>1 DEF SendInv, SendTypeOK, UploadsGood, ActiveGood
<1>4. Numbered'
  BY <1>1 DEF SendInv, DraftInv, Numbered
<1>5. CurrentIsOutgoing'
  BY <1>2 DEF SendInv, DraftInv, CurrentIsOutgoing
<1>6. FilesApart'
  BY <1>2 DEF SendInv, DraftInv, FilesApart
<1>7. DraftIsOurs'
  BY DraftStays DEF UploadsGood
<1>8. TasksInv'
  <2> SUFFICES ASSUME NEW o \in Tasks PROVE UploadOk(task'[o], upload') /\ CallOk(task'[o], upload')
    BY DEF TasksInv
  <2>1. CASE o = op
    BY <1>1, <2>1
  <2>2. CASE o # op
    <3>1. task[o] \in TaskType /\ UploadOk(task[o], upload) /\ CallOk(task[o], upload)
      BY DEF SendInv, SendTypeOK, TasksInv
    <3>2. QED BY <1>1, <2>2, <3>1, SendsStay DEF UploadsGood
  <2>3. QED BY <2>1, <2>2
<1>9. QED BY <1>3, <1>4, <1>5, <1>6, <1>7, <1>8 DEF SendInv, DraftInv

\* The send op is over, and the draft becomes d.
LEMMA EndStep ==
    ASSUME SendInv, NEW op \in Tasks, Running(op), task[op].flying = {},
           task' = [task EXCEPT ![op] = [@ EXCEPT !.step = "done"]],
           task[op].call # "none" => task[op].step = "calling",
           UNCHANGED <<next, who>>, UploadsGood, ActiveGood,
           draft' \in DraftType, draft'.operation = draft.operation,
           DOMAIN draft'.files # {} => who # Nobody,
           ~Current(op) => draft' = draft,
           Ours(draft'.files, upload', who),
           draft'.outgoing # None => Ours(draft'.outgoing.files, upload', who),
           who = Nobody => ~draft'.text /\ draft'.outgoing = None,
           draft'.outgoing # None => draft' = [draft EXCEPT !.submitting = FALSE] \/ draft' = draft,
           draft'.outgoing = None =>
              \/ draft'.files = draft.files
              \/ draft.outgoing # None /\ draft'.files = draft.outgoing.files
    PROVE  SendInv'
<1> DEFINE r == [task[op] EXCEPT !.step = "done"]
<1>1. task[op] \in TaskType /\ UploadOk(task[op], upload) /\ CallOk(task[op], upload)
  BY DEF SendInv, SendTypeOK, TasksInv
<1>2. r \in TaskType /\ r = [task[op] EXCEPT !.step = "done"]
  BY <1>1 DEF TaskType, Steps
<1>3. /\ r.step = "done" /\ r.files = task[op].files /\ r.who = task[op].who /\ r.flying = {}
      /\ r.call = task[op].call /\ r.waited = task[op].waited /\ r.by = task[op].by
  BY <1>1 DEF TaskType
<1>4. task' = [task EXCEPT ![op] = r]
  OBVIOUS
<1> HIDE DEF r
<1>5. UploadOk(r, upload') /\ CallOk(r, upload')
  <2>1. UploadOk(r, upload) /\ CallOk(r, upload)
    BY <1>1, <1>3 DEF UploadOk, CallOk, KeptOk
  <2>2. QED BY <1>2, <2>1, SendsStay DEF UploadsGood
<1>6. /\ task' \in [Tasks -> TaskType] /\ task'[op] = r
      /\ \A o \in Tasks : o # op => task'[o] = task[o]
  BY <1>2, <1>4 DEF SendInv, SendTypeOK
<1>7. /\ \A o \in Tasks : Running(o)' => Running(o) /\ o # op /\ task'[o] = task[o]
      /\ \A o \in Tasks : Current(o)' <=> Current(o)
  BY <1>3, <1>6 DEF Running, Current
<1>8. SendTypeOK' /\ Completed' /\ ActiveIsOf'
  BY <1>6 DEF SendInv, SendTypeOK, UploadsGood, ActiveGood
<1>9. Numbered'
  <2>1. op <= next
    BY IdleIs DEF SendInv, SendTypeOK, DraftInv, Numbered, Running, Tasks
  <2>2. QED BY <1>6, <2>1 DEF SendInv, SendTypeOK, DraftInv, Numbered, Tasks
<1>10. CurrentIsOutgoing'
  <2> SUFFICES ASSUME NEW o \in Tasks, Running(o)', Current(o)'
               PROVE  /\ draft'.submitting /\ draft'.outgoing # None
                      /\ draft'.outgoing.files = task'[o].files
                      /\ who' = task'[o].who
    BY DEF CurrentIsOutgoing
  <2>1. Running(o) /\ Current(o) /\ o # op /\ task'[o] = task[o]
    BY <1>7
  <2>2. ~Current(op)
    BY <2>1 DEF Current
  <2>3. QED BY <2>1, <2>2 DEF SendInv, DraftInv, CurrentIsOutgoing
<1>11. FilesApart'
  <2>1. draft'.outgoing # None =>
          draft'.outgoing = draft.outgoing /\ draft'.files = draft.files
    BY DEF SendInv, SendTypeOK, DraftType
  <2>2. ASSUME NEW o \in Tasks, Running(o), o # op
        PROVE  /\ Disjoint(task[o].files, draft'.files)
               /\ draft'.outgoing # None /\ ~Current(o) => Disjoint(task[o].files, draft'.outgoing.files)
    <3>1. CASE Current(op)
      <4>1. ~Current(o)
        BY <2>2, <3>1 DEF Current
      <4>2. QED BY <2>1, <2>2, <4>1 DEF SendInv, DraftInv, FilesApart
    <3>2. CASE ~Current(op)
      BY <2>2, <3>2 DEF SendInv, DraftInv, FilesApart
    <3>3. QED BY <3>1, <3>2
  <2>3. draft'.outgoing # None => Disjoint(draft'.outgoing.files, draft'.files)
    BY <2>1 DEF SendInv, DraftInv, FilesApart
  <2>4. ASSUME NEW o \in Tasks, Running(o), NEW q \in Tasks, Running(q), o # q
        PROVE  Disjoint(task[o].files, task[q].files)
    BY <2>4 DEF SendInv, DraftInv, FilesApart
  <2>5. QED BY <1>7, <2>2, <2>3, <2>4 DEF FilesApart
<1>12. DraftIsOurs'
  <2>1. who = Nobody => DOMAIN draft'.files = {}
    OBVIOUS
  <2>2. QED BY <2>1 DEF DraftIsOurs
<1>13. TasksInv'
  <2> SUFFICES ASSUME NEW o \in Tasks PROVE UploadOk(task'[o], upload') /\ CallOk(task'[o], upload')
    BY DEF TasksInv
  <2>1. CASE o = op
    BY <1>5, <1>6, <2>1
  <2>2. CASE o # op
    <3>1. task[o] \in TaskType /\ UploadOk(task[o], upload) /\ CallOk(task[o], upload)
      BY DEF SendInv, SendTypeOK, TasksInv
    <3>2. QED BY <1>6, <2>2, <3>1, SendsStay DEF UploadsGood
  <2>3. QED BY <2>1, <2>2
<1>14. QED BY <1>8, <1>9, <1>10, <1>11, <1>12, <1>13 DEF SendInv, DraftInv

\* The attempt op throws.
LEMMA FailStep ==
    ASSUME SendInv, NEW op \in Tasks, Running(op), task[op].flying = {},
           task[op].call # "none" => task[op].step = "calling",
           Fail(op), UNCHANGED <<next, who>>, UploadsGood, ActiveGood
    PROVE  SendInv'
<1>1. /\ draft \in DraftType
      /\ draft.outgoing # None => draft.outgoing \in Messages
      /\ draft.files \in FileMaps
  BY DEF SendInv, SendTypeOK, DraftType
<1>2. Current(op) => draft.outgoing # None /\ who # Nobody
  BY DEF SendInv, DraftInv, CurrentIsOutgoing, DraftIsOurs
<1>3. /\ Ours(draft.files, upload', who)
      /\ draft.outgoing # None => Ours(draft.outgoing.files, upload', who)
  BY <1>1, OursStay DEF SendInv, DraftInv, DraftIsOurs, UploadsGood, Messages
<1>4. who = Nobody => ~draft.text /\ DOMAIN draft.files = {} /\ draft.outgoing = None
  BY DEF SendInv, DraftInv, DraftIsOurs
<1>5. \/ draft' = draft /\ ~Current(op)
      \/ draft' = [draft EXCEPT !.submitting = FALSE] /\ Current(op)
      \/ draft' = [draft EXCEPT !.text = draft.outgoing.text, !.files = draft.outgoing.files,
                                !.outgoing = None, !.submitting = FALSE] /\ Current(op)
  BY DEF Fail, FailedDraft
<1>6. task' = [task EXCEPT ![op] = [@ EXCEPT !.step = "done"]]
  BY DEF Fail
<1>7. CASE draft' = draft /\ ~Current(op)
  BY <1>1, <1>3, <1>4, <1>6, <1>7, EndStep
<1>8. CASE draft' = [draft EXCEPT !.submitting = FALSE] /\ Current(op)
  <2>1. /\ draft' \in DraftType /\ draft'.files = draft.files /\ draft'.outgoing = draft.outgoing
        /\ draft'.text = draft.text /\ draft'.operation = draft.operation
    BY <1>1, <1>8 DEF DraftType
  <2>2. QED BY <1>2, <1>3, <1>6, <1>8, <2>1, EndStep
<1>9. CASE draft' = [draft EXCEPT !.text = draft.outgoing.text, !.files = draft.outgoing.files,
                                  !.outgoing = None, !.submitting = FALSE] /\ Current(op)
  <2>1. /\ draft' \in DraftType /\ draft'.files = draft.outgoing.files /\ draft'.outgoing = None
        /\ draft'.operation = draft.operation
    BY <1>1, <1>2, <1>9 DEF DraftType, Messages
  <2>2. QED BY <1>2, <1>3, <1>6, <1>9, <2>1, EndStep
<1>10. QED BY <1>5, <1>7, <1>8, <1>9

\* The attachment of a send's file is confirmed, and kept with the message.
LEMMA KeepStep ==
    ASSUME SendingAssumption, SendInv, NEW op \in Tasks, task[op].step = "confirm", Keep(op),
           UNCHANGED <<next, who>>, UploadsGood,
           upload'[task[op].upload].state = "confirmed", upload'[task[op].upload].owner = who
    PROVE  SendInv'
<1> DEFINE f == task[op].file
           u == task[op].upload
           files == [task[op].files EXCEPT ![f] = u]
           r == [task[op] EXCEPT !.files = files, !.step = "loop"]
<1>1. task[op] \in TaskType /\ UploadOk(task[op], upload) /\ CallOk(task[op], upload)
  BY DEF SendInv, SendTypeOK, TasksInv
<1>2. /\ task[op].files \in FileMaps /\ f \in DOMAIN task[op].files /\ u \in Uploads
      /\ upload[u].state # "none" /\ upload[u].file = f
  BY <1>1 DEF UploadOk, TaskType
<1>3. /\ files \in FileMaps /\ DOMAIN files = DOMAIN task[op].files /\ files[f] = u
      /\ \A g \in DOMAIN files : g # f => files[g] = task[op].files[g]
  BY <1>2, MapsStayMaps, FileMapIs
<1>4. /\ task' = [task EXCEPT ![op] = r]
      /\ draft' = IF Current(op) THEN [draft EXCEPT !.outgoing.files = files] ELSE draft
      /\ active' = Without(active, f)
  BY DEF Keep
<1>5. upload'[u].state = "confirmed" /\ upload'[u].owner = who /\ upload'[u].file = f
  BY <1>2 DEF UploadsGood, UploadsStay
<1>6. ActiveGood
  BY <1>4, ActiveWithout DEF UploadsGood
<1> HIDE DEF files
<1>7. /\ r \in TaskType /\ r.step = "loop" /\ r.files = files /\ r.who = task[op].who
      /\ r.flying = task[op].flying /\ r.call = task[op].call
  BY <1>1, <1>3 DEF TaskType, Steps
<1> HIDE DEF r, f, u
<1>8. task[op].call = "none" /\ task[op].flying = {} /\ Running(op)
  BY <1>1 DEF UploadOk, CallOk, Running
<1>10. \A m \in FileMaps : Ours(m, upload, who) => Ours(m, upload', who)
  BY OursStay DEF UploadsGood
<1>11. CallOk(task[op], upload')
  BY <1>1, SendsStay DEF UploadsGood
<1>12. UploadOk(r, upload') /\ CallOk(r, upload')
  <2>1. UploadOk(r, upload')
    BY <1>7, <1>8 DEF UploadOk
  <2>2. KeptOk(r, upload')
    BY <1>3, <1>5, <1>7, <1>11 DEF CallOk, KeptOk
  <2>3. QED BY <1>7, <1>8, <2>1, <2>2 DEF CallOk
<1>13. /\ task' \in [Tasks -> TaskType] /\ task'[op] = r
       /\ \A o \in Tasks : o # op => task'[o] = task[o]
  BY <1>4, <1>7 DEF SendInv, SendTypeOK
<1>14. CASE ~Current(op)
  <2>1. draft' = draft
    BY <1>4, <1>14
  <2>2. /\ \A o \in Tasks : DOMAIN task'[o].files = DOMAIN task[o].files /\ task'[o].who = task[o].who
        /\ \A o \in Tasks : Running(o)' => Running(o)
        /\ \A o \in Tasks : Running(o)' /\ Current(o)' => Current(o) /\ task'[o] = task[o]
        /\ \A o \in Tasks : Current(o)' <=> Current(o)
    BY <1>3, <1>7, <1>8, <1>13, <1>14, <2>1 DEF Running, Current
  <2>3. SendTypeOK' /\ Completed' /\ ActiveIsOf'
    BY <1>6, <1>13, <2>1 DEF SendInv, SendTypeOK, UploadsGood, ActiveGood
  <2>4. Numbered'
    <3>1. op <= next
      BY <1>8, IdleIs DEF SendInv, SendTypeOK, DraftInv, Numbered, Running, Tasks
    <3>2. QED BY <1>13, <2>1, <3>1 DEF SendInv, SendTypeOK, DraftInv, Numbered, Tasks
  <2>5. CurrentIsOutgoing'
    BY <2>1, <2>2 DEF SendInv, DraftInv, CurrentIsOutgoing
  <2>6. FilesApart'
    BY <2>1, <2>2 DEF SendInv, DraftInv, FilesApart, Disjoint
  <2>7. DraftIsOurs'
    BY <2>1, DraftStays DEF UploadsGood
  <2>8. TasksInv'
    BY <1>12, <1>13, SendsStay DEF SendInv, SendTypeOK, TasksInv, UploadsGood
  <2>9. QED BY <2>3, <2>4, <2>5, <2>6, <2>7, <2>8 DEF SendInv, DraftInv
<1>15. CASE Current(op)
  <2>1. /\ draft \in DraftType /\ draft.submitting /\ draft.outgoing \in Messages
        /\ draft.outgoing.files = task[op].files /\ who = task[op].who /\ who # Nobody
    BY <1>8, <1>15 DEF SendInv, SendTypeOK, DraftType, DraftInv, CurrentIsOutgoing, DraftIsOurs
  <2>2. draft' = [draft EXCEPT !.outgoing = [draft.outgoing EXCEPT !.files = files]]
    BY <1>4, <1>15
  <2>3. /\ [draft.outgoing EXCEPT !.files = files] \in Messages
        /\ [draft.outgoing EXCEPT !.files = files].files = files
    BY <1>3, <2>1 DEF Messages
  <2>4. /\ draft' \in DraftType /\ draft'.files = draft.files /\ draft'.text = draft.text
        /\ draft'.submitting /\ draft'.operation = draft.operation
        /\ draft'.outgoing = [draft.outgoing EXCEPT !.files = files]
    BY <2>1, <2>2, <2>3 DEF DraftType
  <2>5. draft'.outgoing.files = files /\ draft.outgoing # None
    BY <2>3, <2>4, <2>1, <1>8, <1>15 DEF SendInv, DraftInv, CurrentIsOutgoing
  <2>6. /\ \A o \in Tasks : DOMAIN task'[o].files = DOMAIN task[o].files
        /\ \A o \in Tasks : Running(o)' => Running(o)
        /\ \A o \in Tasks : Current(o)' <=> o = op
        /\ \A o \in Tasks : Current(o) <=> o = op
    BY <1>3, <1>7, <1>8, <1>13, <1>15, <2>4 DEF Running, Current
  <2>7. SendTypeOK' /\ Completed' /\ ActiveIsOf'
    BY <1>6, <1>13, <2>4 DEF SendInv, SendTypeOK, UploadsGood, ActiveGood
  <2>8. Numbered'
    <3>1. op <= next
      BY <1>8, IdleIs DEF SendInv, SendTypeOK, DraftInv, Numbered, Running, Tasks
    <3>2. QED BY <1>13, <2>4, <3>1 DEF SendInv, SendTypeOK, DraftInv, Numbered, Tasks
  <2>9. CurrentIsOutgoing'
    <3>1. draft'.outgoing # None
      BY <2>3, <2>4 DEF SendingAssumption
    <3>2. QED BY <1>7, <1>13, <2>1, <2>4, <2>5, <2>6, <3>1 DEF CurrentIsOutgoing
  <2>10. FilesApart'
    BY <1>3, <2>1, <2>4, <2>5, <2>6 DEF SendInv, DraftInv, FilesApart, Disjoint
  <2>11. DraftIsOurs'
    <3>1. Ours(draft'.files, upload', who)
      BY <1>10, <2>1, <2>4 DEF SendInv, DraftInv, DraftIsOurs, DraftType
    <3>2. Ours(task[op].files, upload', who)
      BY <1>2, <1>10, <2>1, <2>5 DEF SendInv, DraftInv, DraftIsOurs
    <3>3. Ours(files, upload', who)
      BY <1>3, <1>5, <3>2 DEF Ours
    <3>4. QED BY <2>1, <2>5, <3>1, <3>3 DEF DraftIsOurs
  <2>12. TasksInv'
    BY <1>12, <1>13, SendsStay DEF SendInv, SendTypeOK, TasksInv, UploadsGood
  <2>13. QED BY <2>7, <2>8, <2>9, <2>10, <2>11, <2>12 DEF SendInv, DraftInv
<1>16. QED BY <1>14, <1>15

----------------------------------------------------------------------------
(* The steps of an upload *)

LEMMA OfSend ==
    ASSUME SendInv, NEW op \in Tasks
    PROVE  /\ task[op] \in TaskType /\ UploadOk(task[op], upload) /\ CallOk(task[op], upload)
           /\ task[op] = Idle => task[op].step = "idle" /\ task[op].call = "none"
           /\ task[op].step \notin {"idle", "done"} => Running(op)
           /\ task[op].step \notin {"calling", "done"} => task[op].call = "none"
           /\ task[op].step # "parts" => task[op].flying = {}
BY IdleIs DEF SendInv, SendTypeOK, TasksInv, Running, CallOk, UploadOk

\* The send op moves to another step of its upload.
LEMMA UploadMove ==
    ASSUME SendInv, NEW op \in Tasks, Running(op), task[op].call = "none",
           NEW r \in TaskType, task' = [task EXCEPT ![op] = r],
           r.files = task[op].files, r.who = task[op].who, r.call = "none", r.step # "connecting",
           UNCHANGED <<draft, next, who>>, UploadsGood, ActiveGood, UploadOk(r, upload')
    PROVE  SendInv'
<1>1. CallOk(task[op], upload')
  BY OfSend, SendsStay DEF UploadsGood
<1>2. CallOk(r, upload')
  BY <1>1 DEF CallOk, KeptOk
<1>3. task[op] # Idle
  BY OfSend DEF Running
<1>4. QED BY <1>2, <1>3, TaskStep

LEMMA UploadStepKeeps ==
    ASSUME SendingAssumption, SendInv, NEW op \in Tasks, UploadStep(op) PROVE SendInv'
<1>1. CASE Abandon(op)
  <2> DEFINE r == [task[op] EXCEPT !.step = "done"]
  <2>1. /\ r \in TaskType /\ r.step = "done" /\ r.files = task[op].files /\ r.who = task[op].who
        /\ r.call = task[op].call /\ r.flying = task[op].flying
    BY OfSend DEF TaskType, Steps
  <2>2. task' = [task EXCEPT ![op] = r]
    BY <1>1 DEF Abandon
  <2> HIDE DEF r
  <2>3. Running(op) /\ task[op].call = "none" /\ task[op].flying = {}
    BY <1>1, OfSend DEF Abandon
  <2>4. UNCHANGED <<draft, next, who>> /\ UploadsGood /\ ActiveGood
    BY <1>1, SameUploads, SameActive DEF Abandon, UploadsGood
  <2>5. UploadOk(r, upload')
    BY <2>1, <2>3 DEF UploadOk
  <2>6. QED BY <2>1, <2>2, <2>3, <2>4, <2>5, UploadMove
<1>2. CASE Refused(op)
  <2>1. Running(op) /\ task[op].call = "none" /\ task[op].flying = {}
    BY <1>2, OfSend DEF Refused
  <2>2. Fail(op) /\ UNCHANGED <<next, who>> /\ UploadsGood /\ ActiveGood
    BY <1>2, SameUploads, SameActive DEF Refused, UploadsGood
  <2>3. QED BY <2>1, <2>2, FailStep
<1>3. ASSUME NEW f \in Files, TakeFile(op, f) PROVE SendInv'
  <2> DEFINE v == IF Usable(f) THEN active[f].upload ELSE None
             s == IF ~Usable(f) THEN "request" ELSE IF active[f].uploaded THEN "confirm" ELSE "status"
             r == [task[op] EXCEPT !.file = f, !.upload = v, !.step = s]
  <2>1. task' = [task EXCEPT ![op] = r] /\ f \in DOMAIN task[op].files
    BY <1>3 DEF TakeFile
  <2>2. /\ Usable(f) => /\ s \in {"confirm", "status"} /\ v \in Uploads
                        /\ upload[v].state # "none" /\ upload[v].file = f
        /\ ~Usable(f) => s = "request" /\ v = None
    BY DEF Usable, SendInv, SendTypeOK, ActiveTypeOK, ActiveType, ActiveIsOf
  <2>3. s \in Steps /\ v \in Uploads \cup {None}
    BY <2>2 DEF Steps
  <2> HIDE DEF s, v
  <2>4. /\ r \in TaskType /\ r.step = s /\ r.file = f /\ r.upload = v /\ r.files = task[op].files
        /\ r.who = task[op].who /\ r.call = task[op].call /\ r.flying = task[op].flying
    BY <2>3, OfSend DEF TaskType
  <2> HIDE DEF r
  <2>5. Running(op) /\ task[op].call = "none" /\ task[op].flying = {}
    BY <1>3, OfSend DEF TakeFile
  <2>6. UploadsGood /\ (Usable(f) => upload' = upload)
    BY <1>3, SameUploads, CancelGood DEF TakeFile
  <2>7. UNCHANGED <<draft, next, who>> /\ ActiveGood
    BY <1>3, <2>6, SameActive, ActiveWithout DEF TakeFile, UploadsGood
  <2>8. UploadOk(r, upload')
    BY <2>1, <2>2, <2>4, <2>5, <2>6 DEF UploadOk
  <2>9. s # "connecting"
    BY <2>2
  <2>10. QED BY <2>1, <2>4, <2>5, <2>6, <2>7, <2>8, <2>9, UploadMove
<1>4. ASSUME NEW u \in Uploads, NEW answered \in BOOLEAN, Reserve(op, u, answered) PROVE SendInv'
  <2> DEFINE f == task[op].file
             up == [NoUpload EXCEPT !.state = "pending", !.owner = who, !.file = f]
  <2>1. f \in Files /\ f \in DOMAIN task[op].files
    BY <1>4, OfSend, FileMapIs DEF Reserve, UploadOk, TaskType
  <2>2. up \in UploadType /\ up.state = "pending" /\ up.file = f /\ ~up.object
    BY <2>1 DEF NoUpload, UploadType, People, SendInv, SendTypeOK
  <2>3. upload' = [upload EXCEPT ![u] = up] /\ upload[u].state = "none"
    BY <1>4 DEF Reserve
  <2> HIDE DEF up
  <2>4. UploadsGood /\ upload'[u] = up
    BY <2>2, <2>3, OneUpload DEF SendInv, SendTypeOK, UploadTypeOK
  <2>5. Running(op) /\ task[op].call = "none" /\ task[op].flying = {} /\ UNCHANGED <<next, who>>
    BY <1>4, OfSend DEF Reserve
  <2>6. CASE ~answered
    <3>1. Fail(op) /\ ActiveGood
      BY <1>4, <2>4, <2>6, SameActive DEF Reserve, UploadsGood
    <3>2. QED BY <2>4, <2>5, <3>1, FailStep
  <2>7. CASE answered
    <3> DEFINE s == IF f \in Large THEN "status" ELSE "put"
               r == [task[op] EXCEPT !.upload = u, !.step = s]
    <3>1. task' = [task EXCEPT ![op] = r] /\ draft' = draft
      BY <1>4, <2>7 DEF Reserve
    <3>2. s \in {"status", "put"} /\ (s = "put" => f \notin Large)
      OBVIOUS
    <3> HIDE DEF s
    <3>3. /\ r \in TaskType /\ r.step = s /\ r.file = f /\ r.upload = u /\ r.files = task[op].files
          /\ r.who = task[op].who /\ r.call = task[op].call /\ r.flying = task[op].flying
      BY <3>2, OfSend DEF TaskType, Steps
    <3> HIDE DEF r
    <3>4. UploadOk(r, upload')
      BY <2>1, <2>2, <2>4, <2>5, <3>2, <3>3 DEF UploadOk
    <3>5. ActiveGood
      <4> DEFINE v == [upload |-> u, uploaded |-> FALSE, expired |-> FALSE]
      <4>1. v \in ActiveType /\ v.upload = u
        BY DEF ActiveType
      <4>2. active' = With(active, f, v) \/ active' = active
        BY <1>4, <2>7 DEF Reserve
      <4> HIDE DEF v
      <4>3. CASE active' = active
        BY <2>4, <4>3, SameActive DEF UploadsGood
      <4>4. CASE active' = With(active, f, v)
        BY <2>1, <2>2, <2>4, <4>1, <4>4, ActiveWith DEF UploadsGood
      <4>5. QED BY <4>2, <4>3, <4>4
    <3>6. QED BY <2>4, <2>5, <3>1, <3>2, <3>3, <3>4, <3>5, UploadMove
  <2>8. QED BY <2>6, <2>7
<1>5. CASE Put(op)
  <2> DEFINE r == [task[op] EXCEPT !.step = "confirm"]
  <2>1. task' = [task EXCEPT ![op] = r]
    BY <1>5 DEF Put
  <2>2. /\ r \in TaskType /\ r.step = "confirm" /\ r.file = task[op].file /\ r.upload = task[op].upload
        /\ r.files = task[op].files /\ r.who = task[op].who /\ r.call = task[op].call
        /\ r.flying = task[op].flying
    BY OfSend DEF TaskType, Steps
  <2> HIDE DEF r
  <2>3. /\ task[op].upload \in Uploads /\ upload[task[op].upload].file \notin Large
        /\ Running(op) /\ task[op].call = "none" /\ task[op].flying = {}
    BY <1>5, OfSend DEF Put, UploadOk
  <2>4. UploadsGood
    BY <1>5, <2>3, ObjectGood DEF Put
  <2>5. ActiveGood /\ UNCHANGED <<draft, next, who>>
    BY <1>5, <2>4, SameActive DEF Put, UploadsGood
  <2>6. UploadOk(task[op], upload')
    BY <2>4, OfSend, SendsStay DEF UploadsGood
  <2>7. UploadOk(r, upload')
    BY <1>5, <2>2, <2>3, <2>6 DEF UploadOk, Put
  <2>8. QED BY <2>1, <2>2, <2>3, <2>4, <2>5, <2>7, UploadMove
<1>6. ASSUME NEW landed \in BOOLEAN, PutFails(op, landed) PROVE SendInv'
  <2>1. /\ task[op].upload \in Uploads /\ upload[task[op].upload].file \notin Large
        /\ Running(op) /\ task[op].call = "none" /\ task[op].flying = {}
    BY <1>6, OfSend DEF PutFails, UploadOk
  <2>2. UploadsGood
    <3>1. CASE Aborted(task[op].upload)
      BY <2>1, <3>1, AbortGood
    <3>2. CASE upload' = [upload EXCEPT ![task[op].upload] = [@ EXCEPT !.object = TRUE]]
      BY <2>1, <3>2, ObjectGood
    <3>3. CASE upload' = upload
      BY <3>3, SameUploads
    <3>4. QED BY <1>6, <3>1, <3>2, <3>3 DEF PutFails
  <2>3. Fail(op) /\ UNCHANGED <<next, who>> /\ ActiveGood
    BY <1>6, <2>2, SameActive DEF PutFails, UploadsGood
  <2>4. QED BY <2>1, <2>2, <2>3, FailStep
<1>7. QED BY <1>1, <1>2, <1>3, <1>4, <1>5, <1>6 DEF UploadStep

LEMMA PartStepKeeps ==
    ASSUME SendingAssumption, SendInv, NEW op \in Tasks, PartStep(op) PROVE SendInv'
<1> DEFINE u == task[op].upload
\* The pool of parts changes, and the upload stays what it is.
<1>1. ASSUME task[op].step \in {"status", "parts"},
             NEW r \in TaskType, r.step = "parts", r.file = task[op].file, r.upload = task[op].upload,
             r.files = task[op].files, r.who = task[op].who, r.call = task[op].call,
             task' = [task EXCEPT ![op] = r],
             UNCHANGED <<draft, next, active, who>>, UploadsGood
      PROVE  SendInv'
  <2>1. Running(op) /\ task[op].call = "none" /\ ActiveGood
    BY <1>1, OfSend, SameActive DEF UploadsGood
  <2>2. UploadOk(task[op], upload')
    BY <1>1, OfSend, SendsStay DEF UploadsGood
  <2>3. UploadOk(r, upload')
    BY <1>1, <2>2 DEF UploadOk
  <2>4. QED BY <1>1, <2>1, <2>3, UploadMove
<1>2. task[op] \in TaskType
  BY OfSend
<1>3. task[op].step \in {"status", "parts"} => u \in Uploads
  BY OfSend DEF UploadOk
<1>4. CASE Resume(op)
  <2> DEFINE l == IF upload[u].object THEN {} ELSE Parts \ upload[u].parts
             r == [task[op] EXCEPT !.step = "parts", !.limit = 1, !.failed = FALSE, !.left = l]
  <2>1. l \in SUBSET Parts
    OBVIOUS
  <2>2. task' = [task EXCEPT ![op] = r] /\ task[op].step = "status" /\ upload' = upload
    BY <1>4 DEF Resume
  <2> HIDE DEF l
  <2>3. /\ r \in TaskType /\ r.step = "parts" /\ r.file = task[op].file /\ r.upload = task[op].upload
        /\ r.files = task[op].files /\ r.who = task[op].who /\ r.call = task[op].call
    BY <1>2, <2>1 DEF TaskType, Steps
  <2> HIDE DEF r
  <2>4. QED BY <1>1, <1>4, <2>2, <2>3, SameUploads DEF Resume
<1>5. CASE PoolSettles(op)
  <2>1. UploadsGood /\ UNCHANGED <<next, who>>
    BY <1>5, SameUploads DEF PoolSettles
  <2>2. Running(op) /\ task[op].call = "none" /\ task[op].flying = {} /\ task[op].step = "parts"
    BY <1>5, OfSend DEF PoolSettles
  <2>3. CASE Fail(op) /\ active' = active
    <3>1. ActiveGood
      BY <2>1, <2>3, SameActive DEF UploadsGood
    <3>2. QED BY <2>1, <2>2, <2>3, <3>1, FailStep
  <2>4. CASE task' = [task EXCEPT ![op] = [@ EXCEPT !.step = "confirm"]] /\ draft' = draft
    <3> DEFINE r == [task[op] EXCEPT !.step = "confirm"]
    <3>1. /\ r \in TaskType /\ r.step = "confirm" /\ r.file = task[op].file /\ r.upload = task[op].upload
          /\ r.files = task[op].files /\ r.who = task[op].who /\ r.call = task[op].call
          /\ r.flying = task[op].flying
      BY <1>2 DEF TaskType, Steps
    <3>2. task' = [task EXCEPT ![op] = r]
      BY <2>4
    <3> HIDE DEF r
    <3>3. UploadOk(task[op], upload')
      BY <2>1, OfSend, SendsStay DEF UploadsGood
    <3>4. UploadOk(r, upload')
      BY <2>2, <3>1, <3>3 DEF UploadOk
    <3>5. ActiveGood
      <4>1. CASE active' = active
        BY <2>1, <4>1, SameActive DEF UploadsGood
      <4>2. CASE active' # active
        <5> DEFINE f == task[op].file
        <5>1. active' = [active EXCEPT ![f] = [@ EXCEPT !.uploaded = TRUE]] /\ f \in DOMAIN active
          BY <1>5, <4>2 DEF PoolSettles
        <5>2. active[f] \in ActiveType
          BY <5>1 DEF SendInv, SendTypeOK, ActiveTypeOK
        <5>3. /\ [active[f] EXCEPT !.uploaded = TRUE] \in ActiveType
              /\ [active[f] EXCEPT !.uploaded = TRUE].upload = active[f].upload
          BY <5>2 DEF ActiveType
        <5>4. QED BY <2>1, <5>1, <5>3, ActiveMarked DEF UploadsGood
      <4>3. QED BY <4>1, <4>2
    <3>6. QED BY <2>1, <2>2, <2>4, <3>1, <3>2, <3>4, <3>5, UploadMove
  <2>5. QED BY <1>5, <2>3, <2>4 DEF PoolSettles
<1>6. ASSUME NEW p \in Parts, StartPart(op, p) PROVE SendInv'
  <2> DEFINE l == task[op].left \ {p}
             fl == task[op].flying \cup {p}
             r == [task[op] EXCEPT !.left = l, !.flying = fl]
  <2>1. l \in SUBSET Parts /\ fl \in SUBSET Parts
    BY <1>2 DEF TaskType
  <2>2. task' = [task EXCEPT ![op] = r] /\ task[op].step = "parts" /\ upload' = upload
    BY <1>6 DEF StartPart
  <2> HIDE DEF l, fl
  <2>3. /\ r \in TaskType /\ r.step = "parts" /\ r.file = task[op].file /\ r.upload = task[op].upload
        /\ r.files = task[op].files /\ r.who = task[op].who /\ r.call = task[op].call
    BY <1>2, <2>1, <2>2 DEF TaskType
  <2> HIDE DEF r
  <2>4. QED BY <1>1, <1>6, <2>2, <2>3, SameUploads DEF StartPart
<1>7. ASSUME NEW p \in Parts, NEW fast \in BOOLEAN, PartStored(op, p, fast) PROVE SendInv'
  <2> DEFINE m == task[op].limit
             fl == task[op].flying \ {p}
             n == IF fast THEN IF m < MaxParallel THEN m + 1 ELSE MaxParallel
                  ELSE IF m > 1 THEN m - 1 ELSE 1
             r == [task[op] EXCEPT !.flying = fl, !.limit = n]
  <2>1. fl \in SUBSET Parts /\ m \in Nat
    BY <1>2 DEF TaskType
  <2>2. n \in Nat
    BY <2>1 DEF SendingAssumption
  <2>3. task' = [task EXCEPT ![op] = r] /\ task[op].step = "parts"
    BY <1>7 DEF PartStored
  <2> HIDE DEF m, fl, n
  <2>4. /\ r \in TaskType /\ r.step = "parts" /\ r.file = task[op].file /\ r.upload = task[op].upload
        /\ r.files = task[op].files /\ r.who = task[op].who /\ r.call = task[op].call
    BY <1>2, <2>1, <2>2, <2>3 DEF TaskType
  <2> HIDE DEF r
  <2>5. UploadsGood
    BY <1>3, <1>7, WrittenGood DEF PartStored
  <2>6. QED BY <1>1, <1>7, <2>3, <2>4, <2>5 DEF PartStored
<1>8. ASSUME NEW p \in Parts, NEW again \in BOOLEAN, NEW landed \in BOOLEAN, PartFails(op, p, again, landed)
      PROVE  SendInv'
  <2> DEFINE fl == task[op].flying \ {p}
             r == IF again THEN [task[op] EXCEPT !.limit = 1]
                  ELSE [task[op] EXCEPT !.limit = 1, !.failed = TRUE, !.flying = fl]
  <2>1. fl \in SUBSET Parts
    BY <1>2 DEF TaskType
  <2>2. UploadsGood /\ task[op].step = "parts" /\ UNCHANGED <<draft, next, active, who>>
    BY <1>3, <1>8, WrittenGood, SameUploads DEF PartFails
  <2>3. task' = [task EXCEPT ![op] = r]
    BY <1>8 DEF PartFails
  <2> HIDE DEF fl
  <2>4. /\ r \in TaskType /\ r.step = "parts" /\ r.file = task[op].file /\ r.upload = task[op].upload
        /\ r.files = task[op].files /\ r.who = task[op].who /\ r.call = task[op].call
    BY <1>2, <2>1, <2>2 DEF TaskType
  <2> HIDE DEF r
  <2>5. QED BY <1>1, <2>2, <2>3, <2>4
<1>9. QED BY <1>4, <1>5, <1>6, <1>7, <1>8 DEF PartStep

----------------------------------------------------------------------------
(* Confirmation and the call *)

LEMMA ConfirmStepKeeps ==
    ASSUME SendingAssumption, SendInv, NEW op \in Tasks, ConfirmStep(op) PROVE SendInv'
<1> DEFINE u == task[op].upload
<1>1. CASE task[op].step = "confirm"
  <2>1. /\ u \in Uploads /\ upload[u].state # "none" /\ upload[u] \in UploadType
        /\ Running(op) /\ task[op].call = "none" /\ task[op].flying = {}
    BY <1>1, OfSend DEF UploadOk, SendInv, SendTypeOK, UploadTypeOK
  <2>2. Whole(u) => upload[u].file \notin Large \/ upload[u].parts = Parts
    BY <2>1 DEF Whole, SendInv, Completed
  <2>3. ASSUME NEW answered \in BOOLEAN, Confirm(op, answered) PROVE SendInv'
    <3> DEFINE r == [upload[u] EXCEPT !.state = "confirmed", !.object = TRUE]
    <3>1. /\ r \in UploadType /\ r.state = "confirmed" /\ r.object /\ r.parts = upload[u].parts
          /\ r.owner = upload[u].owner /\ r.file = upload[u].file
      BY <2>1 DEF UploadType
    <3>2. upload' = [upload EXCEPT ![u] = r]
      BY <2>3 DEF Confirm
    <3>3. /\ upload[u].state = "pending" /\ upload[u].owner = who /\ Whole(u)
          /\ UNCHANGED <<next, who>>
      BY <2>3 DEF Confirm
    <3> HIDE DEF r, u
    <3>4. UploadsGood /\ upload'[u] = r
      BY <2>1, <2>2, <3>1, <3>2, <3>3, OneUpload DEF SendInv, SendTypeOK, UploadTypeOK
    <3>5. CASE answered
      <4>1. Keep(op)
        BY <2>3, <3>5 DEF Confirm
      <4>2. upload'[task[op].upload].state = "confirmed" /\ upload'[task[op].upload].owner = who
        BY <3>1, <3>3, <3>4 DEF u
      <4>3. QED BY <1>1, <3>3, <3>4, <4>1, <4>2, KeepStep
    <3>6. CASE ~answered
      <4>1. Fail(op) /\ active' = active
        BY <2>3, <3>6 DEF Confirm
      <4>2. ActiveGood
        BY <3>4, <4>1, SameActive DEF UploadsGood
      <4>3. QED BY <2>1, <3>3, <3>4, <4>1, <4>2, FailStep
    <3>7. QED BY <3>5, <3>6
  <2>4. CASE ConfirmAgain(op)
    <3>1. UploadsGood /\ Keep(op) /\ UNCHANGED <<next, who>>
      BY <2>4, SameUploads DEF ConfirmAgain
    <3>2. upload'[u].state = "confirmed" /\ upload'[u].owner = who
      BY <2>4 DEF ConfirmAgain
    <3>3. QED BY <1>1, <3>1, <3>2, KeepStep
  <2>5. CASE ConfirmFails(op)
    <3>1. UploadsGood
      BY <2>1, <2>2, <2>5, ObjectGood DEF ConfirmFails
    <3>2. Fail(op) /\ UNCHANGED <<next, who>> /\ ActiveGood
      BY <2>5, <3>1, SameActive DEF ConfirmFails, UploadsGood
    <3>3. QED BY <2>1, <3>1, <3>2, FailStep
  <2>6. CASE ConfirmLate(op)
    <3>1. UploadsGood
      BY <2>1, <2>6, GoneGood DEF ConfirmLate
    <3>2. Fail(op) /\ UNCHANGED <<next, who>> /\ ActiveGood
      BY <2>6, <3>1, SameActive DEF ConfirmLate, UploadsGood
    <3>3. QED BY <2>1, <3>1, <3>2, FailStep
  <2>7. QED BY <2>3, <2>4, <2>5, <2>6 DEF ConfirmStep
<1>2. CASE task[op].step # "confirm"
  BY <1>2 DEF ConfirmStep, Confirm, ConfirmAgain, ConfirmFails, ConfirmLate
<1>3. QED BY <1>1, <1>2

LEMMA CallStepKeeps ==
    ASSUME SendingAssumption, SendInv, NEW op \in Tasks, CallStep(op) PROVE SendInv'
<1>1. task[op] \in TaskType /\ who \in People
  BY OfSend DEF SendInv, SendTypeOK
<1>2. ASSUME upload' = upload, active' = active PROVE UploadsGood /\ ActiveGood
  BY <1>2, SameUploads, SameActive DEF UploadsGood
\* A send all of whose files are attached calls in the name of w.
<1>3. ASSUME Issue(op), task[op].step \in {"loop", "connecting"}, Attached(task[op].files),
             ~task[op].waited => Current(op),
             UNCHANGED <<draft, next, active, upload, who>>
      PROVE  SendInv'
  <2> DEFINE r == [task[op] EXCEPT !.step = "calling", !.call = "issued", !.by = who]
  <2>1. task' = [task EXCEPT ![op] = r]
    BY <1>3 DEF Issue
  <2>2. /\ r \in TaskType /\ r.step = "calling" /\ r.call = "issued" /\ r.by = who
        /\ r.files = task[op].files /\ r.who = task[op].who /\ r.waited = task[op].waited
        /\ r.flying = task[op].flying
    BY <1>1 DEF TaskType, Steps
  <2> HIDE DEF r
  <2>3. Running(op) /\ task[op].flying = {} /\ task[op] # Idle /\ KeptOk(task[op], upload)
    BY <1>3, OfSend DEF CallOk, Running
  <2>4. UploadOk(r, upload')
    BY <2>2, <2>3 DEF UploadOk
  <2>5. ~task[op].waited =>
          who = task[op].who /\ \A f \in DOMAIN task[op].files : upload[task[op].files[f]].owner = who
    BY <1>3, <2>3 DEF SendInv, DraftInv, CurrentIsOutgoing, DraftIsOurs, Ours, Attached
  <2>6. CallOk(r, upload')
    BY <1>3, <2>2, <2>3, <2>5 DEF CallOk, KeptOk
  <2>7. QED BY <1>2, <1>3, <2>1, <2>2, <2>3, <2>4, <2>6, TaskStep
<1>4. CASE Send(op)
  <2>1. /\ task[op].step = "loop" /\ Current(op) /\ Attached(task[op].files)
        /\ UNCHANGED <<draft, next, active, upload, who>>
    BY <1>4 DEF Send
  <2>2. CASE Issue(op)
    BY <1>3, <2>1, <2>2
  <2>3. CASE task' = [task EXCEPT ![op] = [@ EXCEPT !.step = "connecting", !.waited = TRUE]]
    <3> DEFINE r == [task[op] EXCEPT !.step = "connecting", !.waited = TRUE]
    <3>1. task' = [task EXCEPT ![op] = r]
      BY <2>3
    <3>2. /\ r \in TaskType /\ r.step = "connecting" /\ r.waited /\ r.call = task[op].call
          /\ r.files = task[op].files /\ r.who = task[op].who /\ r.flying = task[op].flying
      BY <1>1 DEF TaskType, Steps
    <3> HIDE DEF r
    <3>3. /\ Running(op) /\ task[op].flying = {} /\ task[op] # Idle /\ task[op].call = "none"
          /\ KeptOk(task[op], upload)
      BY <2>1, OfSend DEF CallOk, Running
    <3>4. UploadOk(r, upload') /\ CallOk(r, upload')
      BY <2>1, <3>2, <3>3 DEF UploadOk, CallOk, KeptOk
    <3>5. QED BY <1>2, <2>1, <3>1, <3>2, <3>3, <3>4, TaskStep
  <2>4. QED BY <1>4, <2>2, <2>3 DEF Send
<1>5. CASE SendOnReconnect(op)
  <2>1. task[op].waited /\ Attached(task[op].files)
    BY <1>5, OfSend DEF SendOnReconnect, CallOk
  <2>2. QED BY <1>3, <1>5, <2>1 DEF SendOnReconnect
\* The server has executed or refused the call.
<1>6. ASSUME NEW c \in {"executed", "refused"}, task[op].call = "issued",
             task' = [task EXCEPT ![op] = [@ EXCEPT !.call = c]],
             UNCHANGED <<draft, next, active, upload, who>>
      PROVE  SendInv'
  <2> DEFINE r == [task[op] EXCEPT !.call = c]
  <2>1. task' = [task EXCEPT ![op] = r]
    BY <1>6
  <2>2. /\ r \in TaskType /\ r.call = c /\ r.step = task[op].step /\ r.by = task[op].by
        /\ r.files = task[op].files /\ r.who = task[op].who /\ r.waited = task[op].waited
        /\ r.flying = task[op].flying /\ r.file = task[op].file /\ r.upload = task[op].upload
    BY <1>1 DEF TaskType
  <2> HIDE DEF r
  <2>3. task[op] # Idle /\ UploadOk(task[op], upload) /\ CallOk(task[op], upload)
    BY <1>6, OfSend
  <2>4. UploadOk(r, upload')
    BY <1>6, <2>2, <2>3 DEF UploadOk
  <2>5. CallOk(r, upload')
    BY <1>6, <2>2, <2>3 DEF CallOk, KeptOk
  <2>6. r.step \notin {"idle", "done"} => Running(op)
    BY <2>2 DEF Running
  <2>7. QED BY <1>2, <1>6, <2>1, <2>2, <2>3, <2>4, <2>5, <2>6, TaskStep
<1>7. CASE Execute(op) \/ Deny(op)
  BY <1>6, <1>7 DEF Execute, Deny
<1>8. CASE Answered(op)
  <2>1. /\ task[op].step = "calling" /\ Running(op) /\ task[op].flying = {}
        /\ task' = [task EXCEPT ![op] = [@ EXCEPT !.step = "done"]]
        /\ UNCHANGED <<next, active, upload, who>>
    BY <1>8, OfSend DEF Answered
  <2>2. UploadsGood /\ ActiveGood
    BY <1>2, <2>1
  <2>3. /\ draft \in DraftType /\ draft.files \in FileMaps
        /\ draft.outgoing # None => draft.outgoing \in Messages
    BY DEF SendInv, SendTypeOK, DraftType
  <2>4. /\ Ours(draft.files, upload', who)
        /\ draft.outgoing # None => Ours(draft.outgoing.files, upload', who)
        /\ who = Nobody => ~draft.text /\ DOMAIN draft.files = {} /\ draft.outgoing = None
    BY <2>1 DEF SendInv, DraftInv, DraftIsOurs
  <2>5. CASE ~Current(op)
    <3>1. draft' = draft
      BY <1>8, <2>5 DEF Answered
    <3>2. QED BY <2>1, <2>2, <2>3, <2>4, <3>1, EndStep
  <2>6. CASE Current(op)
    <3>1. draft' = [draft EXCEPT !.outgoing = None, !.submitting = FALSE]
      BY <1>8, <2>6 DEF Answered
    <3>2. /\ draft' \in DraftType /\ draft'.files = draft.files /\ draft'.text = draft.text
          /\ draft'.outgoing = None /\ draft'.operation = draft.operation
      BY <2>3, <3>1 DEF DraftType
    <3>3. QED BY <2>1, <2>2, <2>4, <2>6, <3>2, EndStep
  <2>7. QED BY <2>5, <2>6
<1>9. CASE CallFails(op)
  <2>1. /\ task[op].step = "calling" /\ Running(op) /\ task[op].flying = {} /\ Fail(op)
        /\ UNCHANGED <<next, active, upload, who>>
    BY <1>9, OfSend DEF CallFails
  <2>2. QED BY <1>2, <2>1, FailStep
<1>10. QED BY <1>4, <1>5, <1>7, <1>8, <1>9 DEF CallStep

----------------------------------------------------------------------------
(* The composer, sessions and time *)

\* The composer's files change without a send.
LEMMA DraftStep ==
    ASSUME SendInv, UNCHANGED <<next, task, who>>, UploadsGood, ActiveGood,
           draft' \in DraftType, draft'.operation = draft.operation,
           draft'.submitting = draft.submitting,
           draft'.outgoing = draft.outgoing \/ (draft'.outgoing = None /\ ~draft.submitting),
           NEW m, draft'.files = m,
           \A op \in Tasks : Running(op) => Disjoint(task[op].files, m),
           draft.outgoing # None => Disjoint(draft.outgoing.files, m),
           Ours(m, upload', who),
           who = Nobody => ~draft'.text /\ DOMAIN m = {}
    PROVE  SendInv'
<1>1. \A o \in Tasks : (Running(o)' <=> Running(o)) /\ (Current(o)' <=> Current(o))
  BY DEF Running, Current
<1>2. SendTypeOK' /\ Completed' /\ ActiveIsOf'
  BY DEF SendInv, SendTypeOK, UploadsGood, ActiveGood
<1>3. Numbered'
  BY DEF SendInv, DraftInv, Numbered
<1>4. CurrentIsOutgoing'
  BY <1>1 DEF SendInv, DraftInv, CurrentIsOutgoing
<1>5. FilesApart'
  BY <1>1 DEF SendInv, DraftInv, FilesApart
<1>6. draft'.outgoing # None => Ours(draft'.outgoing.files, upload', who)
  <2>1. draft'.outgoing # None => draft'.outgoing = draft.outgoing /\ draft.outgoing.files \in FileMaps
    BY DEF SendInv, SendTypeOK, DraftType, Messages
  <2>2. QED BY <2>1, OursStay DEF SendInv, DraftInv, DraftIsOurs, UploadsGood
<1>7. DraftIsOurs'
  BY <1>6 DEF SendInv, DraftInv, DraftIsOurs
<1>8. TasksInv'
  BY SendsStay DEF SendInv, SendTypeOK, TasksInv, UploadsGood
<1>9. QED BY <1>2, <1>3, <1>4, <1>5, <1>7, <1>8 DEF SendInv, DraftInv

\* A new send takes the content, which is apart from what is left and from
\* every other send.
LEMMA BeginStep ==
    ASSUME SendingAssumption, SendInv, NEW content \in Messages, NEW left, left.text \in BOOLEAN, left.files \in FileMaps,
           Begin(content, left), who # Nobody,
           Ours(content.files, upload, who), Ours(left.files, upload, who),
           Disjoint(content.files, left.files),
           \A o \in Tasks : Running(o) => Disjoint(task[o].files, content.files)
                                            /\ Disjoint(task[o].files, left.files),
           content # None
    PROVE  SendInv'
<1> DEFINE n == next + 1
           r == [Idle EXCEPT !.step = "loop", !.files = content.files, !.who = who]
<1>1. /\ n \in Tasks /\ next \in Nat /\ n \in Nat /\ task[n] = Idle
  BY DEF SendingAssumption, Begin, SendInv, SendTypeOK, DraftInv, Numbered, Tasks
<1>2. /\ r \in TaskType /\ r.step = "loop" /\ r.files = content.files /\ r.who = who
      /\ r.call = "none" /\ r.flying = {}
  BY IdleIs DEF TaskType, Steps, Messages, SendInv, SendTypeOK
<1>3. /\ task' = [task EXCEPT ![n] = r] /\ next' = n
      /\ draft' = [text |-> left.text, files |-> left.files, outgoing |-> content,
                   submitting |-> TRUE, operation |-> n]
      /\ UNCHANGED <<active, upload, who>>
  BY DEF Begin
<1> HIDE DEF r
<1>4. /\ task' \in [Tasks -> TaskType] /\ task'[n] = r
      /\ \A o \in Tasks : o # n => task'[o] = task[o]
  BY <1>1, <1>2, <1>3 DEF SendInv, SendTypeOK
<1>5. \A o \in Tasks : (Current(o)' <=> o = n) /\ (Running(o)' => o = n \/ (Running(o) /\ task'[o] = task[o]))
  <2>1. draft'.operation = n
    BY <1>3
  <2>2. QED BY <1>4, <2>1 DEF Running, Current
<1>6. draft' \in DraftType
  BY <1>1, <1>3 DEF DraftType
<1>7. UploadsGood /\ ActiveGood
  BY <1>3, SameUploads, SameActive DEF UploadsGood
<1>8. SendTypeOK' /\ Completed' /\ ActiveIsOf'
  BY <1>1, <1>3, <1>4, <1>6, <1>7 DEF SendInv, SendTypeOK, UploadsGood, ActiveGood
<1>9. Numbered'
  <2>1. draft'.operation <= next'
    BY <1>1, <1>3
  <2>2. ASSUME NEW o \in Tasks, o > next' PROVE task'[o] = Idle
    BY <1>1, <1>3, <1>4, <2>2 DEF SendInv, DraftInv, Numbered, Tasks
  <2>3. QED BY <2>1, <2>2 DEF Numbered
<1>10. CurrentIsOutgoing'
  BY <1>2, <1>3, <1>4, <1>5 DEF CurrentIsOutgoing
<1>11. FilesApart'
  <2>1. draft'.files = left.files /\ draft'.outgoing = content
    BY <1>3
  <2>2. ASSUME NEW o \in Tasks, Running(o)'
        PROVE  /\ Disjoint(task'[o].files, draft'.files)
               /\ o # n => Disjoint(task'[o].files, draft'.outgoing.files)
    BY <1>2, <1>4, <1>5, <2>1, <2>2
  <2>3. ASSUME NEW o \in Tasks, Running(o)', NEW q \in Tasks, Running(q)', o # q
        PROVE  Disjoint(task'[o].files, task'[q].files)
    <3>1. CASE o # n /\ q # n
      BY <1>5, <2>3, <3>1 DEF SendInv, DraftInv, FilesApart
    <3>2. CASE o = n
      BY <1>2, <1>4, <1>5, <2>3, <3>2 DEF Disjoint
    <3>3. CASE q = n
      BY <1>2, <1>4, <1>5, <2>3, <3>3
    <3>4. QED BY <3>1, <3>2, <3>3
  <2>4. QED BY <1>5, <2>1, <2>2, <2>3 DEF FilesApart
<1>12. DraftIsOurs'
  BY <1>3 DEF DraftIsOurs
<1>13. TasksInv'
  <2>1. UploadOk(r, upload')
    BY <1>2 DEF UploadOk
  <2>2. CallOk(r, upload')
    BY <1>2, <1>3 DEF CallOk, KeptOk, Ours
  <2>3. QED BY <1>3, <1>4, <2>1, <2>2 DEF SendInv, TasksInv
<1>14. QED BY <1>8, <1>9, <1>10, <1>11, <1>12, <1>13 DEF SendInv, DraftInv

LEMMA ComposeKeeps ==
    ASSUME SendingAssumption, SendInv, Compose PROVE SendInv'
<1>1. /\ draft \in DraftType /\ draft.files \in FileMaps /\ draft.text \in BOOLEAN
      /\ draft.outgoing # None => draft.outgoing \in Messages
      /\ draft.outgoing # None => Disjoint(draft.outgoing.files, draft.files)
      /\ \A o \in Tasks : Running(o) => Disjoint(task[o].files, draft.files)
  BY DEF SendInv, SendTypeOK, DraftType, DraftInv, FilesApart
<1>2. /\ Ours(draft.files, upload, who)
      /\ draft.outgoing # None => Ours(draft.outgoing.files, upload, who)
      /\ who = Nobody => ~draft.text /\ DOMAIN draft.files = {} /\ draft.outgoing = None
  BY DEF SendInv, DraftInv, DraftIsOurs
<1>3. ASSUME upload' = upload, active' = active PROVE UploadsGood /\ ActiveGood
  BY <1>3, SameUploads, SameActive DEF UploadsGood
<1>4. CASE Type
  <2>1. /\ draft' \in DraftType /\ draft'.files = draft.files /\ draft'.outgoing = draft.outgoing
        /\ draft'.submitting = draft.submitting /\ draft'.operation = draft.operation
    BY <1>1, <1>4 DEF Type, DraftType
  <2>2. UNCHANGED <<next, task, active, upload, who>> /\ who # Nobody
    BY <1>4 DEF Type
  <2>3. UploadsGood /\ ActiveGood
    BY <1>3, <2>2
  <2>4. QED BY <1>1, <1>2, <2>1, <2>2, <2>3, DraftStep
<1>5. CASE Discard
  <2>1. /\ draft' \in DraftType /\ draft'.files = draft.files /\ draft'.outgoing = None /\ ~draft.submitting
        /\ draft'.submitting = draft.submitting /\ draft'.operation = draft.operation
        /\ draft'.text = draft.text
    BY <1>1, <1>5 DEF Discard, DraftType
  <2>2. UNCHANGED <<next, task, active, upload, who>>
    BY <1>5 DEF Discard
  <2>3. UploadsGood /\ ActiveGood
    BY <1>3, <2>2
  <2>4. QED BY <1>1, <1>2, <2>1, <2>2, <2>3, DraftStep
<1>6. CASE Submit
  <2> DEFINE content == [text |-> draft.text, files |-> draft.files]
  <2>1. /\ content \in Messages /\ content.text = draft.text /\ content.files = draft.files
    BY <1>1 DEF Messages
  <2>2. EmptyDraft.text \in BOOLEAN /\ EmptyDraft.files \in FileMaps /\ DOMAIN EmptyDraft.files = {}
    BY BareIs DEF EmptyDraft
  <2>3. Begin(content, EmptyDraft)
    BY <1>6 DEF Submit
  <2> HIDE DEF content
  <2>4. who # Nobody /\ content # None
    BY <1>2, <2>1, <2>3 DEF Begin, SendingAssumption
  <2>5. Ours(EmptyDraft.files, upload, who) /\ Disjoint(content.files, EmptyDraft.files)
    BY <2>2 DEF Ours, Disjoint
  <2>6. \A o \in Tasks : Running(o) => Disjoint(task[o].files, content.files)
                                         /\ Disjoint(task[o].files, EmptyDraft.files)
    BY <1>1, <2>1, <2>2 DEF Disjoint
  <2>7. QED BY <1>2, <2>1, <2>2, <2>3, <2>4, <2>5, <2>6, BeginStep
<1>7. CASE Retry
  <2>1. draft.outgoing # None /\ Begin(draft.outgoing, draft) /\ ~draft.submitting
    BY <1>7 DEF Retry, Begin
  <2>2. \A o \in Tasks : Running(o) => ~Current(o)
    BY <2>1 DEF SendInv, DraftInv, CurrentIsOutgoing
  <2>3. \A o \in Tasks : Running(o) => Disjoint(task[o].files, draft.outgoing.files)
    BY <2>1, <2>2 DEF SendInv, DraftInv, FilesApart
  <2>4. who # Nobody
    BY <1>2, <2>1
  <2>5. QED BY <1>1, <1>2, <2>1, <2>3, <2>4, BeginStep
<1>8. ASSUME NEW f \in Files, AddFile(f) PROVE SendInv'
  <2> DEFINE m == With(draft.files, f, None)
  <2>1. m \in FileMaps
    BY <1>1, MapsStayMaps
  <2>2. /\ DOMAIN m = DOMAIN draft.files \cup {f} /\ m[f] = None
        /\ \A g \in DOMAIN draft.files : g # f => m[g] = draft.files[g]
    BY DEF With
  <2>3. draft' = [draft EXCEPT !.files = m]
    BY <1>8 DEF AddFile
  <2> HIDE DEF m
  <2>4. /\ draft' \in DraftType /\ draft'.files = m /\ draft'.outgoing = draft.outgoing
        /\ draft'.submitting = draft.submitting /\ draft'.operation = draft.operation
    BY <1>1, <2>1, <2>3 DEF DraftType
  <2>5. UNCHANGED <<next, task, active, upload, who>> /\ who # Nobody
    BY <1>8 DEF AddFile
  <2>6. \A o \in Tasks : Running(o) => Disjoint(task[o].files, m)
    BY <1>1, <1>8, <2>2 DEF AddFile, Disjoint
  <2>7. draft.outgoing # None => Disjoint(draft.outgoing.files, m)
    BY <1>1, <1>8, <2>2 DEF AddFile, Disjoint
  <2>8. Ours(m, upload', who)
    BY <1>2, <2>2, <2>5 DEF Ours
  <2>9. UploadsGood /\ ActiveGood
    BY <1>3, <2>5
  <2>10. QED BY <2>4, <2>5, <2>6, <2>7, <2>8, <2>9, DraftStep
<1>9. ASSUME NEW f \in Files, RemoveFile(f) PROVE SendInv'
  <2> DEFINE m == Without(draft.files, f)
  <2>1. m \in FileMaps /\ DOMAIN m = DOMAIN draft.files \ {f}
    BY <1>1, WithoutIs, MapsStayMaps
  <2>2. \A g \in DOMAIN m : m[g] = draft.files[g]
    BY <2>1, WithoutIs
  <2>3. draft' = [draft EXCEPT !.files = m]
    BY <1>9 DEF RemoveFile
  <2> HIDE DEF m
  <2>4. /\ draft' \in DraftType /\ draft'.files = m /\ draft'.outgoing = draft.outgoing
        /\ draft'.submitting = draft.submitting /\ draft'.operation = draft.operation
        /\ draft'.text = draft.text
    BY <1>1, <2>1, <2>3 DEF DraftType
  <2>5. UNCHANGED <<next, task, who>> /\ UploadsGood
    BY <1>9, CancelGood DEF RemoveFile
  <2>6. ActiveGood
    BY <1>9, <2>5, ActiveWithout DEF RemoveFile, UploadsGood
  <2>7. \A o \in Tasks : Running(o) => Disjoint(task[o].files, m)
    BY <1>1, <2>1 DEF Disjoint
  <2>8. draft.outgoing # None => Disjoint(draft.outgoing.files, m)
    BY <1>1, <2>1 DEF Disjoint
  <2>9. Ours(m, upload', who)
    <3>1. Ours(m, upload, who)
      BY <1>2, <2>1, <2>2 DEF Ours
    <3>2. QED BY <2>1, <2>5, <3>1, OursStay DEF UploadsGood
  <2>10. who = Nobody => ~draft'.text /\ DOMAIN m = {}
    BY <1>2, <2>1, <2>4
  <2>11. QED BY <2>4, <2>5, <2>6, <2>7, <2>8, <2>9, <2>10, DraftStep
<1>10. QED BY <1>4, <1>5, <1>6, <1>7, <1>8, <1>9 DEF Compose

\* Nothing of the composer or the sends changes, only the uploads or what
\* activeUploads says of them.
LEMMA QuietStep ==
    ASSUME SendInv, UNCHANGED <<draft, next, task, who>>, UploadsGood, ActiveGood PROVE SendInv'
<1>1. \A o \in Tasks : (Running(o)' <=> Running(o)) /\ (Current(o)' <=> Current(o))
  BY DEF Running, Current
<1>2. SendTypeOK' /\ Completed' /\ ActiveIsOf'
  BY DEF SendInv, SendTypeOK, UploadsGood, ActiveGood
<1>3. Numbered' /\ CurrentIsOutgoing' /\ FilesApart'
  BY <1>1 DEF SendInv, DraftInv, Numbered, CurrentIsOutgoing, FilesApart
<1>4. DraftIsOurs'
  BY DraftStays DEF UploadsGood
<1>5. TasksInv'
  BY SendsStay DEF SendInv, SendTypeOK, TasksInv, UploadsGood
<1>6. QED BY <1>2, <1>3, <1>4, <1>5 DEF SendInv, DraftInv

LEMMA EmptyIs ==
    /\ EmptyDraft \in DraftType /\ EmptyDraft.operation = 0 /\ EmptyDraft.outgoing = None
    /\ ~EmptyDraft.text /\ DOMAIN EmptyDraft.files = {}
BY BareIs DEF EmptyDraft, DraftType

\* The composer is emptied, by a sign-out or a reload, while the sends go on or
\* end where they are.
LEMMA EmptyStep ==
    ASSUME SendInv, draft' = EmptyDraft, UNCHANGED <<next, upload>>, who' \in People, ActiveGood,
           task' \in [Tasks -> TaskType],
           \A o \in Tasks : /\ task'[o].files = task[o].files /\ (Running(o)' => Running(o))
                            /\ task[o] = Idle => task'[o] = Idle
                            /\ UploadOk(task'[o], upload) /\ CallOk(task'[o], upload)
    PROVE  SendInv'
<1>1. UploadsGood
  BY SameUploads
<1>2. SendTypeOK' /\ Completed' /\ ActiveIsOf'
  BY <1>1, EmptyIs DEF SendInv, SendTypeOK, UploadsGood, ActiveGood
<1>3. \A o \in Tasks : ~Current(o)'
  BY EmptyIs DEF Current, Tasks
<1>4. Numbered'
  BY EmptyIs DEF SendInv, SendTypeOK, DraftInv, Numbered
<1>5. CurrentIsOutgoing'
  BY <1>3 DEF CurrentIsOutgoing
<1>6. FilesApart'
  BY EmptyIs DEF SendInv, DraftInv, FilesApart, Disjoint
<1>7. DraftIsOurs'
  BY EmptyIs DEF DraftIsOurs, Ours
<1>8. TasksInv'
  BY DEF TasksInv
<1>9. QED BY <1>2, <1>4, <1>5, <1>6, <1>7, <1>8 DEF SendInv, DraftInv

LEMMA EnvironmentKeeps ==
    ASSUME SendingAssumption, SendInv, Environment PROVE SendInv'
<1>1. ASSUME upload' = upload, active' = active PROVE UploadsGood /\ ActiveGood
  BY <1>1, SameUploads, SameActive DEF UploadsGood
<1>2. CASE SignOut
  <2>1. draft' = EmptyDraft /\ UNCHANGED <<next, task, active, upload>> /\ who' \in People
    BY <1>2 DEF SignOut, People
  <2>2. ActiveGood
    BY <1>1, <2>1
  <2>3. \A o \in Tasks : Running(o)' => Running(o)
    BY <2>1 DEF Running
  <2>4. QED BY <2>1, <2>2, <2>3, EmptyStep DEF SendInv, SendTypeOK, TasksInv
<1>3. CASE Reload
  <2>1. /\ draft' = EmptyDraft /\ active' = Bare /\ UNCHANGED <<next, upload, who>>
        /\ task' = [op \in Tasks |-> IF Running(op) THEN [task[op] EXCEPT !.step = "done", !.flying = {}]
                                     ELSE task[op]]
    BY <1>3 DEF Reload
  <2>2. ActiveGood
    BY <2>1, BareIs DEF ActiveGood, ActiveTypeOK, ActiveIsOf
  <2>3. ASSUME NEW o \in Tasks
        PROVE  /\ task'[o] \in TaskType /\ task'[o].files = task[o].files /\ ~Running(o)'
               /\ task[o] = Idle => task'[o] = Idle
               /\ UploadOk(task'[o], upload) /\ CallOk(task'[o], upload)
    <3>1. /\ task[o] \in TaskType /\ UploadOk(task[o], upload) /\ CallOk(task[o], upload)
          /\ task[o] = Idle => ~Running(o)
      BY OfSend DEF Running
    <3>2. CASE ~Running(o)
      <4>1. task'[o] = task[o]
        BY <2>1, <3>2
      <4>2. QED BY <3>1, <3>2, <4>1 DEF Running
    <3>3. CASE Running(o)
      <4> DEFINE r == [task[o] EXCEPT !.step = "done", !.flying = {}]
      <4>1. task'[o] = r
        BY <2>1, <3>3
      <4>2. /\ r \in TaskType /\ r.step = "done" /\ r.flying = {} /\ r.files = task[o].files
            /\ r.who = task[o].who /\ r.by = task[o].by /\ r.call = task[o].call
            /\ r.waited = task[o].waited
        BY <3>1 DEF TaskType, Steps
      <4> HIDE DEF r
      <4>3. UploadOk(r, upload) /\ CallOk(r, upload)
        BY <3>1, <4>2 DEF UploadOk, CallOk, KeptOk
      <4>4. QED BY <3>1, <3>3, <4>1, <4>2, <4>3 DEF Running
    <3>4. QED BY <3>2, <3>3
  <2>4. task' \in [Tasks -> TaskType] /\ who' \in People
    BY <2>1, <2>3 DEF SendInv, SendTypeOK
  <2>5. QED BY <2>1, <2>2, <2>3, <2>4, EmptyStep
<1>4. ASSUME NEW a \in Accounts, SignIn(a) PROVE SendInv'
  <2>1. /\ UNCHANGED <<draft, next, task, active, upload>> /\ who' = a /\ who = Nobody
        /\ who' \in People /\ who' # Nobody
    BY <1>4 DEF SignIn, People, SendingAssumption
  <2>2. ~draft.text /\ DOMAIN draft.files = {} /\ draft.outgoing = None
    BY <2>1 DEF SendInv, DraftInv, DraftIsOurs
  <2>3. \A o \in Tasks : (Running(o)' <=> Running(o)) /\ (Current(o)' <=> Current(o))
    BY <2>1 DEF Running, Current
  <2>4. \A o \in Tasks : ~(Running(o) /\ Current(o))
    BY <2>2 DEF SendInv, DraftInv, CurrentIsOutgoing
  <2>5. UploadsGood /\ ActiveGood
    BY <1>1, <2>1
  <2>6. SendTypeOK' /\ Completed' /\ ActiveIsOf'
    BY <2>1, <2>5 DEF SendInv, SendTypeOK, UploadsGood, ActiveGood
  <2>7. Numbered' /\ FilesApart'
    BY <2>1, <2>3 DEF SendInv, DraftInv, Numbered, FilesApart
  <2>8. CurrentIsOutgoing'
    BY <2>3, <2>4 DEF CurrentIsOutgoing
  <2>9. DraftIsOurs'
    BY <2>1, <2>2 DEF DraftIsOurs, Ours
  <2>10. TasksInv'
    BY <2>1 DEF SendInv, TasksInv
  <2>11. QED BY <2>6, <2>7, <2>8, <2>9, <2>10 DEF SendInv, DraftInv
<1>5. CASE SocketChanges
  <2>1. UNCHANGED <<draft, next, task, active, upload, who>>
    BY <1>5 DEF SocketChanges
  <2>2. UploadsGood /\ ActiveGood
    BY <1>1, <2>1
  <2>3. QED BY <2>1, <2>2, QuietStep
<1>6. ASSUME NEW u \in Uploads, SessionEnds(u) PROVE SendInv'
  <2> DEFINE r == [upload[u] EXCEPT !.expired = TRUE]
  <2>1. upload[u] \in UploadType
    BY DEF SendInv, SendTypeOK, UploadTypeOK
  <2>2. /\ r \in UploadType /\ r.state = upload[u].state /\ r.owner = upload[u].owner
        /\ r.file = upload[u].file /\ r.object = upload[u].object /\ r.parts = upload[u].parts
    BY <2>1 DEF UploadType
  <2>3. upload' = [upload EXCEPT ![u] = r] /\ UNCHANGED <<draft, next, task, active, who>>
    BY <1>6 DEF SessionEnds
  <2> HIDE DEF r
  <2>4. UploadsGood
    BY <2>2, <2>3, OneUpload DEF SendInv, Completed
  <2>5. ActiveGood
    BY <2>3, <2>4, SameActive DEF UploadsGood
  <2>6. QED BY <2>3, <2>4, <2>5, QuietStep
<1>7. ASSUME NEW u \in Uploads, Sweep(u) PROVE SendInv'
  <2>1. UploadsGood /\ UNCHANGED <<draft, next, task, active, who>>
    BY <1>7, GoneGood DEF Sweep
  <2>2. ActiveGood
    BY <2>1, SameActive DEF UploadsGood
  <2>3. QED BY <2>1, <2>2, QuietStep
<1>8. ASSUME NEW f \in Files, ClientExpires(f) PROVE SendInv'
  <2> DEFINE v == [active[f] EXCEPT !.expired = TRUE]
  <2>1. /\ f \in DOMAIN active /\ active' = [active EXCEPT ![f] = v]
        /\ UNCHANGED <<draft, next, task, upload, who>>
    BY <1>8 DEF ClientExpires
  <2>2. active[f] \in ActiveType
    BY <2>1 DEF SendInv, SendTypeOK, ActiveTypeOK
  <2>3. v \in ActiveType /\ v.upload = active[f].upload
    BY <2>2 DEF ActiveType
  <2> HIDE DEF v
  <2>4. UploadsGood
    BY <2>1, SameUploads
  <2>5. ActiveGood
    BY <2>1, <2>3, <2>4, ActiveMarked DEF UploadsGood
  <2>6. QED BY <2>1, <2>4, <2>5, QuietStep
<1>9. QED BY <1>2, <1>3, <1>4, <1>5, <1>6, <1>7, <1>8 DEF Environment

----------------------------------------------------------------------------
(* The theorems *)

LEMMA StepInv ==
    ASSUME SendingAssumption PROVE SendInv /\ [Next]_sVars => SendInv'
<1> SUFFICES ASSUME SendInv, [Next]_sVars PROVE SendInv'
  OBVIOUS
<1>1. CASE UNCHANGED sVars
  <2>1. UNCHANGED <<draft, next, task, active, upload, who>>
    BY <1>1 DEF sVars
  <2>2. UploadsGood
    BY <2>1, SameUploads
  <2>3. ActiveGood
    BY <2>1, <2>2, SameActive DEF UploadsGood
  <2>4. QED BY <2>1, <2>2, <2>3, QuietStep
<1>2. QED
  BY <1>1, ComposeKeeps, EnvironmentKeeps, UploadStepKeeps, PartStepKeeps, ConfirmStepKeeps, CallStepKeeps
  DEF Next

LEMMA InvAlways == ASSUME SendingAssumption PROVE Spec => []SendInv
<1>1. SendInv /\ [Next]_sVars => SendInv'
  BY StepInv
<1>2. QED BY InitInv, <1>1, PTL DEF Spec

\* submitComposer.ts, uploads.ts: after any failures, retries, reloads and
\* sessions that ended, a message that goes out names only attachments the
\* registry has confirmed, and a large one's object was completed from all its
\* parts.
THEOREM SentAlwaysStored == ASSUME SendingAssumption PROVE Spec => []SentIsStored
<1>1. SendInv => SentIsStored
  <2> SUFFICES ASSUME SendInv, NEW op \in Tasks, task[op].call # "none", NEW f \in DOMAIN task[op].files
               PROVE  /\ task[op].files[f] # None
                      /\ upload[task[op].files[f]].state = "confirmed"
                      /\ f \in Large => upload[task[op].files[f]].parts = Parts
    BY DEF SentIsStored
  <2> DEFINE u == task[op].files[f]
  <2>1. u # None /\ upload[u].state = "confirmed" /\ upload[u].file = f
    BY OfSend DEF CallOk, KeptOk, Attached
  <2>2. u \in Uploads
    BY <2>1, OfSend, FileMapIs DEF TaskType
  <2>3. QED BY <2>1, <2>2 DEF SendInv, Completed
<1>2. QED BY <1>1, InvAlways, PTL

\* submitComposer.ts, composerStore.ts, connection.ts: a send that did not have
\* to wait for a connection goes out in the name of the account that wrote it,
\* with that account's attachments, whoever has signed in since.
THEOREM WriterAlwaysSends == ASSUME SendingAssumption PROVE Spec => []SentByItsWriter
<1>1. SendInv => SentByItsWriter
  BY DEF SendInv, TasksInv, CallOk, SentByItsWriter
<1>2. QED BY <1>1, InvAlways, PTL

\* uploads.ts: no two sends, of whatever attempt, ever write parts of one upload.
THEOREM WriterAlwaysAlone == ASSUME SendingAssumption PROVE Spec => []OneWriterPerUpload
<1>1. SendInv => OneWriterPerUpload
  <2> SUFFICES ASSUME SendInv, NEW o1 \in Tasks, NEW o2 \in Tasks, o1 # o2, Writing(o1), Writing(o2),
                      task[o1].upload = task[o2].upload
               PROVE  FALSE
    BY DEF OneWriterPerUpload
  <2>1. \A o \in {o1, o2} : /\ Running(o) /\ task[o].file \in DOMAIN task[o].files
                            /\ upload[task[o].upload].file = task[o].file
    BY OfSend DEF Writing, UploadOk
  <2>2. task[o1].file = task[o2].file
    BY <2>1
  <2>3. Disjoint(task[o1].files, task[o2].files)
    BY <2>1 DEF SendInv, DraftInv, FilesApart
  <2>4. QED BY <2>1, <2>2, <2>3 DEF Disjoint
<1>2. QED BY <1>1, InvAlways, PTL

-----------------------------------------------------------------------------
(* Paging through a conversation *)

\* A set of numbers has a least one.
LEMMA LeastOf ==
  ASSUME NEW S \in SUBSET Nat, S # {}
  PROVE  Oldest(S) \in S /\ \A y \in S : Oldest(S) <= y
<1> DEFINE R == {ss \in Nat \X Nat : ss[1] < ss[2]}
<1>1. IsWellFoundedOn(R, Nat) BY NatLessThanWellFounded DEF OpToRel
<1>2. PICK x \in S : \A y \in S : ~(<<y, x>> \in R) BY <1>1, WFMin
<1>3. \A y \in S : ~(y < x) BY <1>2
<1>4. \A y \in S : x <= y BY <1>3
<1> QED BY <1>4 DEF Oldest

TheWindow == Newest(Rows, Window)
Fetched == DOMAIN older

HistoryTypeOK ==
  /\ time \in Seq(Nat \ {0}) /\ Rows \subseteq Sent
  /\ \A m, n \in Sent : m <= n => time[m] <= time[n]
  /\ shown = [m \in DOMAIN shown |-> shown[m]]
  /\ Fetched \subseteq Sent /\ DOMAIN cache \subseteq Sent /\ DOMAIN shown \subseteq Sent

\* What is fetched lies below the cache and the window; what is shown is fetched, or
\* above all that is fetched; and without a page it reaches down to the window that it
\* was built from.
Layers ==
  /\ Fetched \subseteq DOMAIN shown
  /\ \A n \in Fetched, s \in DOMAIN cache \cup TheWindow \cup (DOMAIN shown \ Fetched) : n < s
  /\ \A S \in {DOMAIN cache} \cup (IF Fetched = {} THEN {DOMAIN shown} ELSE {}) :
       S # {} => \E r \in S : \A s \in DOMAIN cache \cup TheWindow : r <= s

\* A page is asked for from the oldest message fetched, or from below the window.
CursorOK ==
  request > 0 =>
    /\ \E m \in Sent : time[m] = request
    /\ \A s \in DOMAIN cache \cup TheWindow \cup DOMAIN shown : request <= time[s]
    /\ Fetched # {} => \E n \in Fetched : time[n] = request

HistoryInv ==
  /\ HistoryTypeOK /\ request \in Int
  /\ Rows = Sent => Layers /\ CursorOK /\ FetchedIsContiguous

\* The rows that are there are finitely many numbers.
LEMMA SentIsFinite ==
  ASSUME time \in Seq(Nat \ {0}), NEW S, S \subseteq Sent
  PROVE IsFiniteSet(S) /\ S \subseteq Nat /\ Len(time) \in Nat
<1>1. Len(time) \in Nat OBVIOUS
<1>2. IsFiniteSet(1..Len(time)) BY <1>1, FS_Interval
<1>3. S \subseteq 1..Len(time) BY DEF Sent
<1>4. IsFiniteSet(S) BY <1>2, <1>3, FS_Subset
<1>5. S \subseteq Nat BY <1>1, <1>3
<1> QED BY <1>1, <1>4, <1>5

\* The newest of some rows are closed upwards, and fewer where there are more rows.
LEMMA NewestIsAbove ==
  ASSUME NEW R, IsFiniteSet(R), R \subseteq Nat, NEW take \in Nat, NEW n \in Newest(R, take),
         NEW m \in R, n < m
  PROVE  m \in Newest(R, take)
<1> DEFINE A == {k \in R : k > m}
           B == {k \in R : k > n}
<1>0. n \in Nat /\ m \in Nat BY DEF Newest
<1>1. A \subseteq B
  <2> SUFFICES ASSUME NEW k \in A PROVE k > n OBVIOUS
  <2>1. k \in Nat /\ k > m OBVIOUS
  <2> HIDE DEF A
  <2> QED BY <1>0, <2>1
<1>2. IsFiniteSet(B) /\ IsFiniteSet(A) BY FS_Subset
<1>3. Cardinality(A) <= Cardinality(B) /\ Cardinality(A) \in Nat /\ Cardinality(B) \in Nat
  BY <1>1, <1>2, FS_Subset, FS_CardinalityType
<1>4. Cardinality(B) < take BY DEF Newest
<1> HIDE DEF B
<1>5. Cardinality(A) < take BY <1>3, <1>4
<1> QED BY <1>5 DEF Newest

LEMMA NewestShrinks ==
  ASSUME NEW R, NEW T, IsFiniteSet(T), T \subseteq Nat, R \subseteq T, NEW take \in Nat,
         NEW n \in Newest(T, take), n \in R
  PROVE  n \in Newest(R, take)
<1> DEFINE A == {k \in R : k > n}
           B == {k \in T : k > n}
<1>1. A \subseteq B OBVIOUS
<1>2. IsFiniteSet(B) /\ IsFiniteSet(A) BY FS_Subset
<1>3. Cardinality(A) <= Cardinality(B) /\ Cardinality(A) \in Nat /\ Cardinality(B) \in Nat
  BY <1>1, <1>2, FS_Subset, FS_CardinalityType
<1>4. Cardinality(B) < take BY DEF Newest
<1> HIDE DEF B
<1>5. Cardinality(A) < take BY <1>3, <1>4
<1> QED BY <1>5 DEF Newest

LEMMA NewestIsPart == ASSUME NEW R, NEW take PROVE Newest(R, take) \subseteq R
BY DEF Newest

LEMMA ViewIsWindow == DOMAIN View \in {TheWindow, {}}
BY DEF View, MyDirectMessages, MyChannelMessages, OnlyOf, Empty, TheWindow

LEMMA PageIsBelow ==
  ASSUME NEW before
  PROVE  DOMAIN Page(before) \in {Newest({m \in Rows : time[m] < before}, PageSize), {}}
BY DEF Page, OlderDirectMessages, OlderChannelMessages, OlderThan, OnlyOf, Empty

LEMMA MergeIsUnion ==
  ASSUME NEW f, NEW g
  PROVE  /\ DOMAIN Merge(f, g) = DOMAIN f \cup DOMAIN g
         /\ Merge(f, g) = [m \in DOMAIN Merge(f, g) |-> Merge(f, g)[m]]
BY DEF Merge

\* The rows are as they were, and so are the cache, the store and the request.
LEMMA SameRows ==
  ASSUME HistoryInv, Rows' = Rows, UNCHANGED <<time, cache, older, shown, request>>
  PROVE HistoryInv'
<1>1. TheWindow' = TheWindow /\ Sent' = Sent BY DEF TheWindow, Sent, Newest
<1>2. HistoryTypeOK' BY <1>1 DEF HistoryInv, HistoryTypeOK, Fetched
<1>3. Layers => Layers' BY <1>1 DEF Layers, Fetched
<1>4. CursorOK => CursorOK' BY <1>1 DEF CursorOK, Fetched
<1>5. FetchedIsContiguous => FetchedIsContiguous' BY <1>1 DEF FetchedIsContiguous
<1> QED BY <1>1, <1>2, <1>3, <1>4, <1>5 DEF HistoryInv

LEMMA HistoryInitOK == HistoryInit => HistoryInv
<1> SUFFICES ASSUME HistoryInit PROVE HistoryInv
  OBVIOUS
<1>1. time = <<>> /\ Sent = {} /\ Rows = {} /\ DOMAIN shown = {} /\ DOMAIN older = {} /\ DOMAIN cache = {}
      /\ request = 0 /\ shown = [m \in DOMAIN shown |-> shown[m]]
  BY DEF HistoryInit, Empty, Sent, Rows, NoRequest
<1>2. TheWindow = {} BY <1>1, NewestIsPart DEF TheWindow
<1>3. HistoryTypeOK BY <1>1 DEF HistoryTypeOK, Fetched
<1>4. Layers /\ CursorOK /\ FetchedIsContiguous
  BY <1>1, <1>2 DEF Layers, Fetched, CursorOK, FetchedIsContiguous
<1> QED BY <1>1, <1>3, <1>4 DEF HistoryInv

\* The facts about the rows that the steps below keep needing.
LEMMA RowFacts ==
  ASSUME HistoryInv
  PROVE  /\ HistoryTypeOK /\ request \in Int
         /\ Len(time) \in Nat /\ Sent \subseteq Nat /\ IsFiniteSet(Rows)
         /\ TheWindow \subseteq Rows /\ DOMAIN View \subseteq TheWindow
         /\ \A m \in Sent : time[m] \in Nat \ {0}
BY SentIsFinite, NewestIsPart, ViewIsWindow DEF HistoryInv, HistoryTypeOK, TheWindow, Sent

LEMMA NewMessageHistory == ASSUME HistoryInv, NewMessage PROVE HistoryInv'
<1> DEFINE L == Len(time)
<1>0. HistoryTypeOK /\ L \in Nat /\ Sent = 1..L /\ TheWindow \subseteq Rows
  BY RowFacts DEF Sent
<1>1. PICK t \in {Now, Now + 1} : time' = Append(time, t)
  BY DEF NewMessage
<1>2. t \in Nat \ {0} /\ \A m \in Sent : time[m] <= t
  <2>1. CASE time = <<>>
    BY <1>0, <2>1 DEF Now, Sent
  <2>2. CASE time # <<>>
    <3>1. L \in Sent BY <1>0, <2>2 DEF HistoryTypeOK
    <3>2. time[L] \in Nat \ {0} /\ t \in {time[L], time[L] + 1}
      BY <1>0, <1>1, <2>2, <3>1 DEF Now, HistoryTypeOK
    <3>3. \A m \in Sent : time[m] \in Nat /\ time[m] <= time[L]
      BY <1>0, <3>1 DEF HistoryTypeOK
    <3> QED BY <3>2, <3>3
  <2> QED BY <2>1, <2>2
<1>3. /\ time' \in Seq(Nat \ {0}) /\ Sent' = Sent \cup {L + 1} /\ L + 1 \notin Sent
      /\ \A m \in Sent : time'[m] = time[m]
      /\ time'[L + 1] = t
  <2>1. Len(time') = L + 1 BY <1>0, <1>1, <1>2 DEF HistoryTypeOK
  <2> QED BY <1>0, <1>1, <1>2, <2>1 DEF HistoryTypeOK, Sent
<1>4. /\ Rows' = Rows \cup {L + 1}
      /\ UNCHANGED <<cache, older, shown, request>>
  BY DEF NewMessage, Rows, client
<1>5. \A m \in Sent : m < L + 1 /\ m \in Nat BY <1>0
<1>6. HistoryTypeOK'
  <2>1. \A m, n \in Sent' : m <= n => time'[m] <= time'[n]
    <3> SUFFICES ASSUME NEW m \in Sent', NEW n \in Sent', m <= n PROVE time'[m] <= time'[n]
      OBVIOUS
    <3>1. CASE n = L + 1 BY <1>0, <1>2, <1>3, <3>1 DEF HistoryTypeOK
    <3>2. CASE n \in Sent
      <4>1. m \in Sent BY <1>0, <1>3, <3>2
      <4> QED BY <1>0, <1>3, <3>2, <4>1 DEF HistoryTypeOK
    <3> QED BY <1>3, <3>1, <3>2
  <2> QED BY <1>0, <1>3, <1>4, <2>1 DEF HistoryTypeOK, Fetched
<1>14. (request \in Int)' BY <1>4 DEF HistoryInv
<1> SUFFICES ASSUME Rows' = Sent' PROVE (Layers /\ CursorOK /\ FetchedIsContiguous)'
  BY <1>6, <1>14 DEF HistoryInv
<1>7. Rows = Sent BY <1>0, <1>3, <1>4 DEF HistoryTypeOK
<1>8. Layers /\ CursorOK /\ FetchedIsContiguous BY <1>7 DEF HistoryInv
<1>9. TheWindow' \subseteq TheWindow \cup {L + 1}
  <2> SUFFICES ASSUME NEW n \in TheWindow', n # L + 1 PROVE n \in TheWindow
    OBVIOUS
  <2>1. TheWindow' = Newest(Rows', Window) BY DEF TheWindow, Newest
  <2>2. n \in Rows' /\ n \in Rows BY <1>4, <2>1, NewestIsPart
  <2>3. IsFiniteSet(Rows') /\ Rows' \subseteq Nat
    <3>1. IsFiniteSet(Rows) /\ Rows \subseteq Nat BY <1>0, RowFacts DEF HistoryTypeOK
    <3>2. IsFiniteSet(Rows \cup {L + 1}) BY <3>1, FS_AddElement
    <3>3. L + 1 \in Nat BY <1>0
    <3> HIDE DEF L
    <3> QED BY <1>4, <3>1, <3>2, <3>3
  <2> HIDE DEF L
  <2>4. Rows \subseteq Rows' BY <1>4
  <2>5. n \in Newest(Rows, Window)
    BY <2>1, <2>2, <2>3, <2>4, NewestShrinks, HistoryAssumption
  <2> QED BY <2>5 DEF TheWindow
<1>10. Layers'
  <2> DEFINE top == L + 1
  <2>1. \A m \in Sent : m < top /\ m <= top BY <1>0, <1>5
  <2> HIDE DEF top
  <2>2. TheWindow' \subseteq TheWindow \cup {top} BY <1>9 DEF top
  <2>3. Fetched' = Fetched /\ Fetched \subseteq Sent /\ DOMAIN cache \subseteq Sent /\ DOMAIN shown \subseteq Sent
    BY <1>0, <1>4 DEF Fetched, HistoryTypeOK
  <2>4. \A n \in Fetched, s \in DOMAIN cache \cup TheWindow' \cup (DOMAIN shown \ Fetched) : n < s
    BY <1>8, <2>1, <2>2, <2>3 DEF Layers
  <2>5. \A S \in {DOMAIN cache} \cup (IF Fetched = {} THEN {DOMAIN shown} ELSE {}) :
          S # {} => \E r \in S : \A s \in DOMAIN cache \cup TheWindow' : r <= s
    <3> SUFFICES ASSUME NEW S \in {DOMAIN cache} \cup (IF Fetched = {} THEN {DOMAIN shown} ELSE {}), S # {}
                 PROVE  \E r \in S : \A s \in DOMAIN cache \cup TheWindow' : r <= s
      OBVIOUS
    <3>1. PICK r \in S : \A s \in DOMAIN cache \cup TheWindow : r <= s BY <1>8 DEF Layers
    <3>2. r \in Sent BY <2>3
    <3> QED BY <2>1, <2>2, <3>1, <3>2
  <2>6. Fetched' \subseteq DOMAIN shown' BY <1>4, <1>8, <2>3 DEF Layers
  <2> QED BY <1>4, <2>3, <2>4, <2>5, <2>6 DEF Layers
<1>11. CursorOK'
  <2> SUFFICES ASSUME request' > 0 PROVE CursorOK'
    BY DEF CursorOK
  <2>1. PICK m \in Sent : time[m] = request BY <1>4, <1>8 DEF CursorOK
  <2>2. request <= t BY <1>2, <2>1
  <2>3. \A s \in (DOMAIN cache \cup TheWindow \cup DOMAIN shown)' : request <= time'[s]
    BY <1>0, <1>3, <1>4, <1>7, <1>8, <1>9, <2>2 DEF CursorOK, HistoryTypeOK
  <2>4. \E k \in Sent' : time'[k] = request BY <1>3, <2>1
  <2>5. Fetched' = Fetched /\ Fetched \subseteq Sent BY <1>0, <1>4 DEF Fetched, HistoryTypeOK
  <2>6. Fetched' # {} => \E n \in Fetched' : time'[n] = request
    BY <1>3, <1>4, <1>8, <2>5 DEF CursorOK
  <2> QED BY <1>4, <2>3, <2>4, <2>6 DEF CursorOK
<1>12. FetchedIsContiguous'
  <2>1. DOMAIN older \subseteq Sent BY <1>0 DEF HistoryTypeOK, Fetched
  <2>2. \A m \in Rows : m \in Sent /\ time'[m] = time[m] BY <1>3, <1>7
  <2>3. \A n \in DOMAIN older : n < L + 1 /\ time'[n] = time[n] BY <1>3, <1>5, <2>1
  <2> QED BY <1>4, <1>7, <1>8, <2>2, <2>3 DEF FetchedIsContiguous
<1> QED BY <1>10, <1>11, <1>12

\* A row that goes leaves nothing to be claimed.
LEMMA RemoveHistory == ASSUME HistoryInv, NEW m, Remove(m) PROVE HistoryInv'
<1>1. /\ m \in Rows /\ Rows' = Rows \ {m} /\ Sent' = Sent
      /\ UNCHANGED <<time, cache, older, shown, request>>
  BY DEF Remove, Rows, OnlyOf, Sent, client
<1>2. HistoryTypeOK' BY <1>1 DEF HistoryInv, HistoryTypeOK, Fetched
<1>3. Rows' # Sent' BY <1>1 DEF HistoryInv, HistoryTypeOK
<1> QED BY <1>1, <1>2, <1>3 DEF HistoryInv

\* A change and a change of access touch no number.
LEMMA ChangeHistory == ASSUME HistoryInv, NEW m, Change(m) \/ AccessChanges PROVE HistoryInv'
BY SameRows DEF Change, AccessChanges, Rows, client

\* The updates of the subscription: the cache is the window.
LEMMA DeliverHistory == ASSUME HistoryInv, Deliver PROVE HistoryInv'
<1>0. HistoryTypeOK /\ Sent \subseteq Nat /\ TheWindow \subseteq Rows /\ DOMAIN View \subseteq TheWindow
  BY RowFacts
<1>1. /\ UNCHANGED <<time, row, older, shown, request>> /\ cache' = View
      /\ Rows' = Rows /\ Sent' = Sent /\ TheWindow' = TheWindow /\ Fetched' = Fetched
  BY DEF Deliver, server, Rows, Sent, TheWindow, Newest, Fetched
<1>2. HistoryTypeOK' BY <1>0, <1>1 DEF HistoryTypeOK
<1> SUFFICES ASSUME Rows = Sent PROVE (Layers /\ CursorOK /\ FetchedIsContiguous)'
  BY <1>1, <1>2 DEF HistoryInv
<1>3. Layers /\ CursorOK /\ FetchedIsContiguous BY DEF HistoryInv
<1>4. FetchedIsContiguous' BY <1>1, <1>3 DEF FetchedIsContiguous
<1>5. CursorOK' BY <1>0, <1>1, <1>3 DEF CursorOK
<1>6. DOMAIN View # {} => \E r \in DOMAIN View : \A s \in DOMAIN View \cup TheWindow : r <= s
  BY <1>0, LeastOf, ViewIsWindow DEF HistoryTypeOK
<1>7. Layers' BY <1>0, <1>1, <1>3, <1>6 DEF Layers
<1> QED BY <1>4, <1>5, <1>7

\* The rebuild of the store: what is shown is what was fetched, and the cache.
LEMMA FlushHistory == ASSUME HistoryInv, Flush PROVE HistoryInv'
<1>0. HistoryTypeOK BY RowFacts
<1>1. /\ UNCHANGED <<time, row, cache, older, request>>
      /\ Rows' = Rows /\ Sent' = Sent /\ TheWindow' = TheWindow /\ Fetched' = Fetched
      /\ DOMAIN shown' = Fetched \cup DOMAIN cache /\ shown' = [m \in DOMAIN shown' |-> shown'[m]]
  BY MergeIsUnion DEF Flush, server, Rows, Sent, TheWindow, Newest, Fetched
<1>2. HistoryTypeOK' BY <1>0, <1>1 DEF HistoryTypeOK
<1> SUFFICES ASSUME Rows = Sent PROVE (Layers /\ CursorOK /\ FetchedIsContiguous)'
  BY <1>1, <1>2 DEF HistoryInv
<1>3. Layers /\ CursorOK /\ FetchedIsContiguous BY DEF HistoryInv
<1>4. FetchedIsContiguous' BY <1>1, <1>3 DEF FetchedIsContiguous
<1>5. CursorOK' BY <1>1, <1>3 DEF CursorOK, Layers
<1>6. Layers' BY <1>1, <1>3 DEF Layers
<1> QED BY <1>4, <1>5, <1>6

\* The subscription is applied again.
LEMMA ConnectHistory == ASSUME HistoryInv, Connect PROVE HistoryInv'
<1>0. HistoryTypeOK /\ Sent \subseteq Nat /\ TheWindow \subseteq Rows /\ DOMAIN View \subseteq TheWindow
  BY RowFacts
<1>1. /\ UNCHANGED <<time, row, older, request>> /\ cache' = View
      /\ Rows' = Rows /\ Sent' = Sent /\ TheWindow' = TheWindow /\ Fetched' = Fetched
      /\ DOMAIN shown' = Fetched \cup DOMAIN View /\ shown' = [m \in DOMAIN shown' |-> shown'[m]]
  BY MergeIsUnion DEF Connect, server, Rows, Sent, TheWindow, Newest, Fetched
<1>2. HistoryTypeOK' BY <1>0, <1>1 DEF HistoryTypeOK
<1> SUFFICES ASSUME Rows = Sent PROVE (Layers /\ CursorOK /\ FetchedIsContiguous)'
  BY <1>1, <1>2 DEF HistoryInv
<1>3. Layers /\ CursorOK /\ FetchedIsContiguous BY DEF HistoryInv
<1>4. FetchedIsContiguous' BY <1>1, <1>3 DEF FetchedIsContiguous
<1>5. CursorOK' BY <1>0, <1>1, <1>3 DEF CursorOK, Layers
<1>6. DOMAIN View # {} => \E r \in DOMAIN View : \A s \in DOMAIN View \cup TheWindow : r <= s
  BY <1>0, LeastOf, ViewIsWindow DEF HistoryTypeOK
<1>7. Layers' BY <1>0, <1>1, <1>3, <1>6 DEF Layers
<1> QED BY <1>4, <1>5, <1>7

\* A page is asked for from the oldest message shown.
LEMMA LoadOlderHistory == ASSUME HistoryInv, LoadOlder PROVE HistoryInv'
<1>0. /\ HistoryTypeOK /\ Sent \subseteq Nat /\ TheWindow \subseteq Rows
      /\ \A m \in Sent : time[m] \in Nat \ {0}
  BY RowFacts
<1>1. /\ UNCHANGED <<time, row, cache, older, shown>> /\ request' = time[Oldest(DOMAIN shown)]
      /\ Rows' = Rows /\ Sent' = Sent /\ TheWindow' = TheWindow /\ Fetched' = Fetched
      /\ shown # Empty
  BY DEF LoadOlder, server, Rows, Sent, TheWindow, Newest, Fetched
<1>2. HistoryTypeOK' BY <1>0, <1>1 DEF HistoryTypeOK
<1> DEFINE o == Oldest(DOMAIN shown)
<1>3. o \in DOMAIN shown /\ o \in Sent /\ \A s \in DOMAIN shown : o <= s
  <2>1. DOMAIN shown # {} BY <1>0, <1>1 DEF HistoryTypeOK, Empty
  <2> QED BY <1>0, <2>1, LeastOf DEF HistoryTypeOK
<1> HIDE DEF o
<1>4. request' = time[o] BY <1>1 DEF o
<1>4a. request' \in Int
  <2>1. time[o] \in Nat BY <1>0, <1>3
  <2> QED BY <1>4, <2>1
<1> SUFFICES ASSUME Rows = Sent PROVE (Layers /\ CursorOK /\ FetchedIsContiguous)'
  BY <1>1, <1>2, <1>4a DEF HistoryInv
<1>5. Layers /\ CursorOK /\ FetchedIsContiguous BY DEF HistoryInv
<1>6. FetchedIsContiguous' /\ Layers' BY <1>1, <1>5 DEF FetchedIsContiguous, Layers
<1>7. \A s \in DOMAIN cache \cup TheWindow \cup DOMAIN shown : s \in Sent /\ o <= s
  <2>1. DOMAIN cache \cup TheWindow \cup DOMAIN shown \subseteq Sent BY <1>0 DEF HistoryTypeOK
  <2> SUFFICES ASSUME NEW s \in DOMAIN cache \cup TheWindow PROVE o <= s
    BY <1>3, <2>1
  <2>2. CASE Fetched = {}
    <3>1. DOMAIN shown # {} BY <1>3
    <3>2. PICK r \in DOMAIN shown : r <= s BY <1>5, <2>2, <3>1 DEF Layers
    <3>3. r \in Nat /\ s \in Nat /\ o \in Nat BY <1>0, <1>3, <2>1
    <3> QED BY <1>3, <3>2, <3>3
  <2>3. CASE Fetched # {}
    <3>1. PICK n \in Fetched : TRUE BY <2>3
    <3>2. n < s /\ o <= n BY <1>3, <1>5, <3>1 DEF Layers
    <3>3. n \in Nat /\ s \in Nat /\ o \in Nat BY <1>0, <1>3, <2>1, <3>1 DEF HistoryTypeOK
    <3> QED BY <3>2, <3>3
  <2> QED BY <2>2, <2>3
<1>8. \A s \in DOMAIN cache \cup TheWindow \cup DOMAIN shown : request' <= time[s]
  BY <1>0, <1>3, <1>4, <1>7 DEF HistoryTypeOK
<1>9. Fetched # {} => o \in Fetched
  <2> SUFFICES ASSUME NEW n \in Fetched, o \notin Fetched PROVE FALSE
    OBVIOUS
  <2>1. n < o /\ o <= n BY <1>3, <1>5 DEF Layers
  <2>2. n \in Nat /\ o \in Nat BY <1>0, <1>3 DEF HistoryTypeOK
  <2> QED BY <2>1, <2>2
<1>10. CursorOK' BY <1>1, <1>3, <1>4, <1>8, <1>9 DEF CursorOK
<1> QED BY <1>6, <1>10

\* The page: all of it lies below the request, and nothing that the server has between
\* its oldest message and the request is missing from it.
LEMMA PageHistory == ASSUME HistoryInv, PageArrives PROVE HistoryInv'
<1>0. /\ HistoryTypeOK /\ Sent \subseteq Nat /\ TheWindow \subseteq Rows /\ DOMAIN View \subseteq TheWindow
      /\ IsFiniteSet(Rows) /\ \A m \in Sent : time[m] \in Nat \ {0}
  BY RowFacts
<1> DEFINE P == DOMAIN Page(request)
           B == {m \in Rows : time[m] < request}
<1>1. /\ UNCHANGED <<time, row>> /\ cache' = View /\ request > 0 /\ request' = 0
      /\ Rows' = Rows /\ Sent' = Sent /\ TheWindow' = TheWindow /\ Fetched' = Fetched \cup P
      /\ DOMAIN shown' = Fetched \cup P \cup DOMAIN shown
      /\ shown' = [m \in DOMAIN shown' |-> shown'[m]]
  <2>1. PICK pages : pages = older' OBVIOUS
  <2>2. pages = Merge(older, Page(request)) /\ shown' = Merge(pages, shown)
    BY <2>1 DEF PageArrives
  <2>3. DOMAIN pages = Fetched \cup P /\ DOMAIN shown' = DOMAIN pages \cup DOMAIN shown
        /\ shown' = [m \in DOMAIN shown' |-> shown'[m]]
    <3>1. DOMAIN Merge(pages, shown) = DOMAIN pages \cup DOMAIN shown
          /\ Merge(pages, shown) = [m \in DOMAIN Merge(pages, shown) |-> Merge(pages, shown)[m]]
      BY MergeIsUnion
    <3>2. DOMAIN pages = Fetched \cup P BY <2>2, MergeIsUnion DEF Fetched
    <3> QED BY <2>2, <3>1, <3>2
  <2>4. Fetched' = DOMAIN pages BY <2>1 DEF Fetched
  <2> QED
    BY <2>3, <2>4 DEF PageArrives, NoRequest, server, Rows, Sent, TheWindow, Newest
<1>2. P \subseteq B /\ P \in {Newest(B, PageSize), {}}
  BY PageIsBelow, NewestIsPart
<1> HIDE DEF P
<1>3. HistoryTypeOK' BY <1>0, <1>1, <1>2 DEF HistoryTypeOK
<1> SUFFICES ASSUME Rows = Sent PROVE (Layers /\ CursorOK /\ FetchedIsContiguous)'
  BY <1>1, <1>3 DEF HistoryInv
<1>4. Layers /\ CursorOK /\ FetchedIsContiguous /\ request \in Int BY DEF HistoryInv
<1>5. \A p \in B, s \in Sent : request <= time[s] => p < s
  <2> SUFFICES ASSUME NEW p \in B, NEW s \in Sent, request <= time[s] PROVE p < s
    OBVIOUS
  <2>1. p \in Sent /\ p \in Nat /\ s \in Nat /\ time[p] \in Nat /\ time[s] \in Nat /\ time[p] < request
    BY <1>0
  <2>2. s <= p => time[s] <= time[p] BY <1>0, <2>1 DEF HistoryTypeOK
  <2> QED BY <1>4, <2>1, <2>2
<1>6. \A s \in DOMAIN cache \cup TheWindow \cup DOMAIN shown : s \in Sent /\ request <= time[s]
  BY <1>0, <1>1, <1>4 DEF HistoryTypeOK, CursorOK
<1>7. \A p \in P, s \in DOMAIN cache \cup TheWindow \cup DOMAIN shown : p < s
  BY <1>2, <1>5, <1>6
<1>8. DOMAIN View # {} => \E r \in DOMAIN View : \A s \in DOMAIN View \cup TheWindow : r <= s
  BY <1>0, LeastOf, ViewIsWindow DEF HistoryTypeOK
<1>9. Layers'
  <2>1. \A n \in Fetched \cup P, s \in TheWindow \cup (DOMAIN shown \ Fetched) : n < s
    BY <1>4, <1>7 DEF Layers
  <2>2. \A n \in Fetched \cup P, s \in DOMAIN View \cup TheWindow \cup (DOMAIN shown' \ (Fetched \cup P)) : n < s
    BY <1>0, <1>1, <2>1
  <2>3. Fetched \cup P = {} =>
          (DOMAIN shown # {} => \E r \in DOMAIN shown : \A s \in DOMAIN View \cup TheWindow : r <= s)
    BY <1>0, <1>4 DEF Layers
  <2>4. Fetched \cup P = {} => DOMAIN shown' = DOMAIN shown BY <1>1
  <2> QED BY <1>1, <1>8, <2>2, <2>3, <2>4 DEF Layers
<1>10. FetchedIsContiguous'
  <2> SUFFICES ASSUME NEW m \in Rows, m \notin Fetched \cup P
               PROVE  \/ \A n \in Fetched \cup P : n < m
                      \/ \A n \in Fetched \cup P : n > m
                      \/ \E n \in Fetched \cup P : time[n] = time[m]
    BY <1>1 DEF FetchedIsContiguous, Fetched
  <2>1. m \in Sent /\ m \in Nat /\ time[m] \in Nat BY <1>0
  <2>2. P \subseteq Nat /\ Fetched \subseteq Nat BY <1>0, <1>2 DEF HistoryTypeOK
  <2>3. CASE time[m] < request
    <3>1. m \in B BY <2>3
    <3>2. \A p \in P : p > m
      <4> SUFFICES ASSUME NEW p \in P, p < m PROVE FALSE
        BY <2>1, <2>2
      <4>1. p \in Newest(B, PageSize) /\ P = Newest(B, PageSize) BY <1>2
      <4>2. IsFiniteSet(B) /\ B \subseteq Nat BY <1>0, FS_Subset DEF HistoryTypeOK
      <4> HIDE DEF B
      <4>3. m \in P BY <3>1, <4>1, <4>2, NewestIsAbove, HistoryAssumption
      <4> QED BY <4>3
    <3>3. \A n \in Fetched : n > m
      <4> SUFFICES ASSUME NEW n \in Fetched PROVE n > m
        OBVIOUS
      <4>1. n \in Sent /\ request <= time[n] BY <1>4, <1>6 DEF Layers
      <4>2. m < n BY <1>5, <3>1, <4>1
      <4> QED BY <2>1, <2>2, <4>2
    <3> QED BY <3>2, <3>3
  <2>4. CASE request <= time[m]
    <3>1. \A p \in P : p < m BY <1>2, <1>5, <2>1, <2>4
    <3>2. \/ \A n \in Fetched : n < m
          \/ \A n \in Fetched : n > m
          \/ \E n \in Fetched : time[n] = time[m]
      BY <1>4 DEF FetchedIsContiguous, Fetched
    <3>3. CASE Fetched # {} /\ \A n \in Fetched : n > m
      <4>1. PICK n \in Fetched : time[n] = request BY <1>1, <1>4, <3>3 DEF CursorOK
      <4>2. n \in Sent /\ n > m /\ n \in Nat BY <1>0, <3>3 DEF HistoryTypeOK
      <4>3. time[m] <= time[n] BY <1>0, <2>1, <4>2 DEF HistoryTypeOK
      <4>4. time[n] = time[m] BY <1>4, <2>1, <2>4, <4>1, <4>3
      <4> QED BY <4>4
    <3> QED BY <3>1, <3>2, <3>3
  <2> QED BY <1>4, <2>1, <2>3, <2>4
<1>11. CursorOK' BY <1>1 DEF CursorOK
<1> QED BY <1>9, <1>10, <1>11

\* A failure, a drop and a sign-out only forget.
LEMMA ForgetHistory ==
  ASSUME HistoryInv, RequestFails \/ Drop \/ SignsOut
  PROVE  HistoryInv'
<1>0. HistoryTypeOK /\ request \in Int BY RowFacts
<1>1. /\ UNCHANGED <<time, row>>
      /\ Rows' = Rows /\ Sent' = Sent /\ TheWindow' = TheWindow
      /\ request' \in {request, 0, -1}
      /\ cache' = cache \/ DOMAIN cache' = {}
      /\ \/ UNCHANGED <<older, shown>>
         \/ DOMAIN older' = {} /\ DOMAIN shown' = {} /\ shown' = Empty /\ DOMAIN cache' = {}
  BY DEF RequestFails, Drop, SignsOut, NoRequest, Lost, server, Rows, Sent, TheWindow, Newest, Empty
<1>2. HistoryTypeOK'
  <2>1. Empty = [m \in DOMAIN Empty |-> Empty[m]] BY DEF Empty
  <2> QED BY <1>0, <1>1, <2>1 DEF HistoryTypeOK, Fetched
<1> SUFFICES ASSUME Rows = Sent PROVE (Layers /\ CursorOK /\ FetchedIsContiguous)'
  BY <1>0, <1>1, <1>2 DEF HistoryInv
<1>3. Layers /\ CursorOK /\ FetchedIsContiguous BY DEF HistoryInv
<1>4. FetchedIsContiguous' BY <1>1, <1>3 DEF FetchedIsContiguous
<1>5. CursorOK' BY <1>1, <1>3 DEF CursorOK, Fetched
<1>6. Layers' BY <1>1, <1>3 DEF Layers, Fetched
<1> QED BY <1>4, <1>5, <1>6

LEMMA HistoryStep == HistoryInv /\ [HistoryNext]_hVars => HistoryInv'
<1> SUFFICES ASSUME HistoryInv, [HistoryNext]_hVars PROVE HistoryInv'
  OBVIOUS
<1>1. CASE NewMessage BY <1>1, NewMessageHistory
<1>2. ASSUME NEW m, Change(m) \/ AccessChanges PROVE HistoryInv' BY <1>2, ChangeHistory
<1>3. ASSUME NEW m, Remove(m) PROVE HistoryInv' BY <1>3, RemoveHistory
<1>4. CASE Deliver BY <1>4, DeliverHistory
<1>5. CASE Flush BY <1>5, FlushHistory
<1>6. CASE LoadOlder BY <1>6, LoadOlderHistory
<1>7. CASE PageArrives BY <1>7, PageHistory
<1>8. CASE RequestFails \/ Drop \/ SignsOut BY <1>8, ForgetHistory
<1>9. CASE Connect BY <1>9, ConnectHistory
<1>10. CASE UNCHANGED hVars BY <1>10, SameRows DEF hVars, server, client, Rows
<1> QED BY <1>1, <1>2, <1>3, <1>4, <1>5, <1>6, <1>7, <1>8, <1>9, <1>10 DEF HistoryNext

\* FetchedIsContiguous for every window, page size and number of messages: scrolling
\* up leaves no hole among the pages, whatever arrives, fails or reconnects meanwhile
\* (history.ts, sync.ts).
THEOREM PagesLeaveNoHole == HistorySpec => []FetchedIsContiguous
<1>1. HistoryInv => FetchedIsContiguous BY DEF HistoryInv, FetchedIsContiguous
<1> QED BY <1>1, HistoryInitOK, HistoryStep, PTL DEF HistorySpec

=============================================================================
