--------------------------- MODULE WebmailProofs ---------------------------
(***************************************************************************)
(* What holds of the webmail application for any number of drafts, files,  *)
(* contacts, filters, messages, mailboxes, accounts, items to import,      *)
(* clicks and requests: of the compose form, the address book, the         *)
(* settings, the mailbox on screen, the session and the import dialog, and *)
(* so of the application.                                                  *)
(***************************************************************************)
EXTENDS MCWebmail, Integers, FiniteSetTheorems, TLAPS

-----------------------------------------------------------------------------
(* The compose form and the drafts. *)

(* The form, the rows of drafts in the list and on the server, the files, *)
(* what was sent, and the handlers under way.                             *)
FormT == [open : BOOLEAN, text : Texts, html : Texts, draft : Base \cup {Absent}, atts : SUBSET FileIds, later : BOOLEAN]
EntryT == [ver : Nat, text : Texts, trash : BOOLEAN] \cup {Absent}
RowT == [ver : Nat, text : Texts] \cup {Absent}
FileStates == {"none", "stored", "linked", "deleted"}
SentT == [text : Texts, html : Texts, atts : SUBSET FileIds, later : BOOLEAN]
JobOps == {"send", "save", "create", "upload", "remove", "delete"}
(* The awaits of a handler, in the order it may reach them. *)
JobSteps == {"go", "track", "post", "row", "reload"}
JobT == [op : JobOps, at : JobSteps, text : Texts, html : Texts, draft : Base \cup {Absent},
         file : FileIds \cup {Absent}, atts : SUBSET FileIds, later : BOOLEAN]
MaybeBase == Base \cup {Absent}
Edits == 0..MaxEdits

(* The type invariant, over the named sets. *)
ComposeTyped ==
  /\ form \in FormT /\ status \in Statuses /\ canSeal \in BOOLEAN /\ pane \in MaybeBase
  /\ entries \in [DraftIds -> EntryT] /\ rows \in [DraftIds -> RowT]
  /\ files \in [FileIds -> FileStates] /\ dropped \subseteq FileIds
  /\ outbox \subseteq SentT /\ jobs \subseteq JobT
  /\ texts \in Texts /\ edits \in Edits

(* A handler that saves or deletes has a draft, one that uploads or *)
(* removes has a file.                                              *)
JobsNamed == \A j \in jobs : /\ j.op \in {"save", "delete"} => j.draft \in Base
                             /\ j.op \in {"upload", "remove"} => j.file \in FileIds

(* A copy of a draft is of a row there is, was made from version 1 or a *)
(* later one, is not ahead of the server unless the row is deleted      *)
(* (version 0), and has the row's text when it has its version.         *)
DraftGood(r, id, ver, base) ==
  /\ r[id] # Absent /\ ver >= 1
  /\ r[id].ver = 0 \/ ver <= r[id].ver
  /\ r[id].ver = ver => base = r[id].text
(* Every copy is so: the one in the reading pane, the one in the form, *)
(* those of the list and those the handlers under way carry.           *)
CopiesGood ==
  /\ pane # Absent => DraftGood(rows, pane.id, pane.ver, pane.base)
  /\ form.draft # Absent => DraftGood(rows, form.draft.id, form.draft.ver, form.draft.base)
  /\ \A d \in DraftIds : entries[d] # Absent => DraftGood(rows, d, entries[d].ver, entries[d].text)
  /\ \A j \in jobs : j.op \in {"save", "delete"} => DraftGood(rows, j.draft.id, j.draft.ver, j.draft.base)
(* A file being uploaded is not on the server yet and is uploaded once. *)
UploadsFresh ==
  \A j \in jobs : j.op = "upload" =>
    /\ files[j.file] = "none"
    /\ \A k \in jobs : k.op = "upload" /\ k.file = j.file => k = j
(* A file that was removed has no row; one a message took is linked, so it *)
(* is in no removal that succeeds.                                         *)
FilesGood ==
  /\ \A f \in dropped : files[f] = "deleted"
  /\ \A m \in outbox : \A f \in m.atts : files[f] = "linked"
(* The inductive invariant of the compose form and the drafts. *)
ComposeInv == ComposeTyped /\ JobsNamed /\ CopiesGood /\ UploadsFresh /\ FilesGood

(* The parts of the state of the compose form, by field. *)
LEMMA ComposeFields ==
  ASSUME ComposeTyped
  PROVE  /\ form.open \in BOOLEAN /\ form.text \in Texts /\ form.html \in Texts /\ form.draft \in MaybeBase
         /\ form.atts \subseteq FileIds /\ form.later \in BOOLEAN
         /\ \A j \in jobs : /\ j.op \in JobOps /\ j.at \in JobSteps
                            /\ j.text \in Texts /\ j.html \in Texts /\ j.draft \in MaybeBase
                            /\ j.file \in FileIds \cup {Absent}
                            /\ j.atts \subseteq FileIds /\ j.later \in BOOLEAN
         /\ \A d \in DraftIds : entries[d] # Absent =>
              entries[d].ver \in Nat /\ entries[d].text \in Texts /\ entries[d].trash \in BOOLEAN
         /\ \A d \in DraftIds : rows[d] # Absent => rows[d].ver \in Nat /\ rows[d].text \in Texts
BY DEF ComposeTyped, FormT, EntryT, RowT, JobT, MaybeBase

(* The empty form edits no draft. *)
LEMMA EmptyFormTyped == EmptyForm \in FormT /\ EmptyForm.draft = Absent
BY ComposeAssumption DEF EmptyForm, FormT, Texts

(* What a handler waits with. *)
LEMMA NoJobTyped == NoJob \in JobT /\ NoJob.op = "send"
BY ComposeAssumption DEF NoJob, JobT, JobOps, JobSteps, Texts

(* Texts are numbers. *)
LEMMA TextsNat == \A t \in Texts : t \in Nat
BY ComposeAssumption DEF Texts

(* The count of what the user does stays within its bound. *)
LEMMA EditCounted ==
  ASSUME edits \in Edits, Edit
  PROVE  edits' \in Edits
BY ComposeAssumption DEF Edit, Edits

(* The first draft is good. *)
LEMMA ComposeInitInv == ComposeInit => ComposeInv
<1> SUFFICES ASSUME ComposeInit PROVE ComposeInv
  OBVIOUS
<1>1. 1 \in Texts /\ 1 \in Nat /\ 0 \in Edits /\ [ver |-> 1, text |-> 1] # Absent
  BY ComposeAssumption DEF Texts, Edits
<1>2. ComposeTyped
  <2>1. entries \in [DraftIds -> EntryT] /\ rows \in [DraftIds -> RowT]
    BY <1>1 DEF ComposeInit, EntryT, RowT
  <2>2. files \in [FileIds -> FileStates] /\ status \in Statuses
    BY DEF ComposeInit, FileStates, Statuses
  <2>3. form \in FormT /\ canSeal \in BOOLEAN /\ pane \in MaybeBase
    BY EmptyFormTyped DEF ComposeInit, MaybeBase
  <2>4. dropped \subseteq FileIds /\ outbox \subseteq SentT /\ jobs \subseteq JobT
        /\ texts \in Texts /\ edits \in Edits
    BY <1>1 DEF ComposeInit
  <2> QED BY <2>1, <2>2, <2>3, <2>4 DEF ComposeTyped
<1>3. CopiesGood
  <2> DEFINE first == CHOOSE d \in DraftIds : TRUE
  <2>1. entries = [d \in DraftIds |-> IF d = first THEN [ver |-> 1, text |-> 1, trash |-> FALSE] ELSE Absent]
        /\ rows = [d \in DraftIds |-> IF d = first THEN [ver |-> 1, text |-> 1] ELSE Absent]
        /\ form.draft = Absent /\ pane = Absent /\ jobs = {}
    BY EmptyFormTyped DEF ComposeInit
  <2> HIDE DEF first
  <2>2. ASSUME NEW d \in DraftIds, entries[d] # Absent PROVE DraftGood(rows, d, entries[d].ver,
               entries[d].text)
    BY <1>1, <2>1, <2>2 DEF DraftGood
  <2> QED BY <2>1, <2>2 DEF CopiesGood
<1> QED BY <1>2, <1>3 DEF ComposeInit, ComposeInv, JobsNamed, UploadsFresh, FilesGood

(* A copy stays good when the server's drafts stay, or when one of them    *)
(* gets a new version or is deleted.                                       *)
LEMMA DraftGoodKept ==
  ASSUME ComposeTyped, NEW d \in DraftIds,
         \A e \in DraftIds \ {d} : rows'[e] = rows[e],
         rows'[d] # rows[d] =>
           \/ rows[d] = Absent
           \/ /\ rows'[d] # Absent /\ rows'[d].ver \in Nat
              /\ rows'[d].ver = 0 \/ (rows[d].ver > 0 /\ rows'[d].ver > rows[d].ver),
         NEW id \in DraftIds, NEW ver \in Nat, NEW base, DraftGood(rows, id, ver, base)
  PROVE  DraftGood(rows', id, ver, base)
<1>1. CASE rows'[id] = rows[id]
  BY <1>1 DEF DraftGood
<1>2. CASE rows'[id] # rows[id]
  <2>1. id = d /\ rows[d] # Absent /\ rows[d].ver \in Nat
    BY <1>2, ComposeFields DEF DraftGood
  <2> QED BY <1>2, <2>1 DEF DraftGood
<1> QED BY <1>1, <1>2

(* The copies stay good when those that change are copies of others or of  *)
(* the server's drafts.                                                    *)
LEMMA CopiesStay ==
  ASSUME ComposeTyped, JobsNamed, CopiesGood,
         \A id \in DraftIds : \A ver \in Nat : \A base : DraftGood(rows, id, ver, base) => DraftGood(rows', id, ver, base),
         pane' # Absent => (pane' = pane \/ DraftGood(rows', pane'.id, pane'.ver, pane'.base)),
         form'.draft # Absent =>
            (form'.draft \in {form.draft, pane} \/ DraftGood(rows', form'.draft.id, form'.draft.ver, form'.draft.base)),
         \A d \in DraftIds : entries'[d] # Absent =>
            ((entries[d] # Absent /\ entries'[d].ver = entries[d].ver /\ entries'[d].text = entries[d].text)
             \/ DraftGood(rows', d, entries'[d].ver, entries'[d].text)),
         \A j \in jobs' : j.op \in {"save", "delete"} =>
            ((\E k \in jobs : k.op \in {"save", "delete"} /\ k.draft = j.draft)
             \/ DraftGood(rows', j.draft.id, j.draft.ver, j.draft.base))
  PROVE  CopiesGood'
<1>0. ASSUME NEW x \in Base, DraftGood(rows, x.id, x.ver, x.base)
      PROVE  DraftGood(rows', x.id, x.ver, x.base)
  BY <1>0 DEF Base
<1>1. pane # Absent => DraftGood(rows', pane.id, pane.ver, pane.base)
  BY <1>0 DEF CopiesGood, ComposeTyped, MaybeBase
<1>2. form.draft # Absent => DraftGood(rows', form.draft.id, form.draft.ver, form.draft.base)
  BY <1>0, ComposeFields DEF CopiesGood, MaybeBase
<1>4. ASSUME NEW d \in DraftIds, entries'[d] # Absent PROVE DraftGood(rows', d, entries'[d].ver,
             entries'[d].text)
  BY <1>4, ComposeFields DEF CopiesGood
<1>5. ASSUME NEW j \in jobs', j.op \in {"save", "delete"}
      PROVE  DraftGood(rows', j.draft.id, j.draft.ver, j.draft.base)
  <2>1. CASE \E k \in jobs : k.op \in {"save", "delete"} /\ k.draft = j.draft
    <3>1. PICK k \in jobs : k.op \in {"save", "delete"} /\ k.draft = j.draft
      BY <2>1
    <3>2. k.draft \in Base /\ DraftGood(rows, k.draft.id, k.draft.ver, k.draft.base)
      BY <3>1 DEF CopiesGood, JobsNamed
    <3> QED BY <1>0, <3>1, <3>2
  <2> QED BY <1>5, <2>1
<1> QED BY <1>1, <1>2, <1>4, <1>5 DEF CopiesGood

(* A step of the form alone. *)
LEMMA FormOnlyStep ==
  ASSUME ComposeInv, form' \in FormT, status' \in Statuses, texts' \in Texts, edits' \in Edits,
         form'.draft # Absent => form'.draft \in {form.draft, pane},
         UNCHANGED jobs, OnlyForm
  PROVE  ComposeInv'
<1>1. ComposeTyped'
  BY DEF ComposeInv, ComposeTyped, OnlyForm
<1>2. CopiesGood'
  <2>1. UNCHANGED <<rows, pane, entries, jobs>> /\ CopiesGood /\ ComposeTyped /\ JobsNamed
    BY DEF OnlyForm, ComposeInv
  <2> QED BY <2>1, CopiesStay
<1> QED BY <1>1, <1>2 DEF ComposeInv, OnlyForm, JobsNamed, UploadsFresh, FilesGood

(* A handler begins to wait. *)
LEMMA JobBegins ==
  ASSUME ComposeInv, NEW j \in JobT, jobs' = jobs \cup {j},
         j.op \in {"save", "delete"} => j.draft \in Base /\ DraftGood(rows, j.draft.id, j.draft.ver, j.draft.base),
         j.op \in {"upload", "remove"} => j.file \in FileIds,
         j.op = "upload" => files[j.file] = "none" /\ \A k \in jobs : k.file # j.file,
         status' \in Statuses, edits' \in Edits, UNCHANGED <<form, texts>>, OnlyForm
  PROVE  ComposeInv'
<1>1. ComposeTyped'
  BY DEF ComposeInv, ComposeTyped, OnlyForm
<1>2. CopiesGood'
  <2>1. UNCHANGED <<rows, pane, entries, form>> /\ CopiesGood /\ ComposeTyped /\ JobsNamed
    BY DEF OnlyForm, ComposeInv
  <2>2. \A k \in jobs' : k.op \in {"save", "delete"} =>
          ((\E i \in jobs : i.op \in {"save", "delete"} /\ i.draft = k.draft)
           \/ DraftGood(rows', k.draft.id, k.draft.ver, k.draft.base))
    BY <2>1
  <2> QED BY <2>1, <2>2, CopiesStay
<1>3. JobsNamed'
  BY DEF ComposeInv, JobsNamed
<1>4. UploadsFresh'
  BY DEF ComposeInv, UploadsFresh, OnlyForm
<1> QED BY <1>1, <1>2, <1>3, <1>4 DEF ComposeInv, OnlyForm, FilesGood

(* The handlers that start nothing. *)
LEMMA FormOnlyActions ==
  ASSUME ComposeInv,
         \/ OpenCompose \/ TypeText \/ PickSchedule \/ QuoteMessage
         \/ startEditDraft \/ CloseDrawer
  PROVE  ComposeInv'
<1> USE DEF ComposeInv
<1>0. /\ form \in FormT /\ form.text \in Texts /\ form.html \in Texts /\ form.later \in BOOLEAN /\ form.open \in BOOLEAN
      /\ form.draft \in MaybeBase /\ pane \in MaybeBase /\ status \in Statuses /\ texts \in Texts
      /\ edits \in Edits /\ Absent \in MaybeBase
  BY ComposeFields DEF ComposeTyped, MaybeBase
<1>1. CASE OpenCompose
  <2>1. form' = [form EXCEPT !.open = TRUE, !.atts = {}, !.draft = Absent]
        /\ UNCHANGED <<status, jobs, texts>> /\ OnlyForm /\ edits' \in Edits
    BY <1>0, <1>1, EditCounted DEF OpenCompose
  <2>2. form' \in FormT /\ form'.draft = Absent
    BY <1>0, <2>1 DEF FormT, MaybeBase
  <2> QED BY <1>0, <2>1, <2>2, FormOnlyStep
<1>2. CASE TypeText
  <2>1. form' = [form EXCEPT !.text = texts + 1, !.html = texts + 1] /\ texts' = texts + 1 /\ texts + 1 \in Texts
        /\ UNCHANGED <<status, jobs>> /\ OnlyForm /\ edits' \in Edits
    BY <1>0, <1>2, ComposeAssumption, EditCounted DEF TypeText, Texts
  <2>2. form' \in FormT /\ form'.draft = form.draft
    BY <1>0, <2>1 DEF FormT, MaybeBase
  <2> QED BY <1>0, <2>1, <2>2, FormOnlyStep
<1>3. CASE PickSchedule
  <2>1. form' = [form EXCEPT !.later = ~form.later]
        /\ UNCHANGED <<status, jobs, texts>> /\ OnlyForm /\ edits' \in Edits
    BY <1>0, <1>3, EditCounted DEF PickSchedule
  <2>2. form' \in FormT /\ form'.draft = form.draft
    BY <1>0, <2>1 DEF FormT, MaybeBase
  <2> QED BY <1>0, <2>1, <2>2, FormOnlyStep
<1>4. CASE QuoteMessage
  <2>1. form' = [EmptyForm EXCEPT !.open = TRUE, !.text = texts + 1, !.html = form.html] /\ texts' = texts + 1
        /\ texts + 1 \in Texts
        /\ UNCHANGED <<status, jobs>> /\ OnlyForm /\ edits' \in Edits
    BY <1>0, <1>4, ComposeAssumption, EditCounted DEF QuoteMessage, Texts
  <2>2. form' \in FormT /\ form'.draft = Absent
    BY <1>0, <2>1, EmptyFormTyped DEF FormT, MaybeBase
  <2> QED BY <1>0, <2>1, <2>2, FormOnlyStep
<1>5. CASE startEditDraft
  <2>1. form' = [EmptyForm EXCEPT !.open = TRUE, !.text = pane.base, !.html = form.html, !.draft = pane]
        /\ UNCHANGED <<status, jobs, texts>> /\ OnlyForm /\ edits' \in Edits /\ pane.base \in Texts
    BY <1>0, <1>5, EditCounted DEF startEditDraft, MaybeBase, Base
  <2>2. form' \in FormT /\ form'.draft = pane
    BY <1>0, <2>1, EmptyFormTyped DEF FormT, MaybeBase
  <2> QED BY <1>0, <2>1, <2>2, FormOnlyStep
<1>6. CASE CloseDrawer
  <2>1. form' = [EmptyForm EXCEPT !.open = FALSE] /\ status' = ""
        /\ UNCHANGED <<jobs, texts>> /\ OnlyForm /\ edits' \in Edits
    BY <1>0, <1>6, EditCounted DEF CloseDrawer, clearComposeForm
  <2>2. form' \in FormT /\ form'.draft = Absent /\ status' \in Statuses
    BY <1>0, <2>1, EmptyFormTyped DEF Statuses, FormT, MaybeBase
  <2> QED BY <1>0, <2>1, <2>2, FormOnlyStep
<1> QED BY <1>1, <1>2, <1>3, <1>4, <1>5, <1>6

(* The handlers that send a request. *)
LEMMA JobActions ==
  ASSUME ComposeInv,
         \/ handleSend \/ handleSaveDraft \/ handleDeleteMessage
         \/ \E f \in FileIds : handleAttachmentSelected(f) \/ removeComposeAttachment(f)
  PROVE  ComposeInv'
<1>0. /\ form \in FormT /\ form.text \in Texts /\ form.draft \in MaybeBase /\ pane \in MaybeBase
      /\ status \in Statuses /\ "busy" \in Statuses /\ "" \in Statuses
      /\ edits \in Edits /\ CopiesGood
  BY ComposeFields DEF ComposeInv, ComposeTyped, Statuses
<1>1. CASE handleSend
  <2> DEFINE j == [NoJob EXCEPT !.text = form.text]
  <2>1. j \in JobT /\ j.op = "send"
    BY <1>0, NoJobTyped DEF JobT
  <2>2. jobs' = jobs \cup {j} /\ status' = "busy" /\ UNCHANGED <<form,
                                                                 texts>> /\ OnlyForm /\ edits' \in Edits
    BY <1>0, <1>1, EditCounted DEF handleSend, StartJob
  <2> HIDE DEF j
  <2> QED BY <1>0, <2>1, <2>2, JobBegins
<1>2. CASE handleSaveDraft
  <2>0. edits' \in Edits /\ UNCHANGED <<form, texts>> /\ OnlyForm
    BY <1>0, <1>2, EditCounted DEF handleSaveDraft
  <2>1. CASE canSeal
    <3> DEFINE o == IF form.draft = Absent THEN "create" ELSE "save"
    <3> DEFINE j == [NoJob EXCEPT !.op = o, !.text = form.text, !.draft = form.draft]
    <3>1. o \in JobOps /\ (o = "save" => form.draft \in Base) /\ o \notin {"delete", "upload",
            "remove"}
          /\ (o = "save" => form.draft # Absent)
      BY <1>0 DEF JobOps, MaybeBase
    <3>2. jobs' = jobs \cup {j} /\ status' = "busy"
      BY <1>2, <2>1 DEF handleSaveDraft, StartJob
    <3> HIDE DEF o
    <3>3. j \in JobT /\ j.op = o /\ j.draft = form.draft
      BY <1>0, <3>1, NoJobTyped DEF JobT, MaybeBase
    <3>4. o = "save" => DraftGood(rows, form.draft.id, form.draft.ver, form.draft.base)
      BY <1>0, <3>1 DEF CopiesGood
    <3> HIDE DEF j
    <3> QED BY <1>0, <2>0, <3>1, <3>2, <3>3, <3>4, JobBegins
  <2>2. CASE ~canSeal
    <3>1. status' = "" /\ UNCHANGED jobs
      BY <1>2, <2>2 DEF handleSaveDraft
    <3> QED BY <1>0, <2>0, <3>1, FormOnlyStep DEF ComposeInv, ComposeTyped
  <2> QED BY <2>1, <2>2
<1>3. CASE handleDeleteMessage
  <2> DEFINE j == [NoJob EXCEPT !.op = "delete", !.draft = pane]
  <2>1. j \in JobT /\ j.op = "delete" /\ j.draft = pane
    BY <1>0, NoJobTyped DEF JobT, JobOps, MaybeBase
  <2>2. jobs' = jobs \cup {j} /\ UNCHANGED <<form, status, texts>> /\ OnlyForm /\ edits' \in Edits
        /\ pane # Absent
    BY <1>0, <1>3, EditCounted DEF handleDeleteMessage, StartJob
  <2>3. pane \in Base /\ DraftGood(rows, pane.id, pane.ver, pane.base)
    BY <1>0, <2>2 DEF CopiesGood, MaybeBase
  <2> HIDE DEF j
  <2> QED BY <1>0, <2>1, <2>2, <2>3, JobBegins
<1>4. ASSUME NEW f \in FileIds, handleAttachmentSelected(f) PROVE ComposeInv'
  <2>0. edits' \in Edits /\ UNCHANGED <<form, texts>> /\ OnlyForm
    BY <1>0, <1>4, EditCounted DEF handleAttachmentSelected
  <2> DEFINE j == [NoJob EXCEPT !.op = "upload", !.file = f]
  <2>1. \/ jobs' = jobs \cup {j} /\ status' = "busy" /\ files[f] = "none" /\ \A k \in jobs : k.file # f
        \/ status' \in {status, ""} /\ UNCHANGED jobs
    BY <1>4 DEF handleAttachmentSelected, StartJob
  <2>2. j \in JobT /\ j.op = "upload" /\ j.file = f
    BY NoJobTyped DEF JobT, JobOps
  <2> HIDE DEF j
  <2>3. CASE status' \in {status, ""} /\ UNCHANGED jobs
    BY <1>0, <2>0, <2>3, FormOnlyStep DEF ComposeInv, ComposeTyped
  <2> QED BY <1>0, <2>0, <2>1, <2>2, <2>3, JobBegins
<1>5. ASSUME NEW f \in FileIds, removeComposeAttachment(f) PROVE ComposeInv'
  <2> DEFINE j == [NoJob EXCEPT !.op = "remove", !.file = f]
  <2>1. j \in JobT /\ j.op = "remove" /\ j.file = f
    BY NoJobTyped DEF JobT, JobOps
  <2>2. jobs' = jobs \cup {j} /\ UNCHANGED <<form, status, texts>> /\ OnlyForm /\ edits' \in Edits
    BY <1>0, <1>5, EditCounted DEF removeComposeAttachment, StartJob
  <2> HIDE DEF j
  <2> QED BY <1>0, <2>1, <2>2, JobBegins
<1> QED BY <1>1, <1>2, <1>3, <1>4, <1>5

(* The other handlers leave the requests named. *)
LEMMA JobsStayNamed ==
  ASSUME ComposeInv, NEW j \in jobs,
         \A k \in jobs' : k \in jobs \/ (k.op = j.op /\ k.draft = j.draft /\ k.file = j.file),
         \A k \in jobs' : k.op = "upload" => k \in jobs /\ files'[k.file] = files[k.file]
  PROVE  JobsNamed' /\ UploadsFresh'
<1>1. JobsNamed'
  BY DEF ComposeInv, JobsNamed
<1>2. UploadsFresh'
  BY DEF ComposeInv, UploadsFresh
<1> QED BY <1>1, <1>2

(* What loading the mailbox puts into the list. *)
LEMMA ReloadedGood ==
  ASSUME ComposeInv, Reloaded, UNCHANGED rows
  PROVE  /\ entries' \in [DraftIds -> EntryT]
         /\ \A d \in DraftIds : entries'[d] # Absent => DraftGood(rows', d, entries'[d].ver, entries'[d].text)
<1>1. ComposeTyped
  BY DEF ComposeInv
<1>2. ASSUME NEW d \in DraftIds
      PROVE  /\ entries'[d] \in EntryT
             /\ entries'[d] # Absent => DraftGood(rows', d, entries'[d].ver, entries'[d].text)
  <2>1. CASE ~Stored(d)
    BY <2>1 DEF Reloaded, EntryT
  <2>2. CASE Stored(d)
    <3>1. entries'[d] = [ver |-> rows[d].ver, text |-> rows[d].text, trash |-> FALSE]
      BY <2>2 DEF Reloaded
    <3>2. rows[d] # Absent /\ rows[d].ver \in Nat /\ rows[d].text \in Texts /\ rows[d].ver > 0
      BY <1>1, <2>2, ComposeFields DEF Stored
    <3> QED BY <3>1, <3>2 DEF EntryT, DraftGood
  <2> QED BY <2>1, <2>2
<1>3. entries' = [d \in DraftIds |-> entries'[d]]
  BY DEF Reloaded
<1> QED BY <1>2, <1>3

(* Opening a draft, loading, signing out and in, and what another device saves. *)
LEMMA OtherActions ==
  ASSUME ComposeInv,
         \/ Refresh \/ SignOut \/ SignInAgain
         \/ \E d \in DraftIds : OpenDraft(d) \/ OtherDevice(d)
  PROVE  ComposeInv'
<1>0. /\ ComposeTyped /\ CopiesGood /\ JobsNamed /\ UploadsFresh /\ FilesGood
      /\ edits \in Edits /\ Absent \in MaybeBase
  BY DEF ComposeInv, ComposeTyped, MaybeBase
<1>1. CASE Refresh
  <2>1. edits' \in Edits /\ Reloaded
        /\ UNCHANGED <<form, status, canSeal, pane, rows, files, dropped, outbox, jobs, texts>>
    BY <1>0, <1>1, EditCounted DEF Refresh
  <2>2. entries' \in [DraftIds -> EntryT]
        /\ \A d \in DraftIds : entries'[d] # Absent => DraftGood(rows', d, entries'[d].ver, entries'[d].text)
    BY <2>1, ReloadedGood
  <2>3. ComposeTyped'
    BY <1>0, <2>1, <2>2 DEF ComposeTyped
  <2>4. CopiesGood'
    BY <1>0, <2>1, <2>2, CopiesStay
  <2> QED BY <1>0, <2>1, <2>3, <2>4 DEF ComposeInv, JobsNamed, UploadsFresh, FilesGood
<1>2. CASE SignOut
  <2>1. edits' \in Edits /\ canSeal' = FALSE /\ pane' = Absent /\ form' = [EmptyForm EXCEPT !.open = FALSE]
        /\ entries' = [d \in DraftIds |-> Absent]
        /\ UNCHANGED <<status, rows, files, dropped, outbox, jobs, texts>>
    BY <1>0, <1>2, EditCounted DEF SignOut, clearComposeForm
  <2>2. form' \in FormT /\ form'.draft = Absent
    BY <2>1, EmptyFormTyped DEF FormT
  <2>3. entries' \in [DraftIds -> EntryT] /\ \A d \in DraftIds : entries'[d] = Absent
    BY <2>1 DEF EntryT
  <2>4. ComposeTyped'
    <3>1. canSeal' \in BOOLEAN
      BY <2>1
    <3> QED BY <1>0, <2>1, <2>2, <2>3, <3>1 DEF ComposeTyped
  <2>5. CopiesGood'
    BY <1>0, <2>1, <2>2, <2>3, CopiesStay
  <2> QED BY <1>0, <2>1, <2>4, <2>5 DEF ComposeInv, JobsNamed, UploadsFresh, FilesGood
<1>3. CASE SignInAgain
  <2>1. edits' \in Edits /\ Reloaded /\ canSeal' \in BOOLEAN
        /\ UNCHANGED <<form, status, pane, rows, files, dropped, outbox, jobs, texts>>
    BY <1>0, <1>3, EditCounted DEF SignInAgain
  <2>2. entries' \in [DraftIds -> EntryT]
        /\ \A d \in DraftIds : entries'[d] # Absent => DraftGood(rows', d, entries'[d].ver, entries'[d].text)
    BY <2>1, ReloadedGood
  <2>3. ComposeTyped'
    BY <1>0, <2>1, <2>2 DEF ComposeTyped
  <2>4. CopiesGood'
    BY <1>0, <2>1, <2>2, CopiesStay
  <2> QED BY <1>0, <2>1, <2>3, <2>4 DEF ComposeInv, JobsNamed, UploadsFresh, FilesGood
<1>4. ASSUME NEW d \in DraftIds, OpenDraft(d) PROVE ComposeInv'
  <2>1. edits' \in Edits /\ entries[d] # Absent
        /\ pane' = [id |-> d, ver |-> entries[d].ver, base |-> entries[d].text]
        /\ UNCHANGED <<form, status, canSeal, entries, rows, files, dropped, outbox, jobs, texts>>
    BY <1>0, <1>4, EditCounted DEF OpenDraft
  <2>2. pane' \in MaybeBase /\ DraftGood(rows', pane'.id, pane'.ver, pane'.base)
    <3>1. entries[d].ver \in Nat /\ entries[d].text \in Texts /\ DraftGood(rows, d, entries[d].ver, entries[d].text)
      BY <1>0, <2>1, ComposeFields DEF CopiesGood
    <3> QED BY <2>1, <3>1 DEF MaybeBase, Base
  <2>3. ComposeTyped'
    BY <1>0, <2>1, <2>2 DEF ComposeTyped
  <2>4. CopiesGood'
    BY <1>0, <2>1, <2>2, CopiesStay
  <2> QED BY <1>0, <2>1, <2>3, <2>4 DEF ComposeInv, JobsNamed, UploadsFresh, FilesGood
<1>5. ASSUME NEW d \in DraftIds, OtherDevice(d) PROVE ComposeInv'
  <2>0. rows \in [DraftIds -> RowT] /\ texts \in Texts
    BY <1>0 DEF ComposeTyped
  <2>1. edits' \in Edits /\ Stored(d) /\ texts' = texts + 1 /\ texts + 1 \in Texts
        /\ rows' = [rows EXCEPT ![d] = [ver |-> rows[d].ver + 1, text |-> texts + 1]]
        /\ UNCHANGED <<form, status, canSeal, pane, entries, files, dropped, outbox, jobs>>
    BY <1>0, <1>5, <2>0, EditCounted, ComposeAssumption DEF OtherDevice, Texts
  <2>2. rows[d].ver \in Nat /\ rows[d] # Absent /\ rows[d].ver > 0
    BY <1>0, <2>1, ComposeFields DEF Stored
  <2>3. rows' \in [DraftIds -> RowT] /\ rows'[d] = [ver |-> rows[d].ver + 1, text |-> texts + 1]
        /\ \A e \in DraftIds \ {d} : rows'[e] = rows[e]
    BY <2>0, <2>1, <2>2 DEF RowT
  <2>4. rows'[d] # Absent /\ rows'[d].ver \in Nat /\ rows'[d].ver > rows[d].ver
    <3>1. texts + 1 \in Nat
      BY <2>1, ComposeAssumption DEF Texts
    <3> QED BY <2>2, <2>3, <3>1, ComposeAssumption
  <2>5. ComposeTyped'
    BY <1>0, <2>1, <2>3 DEF ComposeTyped
  <2>6. \A id \in DraftIds : \A ver \in Nat : \A base : DraftGood(rows, id, ver, base) => DraftGood(rows', id, ver, base)
    BY <1>0, <2>2, <2>3, <2>4, DraftGoodKept
  <2>7. CopiesGood'
    BY <1>0, <2>1, <2>6, CopiesStay
  <2> QED BY <1>0, <2>1, <2>5, <2>7 DEF ComposeInv, JobsNamed, UploadsFresh, FilesGood
<1> QED BY <1>1, <1>2, <1>3, <1>4, <1>5

(* A handler ends, or goes on to its next request. *)
LEMMA JobMoves ==
  ASSUME ComposeInv, NEW j \in jobs, NEW n \in JobT,
         n.op = j.op, n.draft = j.draft, n.file = j.file,
         jobs' = jobs \ {j} \/ (n.op # "upload" /\ jobs' = (jobs \ {j}) \cup {n}), status' \in Statuses,
         UNCHANGED <<form, canSeal, pane, entries, rows, files, dropped, outbox, texts, edits>>
  PROVE  ComposeInv'
<1>0. ComposeTyped /\ CopiesGood /\ JobsNamed /\ UploadsFresh /\ FilesGood /\ jobs \subseteq JobT
  BY DEF ComposeInv, ComposeTyped
<1>1. jobs' \subseteq JobT /\ (\A k \in jobs' : k \in jobs \/ (k.op = j.op /\ k.draft = j.draft /\ k.file = j.file))
  BY <1>0
<1>2. ComposeTyped'
  BY <1>0, <1>1 DEF ComposeTyped
<1>3. CopiesGood'
  BY <1>0, <1>1, CopiesStay
<1>4. JobsNamed' /\ UploadsFresh'
  <2>1. \A k \in jobs' : k.op = "upload" => k \in jobs /\ files'[k.file] = files[k.file]
    OBVIOUS
  <2> QED BY <1>1, <2>1, JobsStayNamed
<1> QED BY <1>0, <1>2, <1>3, <1>4 DEF ComposeInv, FilesGood

(* The answers about attachments and messages. *)
LEMMA FileAnswers ==
  ASSUME ComposeInv, NEW j \in jobs,
         \/ UploadAnswer(j) \/ DeleteObject(j) \/ RemoveAnswer(j)
         \/ SendPrepared(j) \/ TrackAnswer(j) \/ SendAnswer(j)
  PROVE  ComposeInv'
<1>0. /\ ComposeTyped /\ CopiesGood /\ JobsNamed /\ UploadsFresh /\ FilesGood
      /\ form \in FormT /\ status \in Statuses /\ files \in [FileIds -> FileStates]
      /\ jobs \subseteq JobT /\ "" \in Statuses /\ "sent" \in Statuses /\ dropped \subseteq FileIds
      /\ outbox \subseteq SentT /\ j \in JobT
  BY DEF ComposeInv, ComposeTyped, Statuses
<1>1. CASE UploadAnswer(j)
  <2>1. j.op = "upload" /\ status' = "" /\ jobs' = jobs \ {j}
        /\ UNCHANGED <<canSeal, pane, entries, rows, dropped, outbox, texts, edits>>
    BY <1>1 DEF UploadAnswer, EndJob
  <2>2. j.file \in FileIds /\ files[j.file] = "none"
        /\ \A k \in jobs \ {j} : k.op = "upload" => k.file # j.file
    BY <1>0, <2>1 DEF JobsNamed, UploadsFresh
  <2>3. /\ files' \in [FileIds -> FileStates] /\ \A f \in FileIds \ {j.file} : files'[f] = files[f]
        /\ form' \in FormT /\ form'.draft = form.draft
    <3>1. CASE UNCHANGED <<files, form>>
      BY <1>0, <3>1
    <3>2. CASE /\ files' = [files EXCEPT ![j.file] = "stored"]
               /\ form' = [form EXCEPT !.atts = @ \cup {j.file}]
      BY <1>0, <2>2, <3>2 DEF FormT, FileStates
    <3> QED BY <1>1, <3>1, <3>2 DEF UploadAnswer
  <2>4. ComposeTyped'
    BY <1>0, <2>1, <2>3 DEF ComposeTyped
  <2>5. CopiesGood'
    BY <1>0, <2>1, <2>3, CopiesStay
  <2>6. JobsNamed' /\ UploadsFresh'
    <3>1. \A k \in jobs' : k.op = "upload" => k \in jobs /\ files'[k.file] = files[k.file]
      BY <1>0, <2>1, <2>2, <2>3 DEF JobsNamed
    <3> QED BY <2>1, <3>1, JobsStayNamed
  <2>7. FilesGood'
    <3>1. ASSUME NEW m \in outbox', NEW f \in m.atts PROVE files'[f] = "linked"
      <4>1. f \in FileIds /\ files[f] = "linked"
        BY <1>0, <2>1, <3>1 DEF FilesGood, SentT
      <4> QED BY <2>2, <2>3, <4>1
    <3> QED BY <1>0, <2>1, <2>2, <2>3, <3>1 DEF FilesGood
  <2> QED BY <2>4, <2>5, <2>6, <2>7 DEF ComposeInv
<1>2. CASE RemoveAnswer(j)
  <2>1. j.op = "remove" /\ jobs' = jobs \ {j} /\ j.file \in FileIds
        /\ UNCHANGED <<status, canSeal, pane, entries, rows, outbox, texts, edits>>
    BY <1>0, <1>2 DEF RemoveAnswer, EndJob, JobsNamed
  <2>2. \/ UNCHANGED <<files, form, dropped>>
        \/ /\ files[j.file] = "stored" /\ files' = [files EXCEPT ![j.file] = "deleted"]
           /\ \/ UNCHANGED <<form, dropped>>
              \/ /\ form' = [form EXCEPT !.atts = @ \ {j.file}]
                 /\ dropped' = dropped \cup {j.file}
    BY <1>2 DEF RemoveAnswer
  <2>3. form' \in FormT /\ form'.draft = form.draft
    BY <1>0, <2>2 DEF FormT
  <2>4. files' \in [FileIds -> FileStates] /\ dropped' \subseteq dropped \cup {j.file}
        /\ (\A f \in FileIds : files[f] \in {"none", "deleted"} => files'[f] = files[f])
        /\ (j.file \in dropped' => j.file \in dropped \/ files'[j.file] = "deleted")
    BY <1>0, <2>1, <2>2 DEF FileStates
  <2>5. ComposeTyped'
    BY <1>0, <2>1, <2>3, <2>4 DEF ComposeTyped
  <2>6. CopiesGood'
    BY <1>0, <2>1, <2>3, CopiesStay
  <2>7. JobsNamed' /\ UploadsFresh'
    <3>1. \A k \in jobs' : k.op = "upload" => k \in jobs /\ files'[k.file] = files[k.file]
      BY <1>0, <2>1, <2>4 DEF JobsNamed, UploadsFresh
    <3> QED BY <2>1, <3>1, JobsStayNamed
  <2>8. ASSUME NEW f \in dropped' PROVE files'[f] = "deleted"
    <3>1. CASE f \in dropped
      BY <1>0, <2>4, <3>1 DEF FilesGood
    <3>2. CASE f \notin dropped
      <4>1. f = j.file
        BY <2>4, <2>8, <3>2
      <4> QED BY <2>4, <2>8, <3>2, <4>1
    <3> QED BY <3>1, <3>2
  <2>9. ASSUME NEW m \in outbox', NEW f \in m.atts PROVE files'[f] = "linked"
    <3>1. f \in FileIds /\ files[f] = "linked"
      BY <1>0, <2>1, <2>9 DEF FilesGood, SentT
    <3> QED BY <1>0, <2>1, <2>2, <3>1
  <2> QED BY <2>5, <2>6, <2>7, <2>8, <2>9 DEF ComposeInv, FilesGood
<1>3. CASE SendPrepared(j)
  <2> DEFINE m == Built(j, form.html)
  <2> DEFINE n == [j EXCEPT !.at = "track", !.html = form.html]
  <2>1. j.op = "send" /\ status' \in Statuses
        /\ UNCHANGED <<form, canSeal, pane, entries, rows, files, dropped, outbox, texts, edits>>
        /\ (jobs' = jobs \ {j} \/ jobs' = (jobs \ {j}) \cup {m} \/ jobs' = (jobs \ {j}) \cup {n})
    BY <1>0, <1>3 DEF SendPrepared, EndJob
  <2>2. m \in JobT /\ m.op = j.op /\ m.draft = j.draft /\ m.file = j.file
    BY <1>0, ComposeFields DEF Built, JobT, JobSteps
  <2>3. n \in JobT /\ n.op = j.op /\ n.draft = j.draft /\ n.file = j.file
    BY <1>0, ComposeFields DEF JobT, JobSteps
  <2> HIDE DEF m, n
  <2> QED BY <2>1, <2>2, <2>3, JobMoves
<1>5. CASE TrackAnswer(j)
  <2> DEFINE m == Built(j, j.html)
  <2>1. j.op = "send" /\ jobs' = (jobs \ {j}) \cup {m}
        /\ UNCHANGED <<form, status, canSeal, pane, entries, rows, files, dropped, outbox, texts,
                       edits>>
    BY <1>5 DEF TrackAnswer
  <2>2. m \in JobT /\ m.op = j.op /\ m.draft = j.draft /\ m.file = j.file
    BY <1>0, ComposeFields DEF Built, JobT, JobSteps
  <2> HIDE DEF m
  <2> QED BY <1>0, <2>1, <2>2, JobMoves
<1>6. CASE DeleteObject(j)
  <2> DEFINE n == [j EXCEPT !.at = "row"]
  <2>1. j.op = "remove" /\ (jobs' = jobs \ {j} \/ jobs' = (jobs \ {j}) \cup {n})
        /\ UNCHANGED <<form, status, canSeal, pane, entries, rows, files, dropped, outbox, texts,
                       edits>>
    BY <1>6 DEF DeleteObject, EndJob
  <2>2. n \in JobT /\ n.op = j.op /\ n.draft = j.draft /\ n.file = j.file
    BY <1>0 DEF JobT, JobSteps
  <2> HIDE DEF n
  <2> QED BY <1>0, <2>1, <2>2, JobMoves
<1>4. CASE SendAnswer(j)
  <2>1. j.op = "send" /\ jobs' = jobs \ {j}
        /\ UNCHANGED <<canSeal, pane, entries, rows, dropped, texts, edits>>
    BY <1>4 DEF SendAnswer, EndJob
  <2>2. \/ status' = "" /\ UNCHANGED <<form, files, outbox>>
        \/ /\ \A f \in j.atts : files[f] = "stored"
           /\ outbox' = outbox \cup {[text |-> j.text, html |-> j.html, atts |-> j.atts,
                                     later |-> j.later]}
           /\ files' = [f \in FileIds |-> IF f \in j.atts THEN "linked" ELSE files[f]]
           /\ \/ form' = [EmptyForm EXCEPT !.open = FALSE] /\ status' = "sent"
              \/ status' = "" /\ UNCHANGED form
    BY <1>4 DEF SendAnswer, clearComposeForm
  <2>3. form' \in FormT /\ form'.draft \in {form.draft, Absent} /\ status' \in Statuses
    BY <1>0, <2>2, EmptyFormTyped DEF FormT
  <2>4. files' \in [FileIds -> FileStates]
        /\ \A f \in FileIds : files[f] \in {"none", "deleted"} => files'[f] = files[f]
    BY <1>0, <2>2 DEF FileStates
  <2>5. outbox' \subseteq SentT
    <3>1. [text |-> j.text, html |-> j.html, atts |-> j.atts, later |-> j.later] \in SentT
      BY <1>0, ComposeFields DEF SentT
    <3> QED BY <1>0, <2>2, <3>1
  <2>6. ComposeTyped'
    BY <1>0, <2>1, <2>3, <2>4, <2>5 DEF ComposeTyped
  <2>7. CopiesGood'
    BY <1>0, <2>1, <2>3, CopiesStay
  <2>8. JobsNamed' /\ UploadsFresh'
    <3>1. \A k \in jobs' : k.op = "upload" => k \in jobs /\ files'[k.file] = files[k.file]
      BY <1>0, <2>1, <2>4 DEF JobsNamed, UploadsFresh
    <3> QED BY <2>1, <3>1, JobsStayNamed
  <2>9. FilesGood'
    <3>1. ASSUME NEW f \in dropped' PROVE files'[f] = "deleted"
      BY <1>0, <2>1, <2>4, <3>1 DEF FilesGood
    <3>2. ASSUME NEW m \in outbox', NEW f \in m.atts PROVE files'[f] = "linked"
      <4>1. f \in FileIds
        BY <2>5, <3>2 DEF SentT
      <4>2. CASE m \in outbox
        <5>1. files[f] = "linked"
          BY <1>0, <3>2, <4>2 DEF FilesGood
        <5> QED BY <1>0, <2>2, <4>1, <5>1
      <4>3. CASE m \notin outbox
        <5>1. /\ outbox' = outbox \cup {[text |-> j.text, html |-> j.html, atts |-> j.atts,
                                        later |-> j.later]}
              /\ files' = [g \in FileIds |-> IF g \in j.atts THEN "linked" ELSE files[g]]
          BY <2>2, <3>2, <4>3
        <5>2. m = [text |-> j.text, html |-> j.html, atts |-> j.atts, later |-> j.later]
          BY <3>2, <4>3, <5>1
        <5>3. f \in j.atts
          BY <3>2, <5>2
        <5> QED BY <4>1, <5>1, <5>3
      <4> QED BY <4>2, <4>3
    <3> QED BY <3>1, <3>2 DEF FilesGood
  <2> QED BY <2>6, <2>7, <2>8, <2>9 DEF ComposeInv
<1> QED BY <1>1, <1>2, <1>3, <1>4, <1>5, <1>6

(* The answers about drafts. *)
LEMMA DraftAnswers ==
  ASSUME ComposeInv, NEW j \in jobs,
         SaveDraftAnswer(j) \/ ReloadAnswer(j) \/ CreateDraftAnswer(j) \/ DeleteDraftAnswer(j)
  PROVE  ComposeInv'
<1>0. /\ ComposeTyped /\ CopiesGood /\ JobsNamed /\ UploadsFresh /\ FilesGood
      /\ form \in FormT /\ status \in Statuses /\ entries \in [DraftIds -> EntryT]
      /\ rows \in [DraftIds -> RowT] /\ jobs \subseteq JobT /\ "" \in Statuses
      /\ j \in JobT /\ Absent \in MaybeBase
  BY DEF ComposeInv, ComposeTyped, Statuses, MaybeBase
<1>e. [EmptyForm EXCEPT !.open = FALSE] \in FormT /\ [EmptyForm EXCEPT !.open = FALSE].draft = Absent
  BY EmptyFormTyped DEF FormT
<1>j. ASSUME jobs' = jobs \ {j}, UNCHANGED files PROVE JobsNamed' /\ UploadsFresh'
  BY <1>j, JobsStayNamed
<1>1. CASE SaveDraftAnswer(j)
  <2> DEFINE d == j.draft.id
  <2> DEFINE v == j.draft.ver + 1
  <2>1. j.op = "save" /\ UNCHANGED <<canSeal, pane, files, dropped, outbox, texts, edits>>
    BY <1>1 DEF SaveDraftAnswer
  <2>2. d \in DraftIds /\ j.draft.ver \in Nat /\ v \in Nat /\ j.text \in Texts /\ j.text \in Nat
        /\ DraftGood(rows, d, j.draft.ver, j.draft.base)
    <3>1. j.draft \in Base /\ DraftGood(rows, j.draft.id, j.draft.ver, j.draft.base)
      BY <1>0, <2>1 DEF JobsNamed, CopiesGood
    <3>2. j.draft.id \in DraftIds /\ j.draft.ver \in Nat
      BY <3>1 DEF Base
    <3>3. j.text \in Texts /\ j.text \in Nat
      BY <1>0, ComposeFields, TextsNat
    <3> QED BY <3>1, <3>2, <3>3
  <2>3. \/ /\ Accepted(j) /\ rows' = [rows EXCEPT ![d] = [ver |-> v, text |-> j.text]]
           /\ status' = "" /\ jobs' = jobs \ {j}
           /\ \/ /\ entries' = IF entries[d] = Absent THEN entries
                               ELSE [entries EXCEPT ![d].ver = v, ![d].text = j.text]
                 /\ form' = [EmptyForm EXCEPT !.open = FALSE]
              \/ UNCHANGED <<entries, form>>
        \/ /\ jobs' = (jobs \ {j}) \cup {[j EXCEPT !.at = "reload"]}
           /\ UNCHANGED <<rows, entries, form, status>>
        \/ jobs' = jobs \ {j} /\ status' = "" /\ UNCHANGED <<rows, entries, form>>
    BY <1>1 DEF SaveDraftAnswer, EndJob, clearComposeForm
  <2>4. CASE jobs' = jobs \ {j} /\ status' = "" /\ UNCHANGED <<rows, entries, form>>
    <3>1. ComposeTyped'
      BY <1>0, <2>1, <2>4 DEF ComposeTyped
    <3>2. CopiesGood'
      BY <1>0, <2>1, <2>4, CopiesStay
    <3> QED BY <1>0, <1>j, <2>1, <2>4, <3>1, <3>2 DEF ComposeInv, FilesGood
  <2>5. CASE /\ jobs' = (jobs \ {j}) \cup {[j EXCEPT !.at = "reload"]}
             /\ UNCHANGED <<rows, entries, form, status>>
    <3> DEFINE n == [j EXCEPT !.at = "reload"]
    <3>1. n \in JobT /\ n.op = j.op /\ n.draft = j.draft /\ n.file = j.file
      BY <1>0 DEF JobT, JobSteps
    <3>2. jobs' = (jobs \ {j}) \cup {n}
      BY <2>5
    <3> HIDE DEF n
    <3>3. jobs' \subseteq JobT /\ (\A k \in jobs' : k \in jobs \/ (k.op = j.op /\ k.draft = j.draft /\ k.file = j.file))
      BY <1>0, <3>1, <3>2
    <3>4. ComposeTyped'
      BY <1>0, <2>1, <2>5, <3>3 DEF ComposeTyped
    <3>5. CopiesGood'
      BY <1>0, <2>1, <2>5, <3>3, CopiesStay
    <3>6. JobsNamed' /\ UploadsFresh'
      BY <2>1, <3>3, JobsStayNamed
    <3> QED BY <1>0, <2>1, <3>4, <3>5, <3>6 DEF ComposeInv, FilesGood
  <2>6. CASE /\ Accepted(j) /\ rows' = [rows EXCEPT ![d] = [ver |-> v, text |-> j.text]]
             /\ status' = "" /\ jobs' = jobs \ {j}
             /\ \/ /\ entries' = IF entries[d] = Absent THEN entries
                                 ELSE [entries EXCEPT ![d].ver = v, ![d].text = j.text]
                   /\ form' = [EmptyForm EXCEPT !.open = FALSE]
                \/ UNCHANGED <<entries, form>>
    <3>1. rows[d] # Absent /\ rows[d].ver = j.draft.ver /\ rows[d].ver > 0 /\ v > rows[d].ver
      <4>1. rows[d] # Absent /\ rows[d].ver > 0 /\ rows[d].ver = j.draft.ver
        BY <2>6 DEF Accepted, Stored
      <4> QED BY <2>2, <4>1
    <3> HIDE DEF v, d
    <3>2. [ver |-> v, text |-> j.text] \in RowT /\ [ver |-> v, text |-> j.text] # Absent
      BY <2>2, ComposeAssumption DEF RowT
    <3>3. rows' \in [DraftIds -> RowT] /\ rows'[d] # Absent /\ rows'[d].ver = v /\ rows'[d].text = j.text
          /\ \A e \in DraftIds \ {d} : rows'[e] = rows[e]
      BY <1>0, <2>2, <2>6, <3>2
    <3>4. /\ entries' \in [DraftIds -> EntryT] /\ form' \in FormT
          /\ form'.draft \in {form.draft, Absent}
          /\ \A e \in DraftIds : entries'[e] = entries[e]
                                 \/ (e = d /\ entries'[e].ver = v /\ entries'[e].text = j.text)
      <4>1. CASE UNCHANGED <<entries, form>>
        BY <1>0, <4>1
      <4>2. CASE /\ entries' = IF entries[d] = Absent THEN entries
                                 ELSE [entries EXCEPT ![d].ver = v, ![d].text = j.text]
                 /\ form' = [EmptyForm EXCEPT !.open = FALSE]
        <5>1. CASE entries[d] = Absent
          BY <1>0, <1>e, <4>2, <5>1
        <5>2. CASE entries[d] # Absent
          BY <1>0, <1>e, <2>2, <4>2, <5>2 DEF EntryT
        <5> QED BY <5>1, <5>2
      <4> QED BY <2>6, <4>1, <4>2
    <3>5. ComposeTyped'
      BY <1>0, <2>1, <2>6, <3>3, <3>4 DEF ComposeTyped
    <3>6. \A id \in DraftIds : \A ver \in Nat : \A base : DraftGood(rows, id, ver, base) => DraftGood(rows', id, ver, base)
      BY <1>0, <2>2, <3>1, <3>3, DraftGoodKept
    <3>7. DraftGood(rows', d, v, j.text)
      <4>1. v >= 1
        BY <2>2, <3>1
      <4> QED BY <2>2, <3>3, <4>1 DEF DraftGood
    <3>8. CopiesGood'
      <4>1. \A e \in DraftIds : entries'[e] # Absent =>
              ((entries[e] # Absent /\ entries'[e].ver = entries[e].ver /\ entries'[e].text = entries[e].text)
               \/ DraftGood(rows', e, entries'[e].ver, entries'[e].text))
        BY <3>4, <3>7
      <4> QED BY <1>0, <2>1, <2>6, <3>4, <3>6, <4>1, CopiesStay
    <3> QED BY <1>0, <1>j, <2>1, <2>6, <3>5, <3>8 DEF ComposeInv, FilesGood
  <2> QED BY <2>3, <2>4, <2>5, <2>6
<1>2. CASE ReloadAnswer(j)
  <2>1. (Reloaded \/ UNCHANGED entries) /\ status' = "" /\ jobs' = jobs \ {j}
        /\ UNCHANGED <<form, canSeal, pane, rows, files, dropped, outbox, texts, edits>>
    BY <1>2 DEF ReloadAnswer, EndJob
  <2>2. entries' \in [DraftIds -> EntryT]
        /\ \A d \in DraftIds : entries'[d] # Absent =>
             ((entries[d] # Absent /\ entries'[d].ver = entries[d].ver /\ entries'[d].text = entries[d].text)
              \/ DraftGood(rows', d, entries'[d].ver, entries'[d].text))
    <3>1. CASE Reloaded
      BY <2>1, <3>1, ReloadedGood
    <3>2. CASE UNCHANGED entries
      BY <1>0, <3>2
    <3> QED BY <2>1, <3>1, <3>2
  <2>3. ComposeTyped'
    BY <1>0, <2>1, <2>2 DEF ComposeTyped
  <2>4. CopiesGood'
    BY <1>0, <2>1, <2>2, CopiesStay
  <2> QED BY <1>0, <1>j, <2>1, <2>3, <2>4 DEF ComposeInv, FilesGood
<1>3. CASE CreateDraftAnswer(j)
  <2>1. status' = "" /\ jobs' = jobs \ {j} /\ UNCHANGED <<canSeal, pane, files, dropped, outbox,
                                                          texts, edits>>
    BY <1>3 DEF CreateDraftAnswer, EndJob
  <2>2. CASE UNCHANGED <<rows, entries, form>>
    <3>1. ComposeTyped'
      BY <1>0, <2>1, <2>2 DEF ComposeTyped
    <3>2. CopiesGood'
      BY <1>0, <2>1, <2>2, CopiesStay
    <3> QED BY <1>0, <1>j, <2>1, <3>1, <3>2 DEF ComposeInv, FilesGood
  <2>3. ASSUME NEW d \in DraftIds, rows[d] = Absent,
               rows' = [rows EXCEPT ![d] = [ver |-> 1, text |-> j.text]],
               \/ /\ entries' = [entries EXCEPT ![d] = [ver |-> 1, text |-> j.text, trash |-> FALSE]]
                  /\ form' = [form EXCEPT !.open = FALSE]
               \/ UNCHANGED <<entries, form>>
        PROVE  ComposeInv'
    <3>1. j.text \in Texts /\ j.text \in Nat
      BY <1>0, ComposeFields, TextsNat
    <3>2. [ver |-> 1, text |-> j.text] \in RowT /\ [ver |-> 1, text |-> j.text] # Absent
          /\ [ver |-> 1, text |-> j.text, trash |-> FALSE] \in EntryT
      BY <3>1, ComposeAssumption DEF RowT, EntryT
    <3>3. rows' \in [DraftIds -> RowT] /\ rows'[d] = [ver |-> 1, text |-> j.text]
          /\ \A e \in DraftIds \ {d} : rows'[e] = rows[e]
      BY <1>0, <2>3, <3>2
    <3>4. form' \in FormT /\ form'.draft = form.draft
      BY <1>0, <2>3 DEF FormT
    <3>5. entries' \in [DraftIds -> EntryT]
          /\ \A e \in DraftIds : entries'[e] = entries[e]
                                 \/ (e = d /\ entries'[e] = [ver |-> 1, text |-> j.text, trash |-> FALSE])
      BY <1>0, <2>3, <3>2
    <3>6. ComposeTyped'
      BY <1>0, <2>1, <3>3, <3>4, <3>5 DEF ComposeTyped
    <3>7. \A id \in DraftIds : \A ver \in Nat : \A base : DraftGood(rows, id, ver, base) => DraftGood(rows', id, ver, base)
      BY <1>0, <2>3, <3>3, DraftGoodKept
    <3>8. DraftGood(rows', d, 1, j.text)
      BY <3>2, <3>3 DEF DraftGood
    <3>9. CopiesGood'
      <4>1. \A e \in DraftIds : entries'[e] # Absent =>
              ((entries[e] # Absent /\ entries'[e].ver = entries[e].ver /\ entries'[e].text = entries[e].text)
               \/ DraftGood(rows', e, entries'[e].ver, entries'[e].text))
        BY <3>5, <3>8
      <4> QED BY <1>0, <2>1, <3>4, <3>7, <4>1, CopiesStay
    <3> QED BY <1>0, <1>j, <2>1, <3>6, <3>9 DEF ComposeInv, FilesGood
  <2> QED BY <1>3, <2>2, <2>3 DEF CreateDraftAnswer
<1>4. CASE DeleteDraftAnswer(j)
  <2> DEFINE d == j.draft.id
  <2>1. /\ j.op = "delete" /\ pane' = Absent /\ jobs' = jobs \ {j}
        /\ rows' = rows \/ rows' = [rows EXCEPT ![d].ver = 0]
        /\ form' = [EmptyForm EXCEPT !.open = FALSE] \/ form' = form
        /\ entries' = entries \/ (entries[d] # Absent /\ entries' = [entries EXCEPT ![d].trash = TRUE])
        /\ UNCHANGED <<status, canSeal, files, dropped, outbox, texts, edits>>
    BY <1>4 DEF DeleteDraftAnswer, EndJob, clearComposeForm
  <2>2. d \in DraftIds /\ rows[d] # Absent /\ rows[d].text \in Texts
    BY <1>0, <2>1, ComposeFields DEF JobsNamed, Base, CopiesGood, DraftGood
  <2> HIDE DEF d
  <2>3. rows' \in [DraftIds -> RowT] /\ (\A e \in DraftIds \ {d} : rows'[e] = rows[e])
        /\ (rows'[d] # rows[d] => rows'[d].ver = 0 /\ rows'[d] # Absent)
    <3>1. CASE rows' = rows
      BY <1>0, <3>1
    <3>2. CASE rows' = [rows EXCEPT ![d].ver = 0]
      <4>1. rows'[d] = [rows[d] EXCEPT !.ver = 0] /\ \A e \in DraftIds \ {d} : rows'[e] = rows[e]
        BY <1>0, <2>2, <3>2
      <4>2. rows[d] \in [ver : Nat, text : Texts]
        BY <1>0, <2>2 DEF RowT
      <4>3. rows'[d] \in [ver : Nat, text : Texts] /\ rows'[d].ver = 0
        BY <4>1, <4>2
      <4>4. rows'[d] # Absent
        BY <4>3, ComposeAssumption DEF Texts
      <4> QED BY <1>0, <3>2, <4>1, <4>3, <4>4 DEF RowT
    <3> QED BY <2>1, <3>1, <3>2
  <2>4. entries' \in [DraftIds -> EntryT]
        /\ \A e \in DraftIds : entries'[e] # Absent => entries[e] # Absent
             /\ entries'[e].ver = entries[e].ver /\ entries'[e].text = entries[e].text
    <3>1. CASE entries' = entries
      BY <1>0, <3>1
    <3>2. CASE entries[d] # Absent /\ entries' = [entries EXCEPT ![d].trash = TRUE]
      <4>1. entries'[d] = [entries[d] EXCEPT !.trash = TRUE] /\ \A e \in DraftIds \ {d} : entries'[e] = entries[e]
        BY <1>0, <2>2, <3>2
      <4>2. entries[d] \in [ver : Nat, text : Texts, trash : BOOLEAN]
        BY <1>0, <2>2, <3>2 DEF EntryT
      <4>3. entries'[d] \in EntryT /\ entries'[d].ver = entries[d].ver /\ entries'[d].text = entries[d].text
        BY <4>1, <4>2 DEF EntryT
      <4> QED BY <1>0, <3>2, <4>1, <4>3
    <3> QED BY <2>1, <3>1, <3>2
  <2>5. form' \in FormT /\ form'.draft \in {form.draft, Absent}
    BY <1>0, <1>e, <2>1
  <2>6. ComposeTyped'
    BY <1>0, <2>1, <2>3, <2>4, <2>5 DEF ComposeTyped
  <2>7. \A id \in DraftIds : \A ver \in Nat : \A base : DraftGood(rows, id, ver, base) => DraftGood(rows', id, ver, base)
    <3>1. rows'[d] # rows[d] => rows'[d] # Absent /\ rows'[d].ver \in Nat /\ rows'[d].ver = 0
      BY <2>3
    <3> QED BY <1>0, <2>2, <2>3, <3>1, DraftGoodKept
  <2>8. CopiesGood'
    BY <1>0, <2>1, <2>4, <2>5, <2>7, CopiesStay
  <2> QED BY <1>0, <1>j, <2>1, <2>6, <2>8 DEF ComposeInv, FilesGood
<1> QED BY <1>1, <1>2, <1>3, <1>4

(* Every step of the compose form keeps the invariant. *)
LEMMA ComposeStep == ComposeInv /\ [ComposeNext]_composeVars => ComposeInv'
<1> SUFFICES ASSUME ComposeInv, [ComposeNext]_composeVars PROVE ComposeInv'
  OBVIOUS
<1>1. CASE UNCHANGED composeVars
  BY <1>1 DEF composeVars, ComposeInv, ComposeTyped, JobsNamed, CopiesGood, UploadsFresh, FilesGood
<1>2. CASE FormStep
  BY <1>2, FormOnlyActions, JobActions, OtherActions DEF FormStep, DraftBar, DrawerFields,
                                                         DrawerButtons
<1>3. ASSUME NEW j \in jobs, JobStep(j) PROVE ComposeInv'
  BY <1>3, FileAnswers, DraftAnswers DEF JobStep
<1> QED BY <1>1, <1>2, <1>3 DEF ComposeNext

(* No edit of a draft is lost, and what was taken off a form is not sent. *)
LEMMA ComposeInvImplies == ComposeInv => ComposeTypeOK /\ NoLostDraftUpdate /\ RemovedNeverSent
<1> SUFFICES ASSUME ComposeInv PROVE ComposeTypeOK /\ NoLostDraftUpdate
  BY DEF ComposeInv, FilesGood, RemovedNeverSent
<1>1. ComposeTypeOK
  BY DEF ComposeInv, ComposeTyped, ComposeTypeOK, FormT, EntryT, RowT, FileStates, SentT, JobT,
         JobOps, JobSteps,
         MaybeBase, Edits
<1>2. ASSUME NEW x \in ({form.draft} \cup {j.draft : j \in {k \in jobs : k.op = "save"}}) \ {Absent},
             rows[x.id] # Absent, rows[x.id].ver = x.ver
      PROVE  x.base = rows[x.id].text
  BY <1>2 DEF ComposeInv, CopiesGood, DraftGood
<1> QED BY <1>1, <1>2 DEF NoLostDraftUpdate

-----------------------------------------------------------------------------
(* The address book. *)

(* The rows of contacts and the copies the page keeps of them. *)
CardRow == [book : Books, ver : Nat, value : Values] \cup {Nothing}
MaybeContact == DisplayContact \cup {Nothing}
Clicks == 0..MaxClicks

(* The type invariant, over the named sets. *)
AddressBookTyped ==
  /\ book \in Books /\ sealedBy \in Books \cup {Nothing}
  /\ DOMAIN shown \subseteq CardIds /\ \A c \in DOMAIN shown : shown[c] \in Card
  /\ dialog \in BOOLEAN
  /\ editing \in MaybeContact
  /\ typed \in Values
  /\ cards \in [CardIds -> CardRow]
  /\ asks \subseteq AskOf
  /\ values \in Values /\ clicks \in Clicks

(* A save or a deletion carries the copy it is made from. *)
AsksNamed == \A k \in asks : k.op \in {"update", "delete"} => k.copy \in DisplayContact

(* A copy of a contact is of a row there is, not ahead of the server  *)
(* unless the row is deleted, and has the row's value when it has its *)
(* version.                                                           *)
CardGood(r, id, ver, value) ==
  /\ r[id] # Nothing /\ ver >= 1
  /\ r[id].ver = 0 \/ ver <= r[id].ver
  /\ r[id].ver = ver => value = r[id].value
(* Every copy is so: the one in the dialog, those of the list and those *)
(* the requests under way carry.                                        *)
ContactsGood ==
  /\ editing # Nothing => CardGood(cards, editing.id, editing.ver, editing.value)
  /\ \A c \in DOMAIN shown : CardGood(cards, c, shown[c].ver, shown[c].value)
  /\ \A k \in asks : k.op \in {"update", "delete"} =>
       CardGood(cards, k.copy.id, k.copy.ver, k.copy.value)
(* The inductive invariant of the address book. *)
AddressBookInv == AddressBookTyped /\ AsksNamed /\ ContactsGood

(* The state of the contacts dialog, by field. *)
LEMMA BookFields ==
  ASSUME AddressBookTyped
  PROVE  /\ \A k \in asks : /\ k.op \in {"open", "add", "update", "delete"} /\ k.book \in Books
                            /\ k.value \in Values /\ k.copy \in MaybeContact
         /\ \A c \in DOMAIN shown : c \in CardIds /\ shown[c].ver \in Nat /\ shown[c].value \in Values
         /\ \A c \in CardIds : cards[c] # Nothing =>
              cards[c].book \in Books /\ cards[c].ver \in Nat /\ cards[c].value \in Values
         /\ editing # Nothing =>
              editing.id \in CardIds /\ editing.ver \in Nat /\ editing.value \in Values
BY DEF AddressBookTyped, AskOf, Card, CardRow, MaybeContact, DisplayContact

(* Values are numbers. *)
LEMMA ValuesNat == 0 \in Values /\ \A v \in Values : v \in Nat
BY AddressBookAssumption DEF Values

(* A row of the table is not null. *)
LEMMA RowNotNothing ==
  ASSUME NEW k \in Books, NEW n \in Nat, NEW v \in Values
  PROVE  /\ [book |-> k, ver |-> n, value |-> v] \in CardRow
         /\ [book |-> k, ver |-> n, value |-> v] # Nothing
<1>1. v \in Nat
  BY ValuesNat
<1> QED BY <1>1, AddressBookAssumption DEF CardRow

(* The count of what the user does stays within its bound. *)
LEMMA ClickCounted ==
  ASSUME clicks \in Clicks, Click
  PROVE  clicks' \in Clicks
BY AddressBookAssumption DEF Click, Clicks

(* A copy of a contact stays good when its row stays, gets a new version   *)
(* or is deleted.                                                          *)
LEMMA CardGoodKept ==
  ASSUME AddressBookTyped, NEW c \in CardIds,
         \A e \in CardIds \ {c} : cards'[e] = cards[e],
         cards'[c] # cards[c] =>
           \/ cards[c] = Nothing
           \/ /\ cards'[c] # Nothing /\ cards'[c].ver \in Nat
              /\ cards'[c].ver = 0 \/ (cards[c].ver > 0 /\ cards'[c].ver > cards[c].ver),
         NEW id \in CardIds, NEW ver \in Nat, NEW value, CardGood(cards, id, ver, value)
  PROVE  CardGood(cards', id, ver, value)
<1>1. CASE cards'[id] = cards[id]
  BY <1>1 DEF CardGood
<1>2. CASE cards'[id] # cards[id]
  <2>1. id = c /\ cards[c] # Nothing /\ cards[c].ver \in Nat
    BY <1>2, BookFields DEF CardGood
  <2> QED BY <1>2, <2>1 DEF CardGood
<1> QED BY <1>1, <1>2

(* The copies stay good when those that change are copies of others or of  *)
(* the server's contacts.                                                  *)
LEMMA ContactsStay ==
  ASSUME AddressBookTyped, AsksNamed, ContactsGood,
         \A id \in CardIds : \A ver \in Nat : \A value :
            CardGood(cards, id, ver, value) => CardGood(cards', id, ver, value),
         editing' # Nothing => (editing' = editing \/ CardGood(cards', editing'.id, editing'.ver, editing'.value)),
         \A c \in DOMAIN shown' :
            ((c \in DOMAIN shown /\ shown'[c] = shown[c]) \/ CardGood(cards', c, shown'[c].ver, shown'[c].value)),
         \A k \in asks' : k.op \in {"update", "delete"} =>
            (k \in asks \/ CardGood(cards', k.copy.id, k.copy.ver, k.copy.value))
  PROVE  ContactsGood'
<1>1. editing # Nothing => CardGood(cards', editing.id, editing.ver, editing.value)
  BY BookFields DEF ContactsGood
<1>2. ASSUME NEW c \in DOMAIN shown' PROVE CardGood(cards', c, shown'[c].ver, shown'[c].value)
  BY BookFields DEF ContactsGood
<1>3. ASSUME NEW k \in asks', k.op \in {"update", "delete"}
      PROVE  CardGood(cards', k.copy.id, k.copy.ver, k.copy.value)
  <2>1. CASE k \in asks
    <3>1. k.copy \in DisplayContact /\ CardGood(cards, k.copy.id, k.copy.ver, k.copy.value)
      BY <1>3, <2>1 DEF AsksNamed, ContactsGood
    <3>2. k.copy.id \in CardIds /\ k.copy.ver \in Nat
      BY <3>1 DEF DisplayContact
    <3> QED BY <3>1, <3>2
  <2> QED BY <1>3, <2>1
<1> QED BY <1>1, <1>2, <1>3 DEF ContactsGood

(* Nothing shown. *)
LEMMA NoneShownEmpty == DOMAIN NoneShown = {}
BY DEF NoneShown

(* The first contact is good. *)
LEMMA BookInit == AddressBookInit => AddressBookInv
<1> SUFFICES ASSUME AddressBookInit PROVE AddressBookInv
  OBVIOUS
<1> DEFINE first == CHOOSE c \in CardIds : TRUE
<1>1. /\ book \in Books /\ sealedBy = book
      /\ shown = NoneShown /\ dialog = FALSE /\ editing = Nothing /\ typed = 0
      /\ cards = [c \in CardIds |-> IF c = first THEN [book |-> book, ver |-> 1, value |-> 1] ELSE Nothing]
      /\ asks = {} /\ values = 1 /\ clicks = 0
  BY DEF AddressBookInit
<1> HIDE DEF first
<1>2. 1 \in Values /\ 0 \in Values /\ 0 \in Clicks
  BY AddressBookAssumption DEF Values, Clicks
<1>3. cards \in [CardIds -> CardRow]
  BY <1>1, <1>2, RowNotNothing DEF CardRow
<1>4. editing \in MaybeContact /\ dialog \in BOOLEAN /\ DOMAIN shown = {} /\ asks \subseteq AskOf
  BY <1>1, NoneShownEmpty DEF MaybeContact
<1>5. AddressBookTyped
  BY <1>1, <1>2, <1>3, <1>4 DEF AddressBookTyped
<1> QED BY <1>1, <1>4, <1>5 DEF AddressBookInv, AsksNamed, ContactsGood

(* A step that leaves the server's contacts alone. *)
LEMMA BookQuietStep ==
  ASSUME AddressBookInv, UNCHANGED cards,
         book' \in Books, sealedBy' \in Books \cup {Nothing}, dialog' \in BOOLEAN,
         editing' \in MaybeContact, typed' \in Values, asks' \subseteq AskOf,
         values' \in Values, clicks' \in Clicks,
         DOMAIN shown' \subseteq CardIds, \A c \in DOMAIN shown' : shown'[c] \in Card,
         editing' # Nothing => (editing' = editing \/ CardGood(cards, editing'.id, editing'.ver, editing'.value)),
         \A c \in DOMAIN shown' :
            ((c \in DOMAIN shown /\ shown'[c] = shown[c]) \/ CardGood(cards, c, shown'[c].ver, shown'[c].value)),
         \A k \in asks' : k.op \in {"update", "delete"} =>
            (k \in asks \/ (k.copy \in DisplayContact /\ CardGood(cards, k.copy.id, k.copy.ver, k.copy.value)))
  PROVE  AddressBookInv'
<1>0. AddressBookTyped /\ AsksNamed /\ ContactsGood
  BY DEF AddressBookInv
<1>1. AddressBookTyped'
  BY <1>0 DEF AddressBookTyped
<1>2. AsksNamed'
  BY <1>0 DEF AsksNamed
<1>3. ContactsGood'
  BY <1>0, ContactsStay
<1> QED BY <1>1, <1>2, <1>3 DEF AddressBookInv

(* The row of an asked contact of a mailbox. *)
LEMMA AskTyped ==
  ASSUME AddressBookTyped, NEW o \in {"open", "add", "update", "delete"}, NEW v \in Values,
         NEW e \in MaybeContact
  PROVE  /\ AskFor(o, v, e) \in AskOf /\ AskFor(o, v, e).op = o /\ AskFor(o, v, e).copy = e
BY DEF AskFor, AskOf, MaybeContact, AddressBookTyped

(* What a shown contact is copied to. *)
LEMMA CopyOfShown ==
  ASSUME AddressBookInv, NEW c \in DOMAIN shown
  PROVE  /\ [id |-> c, ver |-> shown[c].ver, value |-> shown[c].value] \in DisplayContact
         /\ CardGood(cards, c, shown[c].ver, shown[c].value) /\ shown[c].value \in Values
<1>1. c \in CardIds /\ shown[c].ver \in Nat /\ shown[c].value \in Values
  BY BookFields DEF AddressBookInv
<1> QED BY <1>1 DEF AddressBookInv, ContactsGood, DisplayContact

(* What the user and other devices do. *)
LEMMA BookActions ==
  ASSUME AddressBookInv,
         \/ openContacts \/ ContactsDialog \/ LockBook \/ OpenBook
         \/ \E k \in Books : SwitchBook(k)
  PROVE  AddressBookInv'
<1>0. /\ AddressBookTyped /\ book \in Books /\ sealedBy \in Books \cup {Nothing} /\ dialog \in BOOLEAN
      /\ editing \in MaybeContact /\ typed \in Values /\ asks \subseteq AskOf /\ values \in Values
      /\ clicks \in Clicks /\ DOMAIN shown \subseteq CardIds
      /\ (\A c \in DOMAIN shown : shown[c] \in Card)
      /\ Nothing \in MaybeContact /\ 0 \in Values /\ DOMAIN NoneShown = {}
  BY NoneShownEmpty, ValuesNat DEF AddressBookInv, AddressBookTyped, MaybeContact
<1>1. CASE openContacts
  <2> DEFINE k == AskFor("open", 0, Nothing)
  <2>1. clicks' \in Clicks /\ dialog' \in BOOLEAN /\ UNCHANGED <<book, sealedBy, editing, typed,
                                                                 cards, values>>
        /\ ((asks' = asks \cup {k} /\ UNCHANGED shown) \/ (shown' = NoneShown /\ UNCHANGED asks))
    BY <1>0, <1>1, ClickCounted DEF openContacts, Asking
  <2>2. k \in AskOf /\ k.op = "open"
    BY <1>0, AskTyped
  <2> HIDE DEF k
  <2> QED BY <1>0, <2>1, <2>2, BookQuietStep
<1>2. CASE CancelEdit
  <2>1. clicks' \in Clicks /\ editing' = Nothing /\ typed' = 0
        /\ UNCHANGED <<book, sealedBy, shown, dialog, cards, asks, values>>
    BY <1>0, <1>2, ClickCounted DEF CancelEdit, startEditContact
  <2> QED BY <1>0, <2>1, BookQuietStep
<1>3. CASE TypeContact
  <2>1. clicks' \in Clicks /\ values' \in Values /\ typed' \in Values
        /\ UNCHANGED <<book, sealedBy, shown, dialog, editing, cards, asks>>
    BY <1>0, <1>3, ClickCounted, AddressBookAssumption DEF TypeContact, Values
  <2> QED BY <1>0, <2>1, BookQuietStep
<1>4. CASE CloseContacts
  <2>1. clicks' \in Clicks /\ editing' = Nothing /\ typed' = 0 /\ dialog' \in BOOLEAN
        /\ UNCHANGED <<book, sealedBy, shown, cards, asks, values>>
    BY <1>0, <1>4, ClickCounted DEF CloseContacts, startEditContact
  <2> QED BY <1>0, <2>1, BookQuietStep
<1>5. CASE handleSaveContact
  <2> DEFINE o == IF editing = Nothing THEN "add" ELSE "update"
  <2> DEFINE k == AskFor(o, typed, editing)
  <2>1. clicks' \in Clicks /\ asks' = asks \cup {k}
        /\ UNCHANGED <<book, sealedBy, shown, dialog, editing, typed, cards, values>>
    BY <1>0, <1>5, ClickCounted DEF handleSaveContact, Asking
  <2>2. o \in {"open", "add", "update", "delete"} /\ (o \in {"update",
                                                             "delete"} => editing # Nothing)
    OBVIOUS
  <2> HIDE DEF o
  <2>3. k \in AskOf /\ k.op = o /\ k.copy = editing
    BY <1>0, <2>2, AskTyped
  <2>4. k.op \in {"update", "delete"} =>
          k.copy \in DisplayContact /\ CardGood(cards, k.copy.id, k.copy.ver, k.copy.value)
    BY <1>0, <2>2, <2>3 DEF AddressBookInv, ContactsGood, MaybeContact
  <2> HIDE DEF k
  <2> QED BY <1>0, <2>1, <2>3, <2>4, BookQuietStep
<1>6. ASSUME NEW c \in DOMAIN shown, EditContact(c) PROVE AddressBookInv'
  <2> DEFINE e == [id |-> c, ver |-> shown[c].ver, value |-> shown[c].value]
  <2>1. clicks' \in Clicks /\ editing' = e /\ (typed' = 0 \/ typed' = e.value)
        /\ UNCHANGED <<book, sealedBy, shown, dialog, cards, asks, values>>
    BY <1>0, <1>6, ClickCounted DEF EditContact, startEditContact
  <2>2. e \in DisplayContact /\ CardGood(cards, e.id, e.ver, e.value) /\ e.value \in Values
    BY CopyOfShown
  <2> HIDE DEF e
  <2>3. editing' \in MaybeContact /\ typed' \in Values
    BY <1>0, <2>1, <2>2 DEF MaybeContact
  <2> QED BY <1>0, <2>1, <2>2, <2>3, BookQuietStep
<1>7. ASSUME NEW c \in DOMAIN shown, handleDeleteContact(c) PROVE AddressBookInv'
  <2> DEFINE e == [id |-> c, ver |-> shown[c].ver, value |-> shown[c].value]
  <2> DEFINE k == AskFor("delete", 0, e)
  <2>1. clicks' \in Clicks /\ asks' = asks \cup {k}
        /\ UNCHANGED <<book, sealedBy, shown, dialog, editing, typed, cards, values>>
    BY <1>0, <1>7, ClickCounted DEF handleDeleteContact, Asking
  <2>2. e \in DisplayContact /\ CardGood(cards, e.id, e.ver, e.value)
    BY CopyOfShown
  <2> HIDE DEF e
  <2>3. k \in AskOf /\ k.op = "delete" /\ k.copy = e
    BY <1>0, <2>2, AskTyped DEF MaybeContact
  <2> HIDE DEF k
  <2> QED BY <1>0, <2>1, <2>2, <2>3, BookQuietStep
<1>8. CASE LockBook
  <2>1. clicks' \in Clicks /\ sealedBy' = Nothing /\ shown' = NoneShown /\ dialog' \in BOOLEAN /\ editing' = Nothing
        /\ typed' = 0 /\ UNCHANGED <<book, cards, asks, values>>
    BY <1>0, <1>8, ClickCounted DEF LockBook, startEditContact
  <2> QED BY <1>0, <2>1, BookQuietStep
<1>9. CASE OpenBook
  <2>1. clicks' \in Clicks /\ sealedBy' = book
        /\ UNCHANGED <<book, shown, dialog, editing, typed, cards, asks, values>>
    BY <1>0, <1>9, ClickCounted DEF OpenBook
  <2> QED BY <1>0, <2>1, BookQuietStep
<1>10. ASSUME NEW k \in Books, SwitchBook(k) PROVE AddressBookInv'
  <2>1. clicks' \in Clicks /\ book' \in Books /\ sealedBy' \in Books \cup {Nothing}
        /\ UNCHANGED <<shown, dialog, editing, typed, cards, asks, values>>
    BY <1>0, <1>10, ClickCounted DEF SwitchBook
  <2> QED BY <1>0, <2>1, BookQuietStep
<1> QED BY <1>1, <1>2, <1>3, <1>4, <1>5, <1>6, <1>7, <1>8, <1>9, <1>10 DEF ContactsDialog

(* Another device saves a contact. *)
LEMMA ElsewhereStep ==
  ASSUME AddressBookInv, NEW c \in CardIds, SavedElsewhere(c)
  PROVE  AddressBookInv'
<1>0. AddressBookTyped /\ AsksNamed /\ ContactsGood /\ cards \in [CardIds -> CardRow] /\ values \in Values
      /\ clicks \in Clicks
  BY DEF AddressBookInv, AddressBookTyped
<1>1. /\ clicks' \in Clicks /\ values' = values + 1 /\ values + 1 \in Values
      /\ cards[c] # Nothing /\ cards[c].ver > 0
      /\ cards' = [cards EXCEPT ![c].ver = cards[c].ver + 1, ![c].value = values + 1]
      /\ UNCHANGED <<book, sealedBy, shown, dialog, editing, typed, asks>>
  BY <1>0, ClickCounted, AddressBookAssumption DEF SavedElsewhere, InBook, Values
<1>2. cards[c].book \in Books /\ cards[c].ver \in Nat /\ cards[c].value \in Values
      /\ cards[c] \in [book : Books, ver : Nat, value : Values]
  BY <1>0, <1>1, BookFields DEF CardRow
<1>3. cards'[c] = [book |-> cards[c].book, ver |-> cards[c].ver + 1, value |-> values + 1]
      /\ \A e \in CardIds \ {c} : cards'[e] = cards[e]
  BY <1>0, <1>1, <1>2
<1>4. cards'[c] \in CardRow /\ cards'[c] # Nothing /\ cards'[c].ver \in Nat /\ cards'[c].ver > cards[c].ver
  BY <1>1, <1>2, <1>3, RowNotNothing
<1>5. cards' \in [CardIds -> CardRow]
  BY <1>0, <1>1, <1>3, <1>4
<1>6. AddressBookTyped'
  BY <1>0, <1>1, <1>5 DEF AddressBookTyped
<1>7. \A id \in CardIds : \A ver \in Nat : \A value : CardGood(cards, id, ver, value) => CardGood(cards', id, ver, value)
  BY <1>0, <1>1, <1>2, <1>3, <1>4, CardGoodKept
<1>8. ContactsGood'
  BY <1>0, <1>1, <1>7, ContactsStay
<1> QED BY <1>0, <1>1, <1>6, <1>8 DEF AddressBookInv, AsksNamed

(* The answers of the server. *)
LEMMA BookAnswers ==
  ASSUME AddressBookInv, NEW k \in asks, AskStep(k)
  PROVE  AddressBookInv'
<1>0. /\ AddressBookTyped /\ AsksNamed /\ ContactsGood
      /\ book \in Books /\ sealedBy \in Books \cup {Nothing} /\ dialog \in BOOLEAN
      /\ editing \in MaybeContact /\ typed \in Values /\ asks \subseteq AskOf /\ values \in Values
      /\ clicks \in Clicks /\ DOMAIN shown \subseteq CardIds
      /\ (\A c \in DOMAIN shown : shown[c] \in Card) /\ cards \in [CardIds -> CardRow]
      /\ Nothing \in MaybeContact /\ 0 \in Values /\ DOMAIN NoneShown = {}
  BY NoneShownEmpty, ValuesNat DEF AddressBookInv, AddressBookTyped, MaybeContact
<1>k. k.book \in Books /\ k.value \in Values /\ k.copy \in MaybeContact
      /\ (k.op \in {"update", "delete"} =>
            k.copy \in DisplayContact /\ k.copy.id \in CardIds /\ k.copy.ver \in Nat
            /\ CardGood(cards, k.copy.id, k.copy.ver, k.copy.value))
  BY <1>0, BookFields DEF AsksNamed, ContactsGood, DisplayContact
<1>q. ASSUME UNCHANGED <<cards, shown, editing, typed, dialog, book, sealedBy, values, clicks>>,
             asks' = asks \ {k}
      PROVE  AddressBookInv'
  BY <1>0, <1>q, BookQuietStep
<1>1. CASE ContactsAnswer(k)
  <2> DEFINE mine == {d \in CardIds : InBook(d, k.book)}
  <2>1. asks' = asks \ {k} /\ UNCHANGED <<book, sealedBy, dialog, editing, typed, cards, values,
                                          clicks>>
        /\ (shown' = NoneShown \/ shown' = [c \in mine |-> [ver |-> cards[c].ver, value |-> cards[c].value]])
    BY <1>1 DEF ContactsAnswer, Answered
  <2>2. \A c \in mine : c \in CardIds /\ cards[c] # Nothing /\ cards[c].ver > 0 /\ cards[c].ver \in Nat
                        /\ cards[c].value \in Values
    BY <1>0, BookFields DEF InBook
  <2> HIDE DEF mine
  <2>3. ASSUME NEW c \in DOMAIN shown'
        PROVE  c \in CardIds /\ shown'[c] \in Card /\ CardGood(cards, c, shown'[c].ver, shown'[c].value)
    <3>1. c \in mine /\ shown'[c] = [ver |-> cards[c].ver, value |-> cards[c].value]
      BY <1>0, <2>1, <2>3
    <3> QED BY <2>2, <3>1 DEF Card, CardGood
  <2> QED BY <1>0, <2>1, <2>3, BookQuietStep
<1>2. CASE AddContactAnswer(k)
  <2>1. asks' = asks \ {k} /\ UNCHANGED <<book, sealedBy, dialog, values, clicks>>
    BY <1>2 DEF AddContactAnswer, Answered
  <2>2. CASE UNCHANGED <<cards, shown, editing, typed>>
    BY <1>q, <2>1, <2>2
  <2>3. ASSUME NEW c \in CardIds, cards[c] = Nothing,
               cards' = [cards EXCEPT ![c] = [book |-> k.book, ver |-> 1, value |-> k.value]],
               \/ /\ shown' = [d \in DOMAIN shown \cup {c} |->
                               IF d = c THEN [ver |-> 1, value |-> k.value] ELSE shown[d]]
                  /\ editing' = Nothing /\ typed' = 0
               \/ UNCHANGED <<shown, editing, typed>>
        PROVE  AddressBookInv'
    <3>1. [book |-> k.book, ver |-> 1, value |-> k.value] \in CardRow
          /\ [book |-> k.book, ver |-> 1, value |-> k.value] # Nothing
      BY <1>k, RowNotNothing
    <3>2. cards' \in [CardIds -> CardRow] /\ cards'[c] = [book |-> k.book, ver |-> 1, value |-> k.value]
          /\ \A e \in CardIds \ {c} : cards'[e] = cards[e]
      BY <1>0, <2>3, <3>1
    <3>3. CardGood(cards', c, 1, k.value)
      BY <3>1, <3>2 DEF CardGood
    <3>4. /\ DOMAIN shown' \subseteq CardIds
          /\ \A d \in DOMAIN shown' : (d \in DOMAIN shown /\ shown'[d] = shown[d])
                                      \/ (d = c /\ shown'[d] = [ver |-> 1, value |-> k.value])
      BY <1>0, <2>3
    <3>5. \A d \in DOMAIN shown' : shown'[d] \in Card
      BY <1>0, <1>k, <3>4 DEF Card
    <3>6. editing' \in {editing, Nothing} /\ typed' \in Values /\ editing' \in MaybeContact
      BY <1>0, <2>3
    <3>7. AddressBookTyped'
      BY <1>0, <2>1, <3>2, <3>4, <3>5, <3>6 DEF AddressBookTyped
    <3>8. \A id \in CardIds : \A ver \in Nat : \A value : CardGood(cards, id, ver, value) => CardGood(cards', id, ver, value)
      BY <1>0, <2>3, <3>2, CardGoodKept
    <3>9. ContactsGood'
      <4>1. \A d \in DOMAIN shown' :
            ((d \in DOMAIN shown /\ shown'[d] = shown[d]) \/ CardGood(cards', d, shown'[d].ver, shown'[d].value))
        BY <3>3, <3>4
      <4> QED BY <1>0, <2>1, <3>6, <3>8, <4>1, ContactsStay
    <3> QED BY <1>0, <2>1, <3>7, <3>9 DEF AddressBookInv, AsksNamed
  <2> QED BY <1>2, <2>2, <2>3 DEF AddContactAnswer, startEditContact
<1>3. CASE UpdateContactAnswer(k)
  <2> DEFINE c == k.copy.id
  <2> DEFINE v == k.copy.ver + 1
  <2> DEFINE n == AskFor("open", 0, Nothing)
  <2>1. k.op = "update" /\ UNCHANGED <<book, sealedBy, values, clicks>>
    BY <1>3 DEF UpdateContactAnswer
  <2>2. c \in CardIds /\ k.copy.ver \in Nat /\ v \in Nat
    BY <1>k, <2>1
  <2>n. n \in AskOf /\ n.op = "open"
    BY <1>0, AskTyped
  <2>3. \/ /\ Fits(k) /\ asks' = asks \ {k}
           /\ cards' = [cards EXCEPT ![c].ver = v, ![c].value = k.value]
           /\ \/ /\ shown' = [d \in DOMAIN shown |-> IF d = c THEN [ver |-> v, value |-> k.value] ELSE shown[d]]
                 /\ editing' = Nothing /\ typed' = 0
              \/ UNCHANGED <<shown, editing, typed>>
           /\ UNCHANGED dialog
        \/ /\ dialog' = TRUE
           /\ (asks' = (asks \ {k}) \cup {n} /\ UNCHANGED shown) \/ (shown' = NoneShown /\ asks' = asks \ {k})
           /\ UNCHANGED <<cards, editing, typed>>
        \/ asks' = asks \ {k} /\ UNCHANGED <<cards, shown, editing, typed, dialog>>
    BY <1>3 DEF UpdateContactAnswer, Answered, startEditContact
  <2> HIDE DEF n
  <2>4. CASE asks' = asks \ {k} /\ UNCHANGED <<cards, shown, editing, typed, dialog>>
    BY <1>q, <2>1, <2>4
  <2>5. CASE /\ dialog' = TRUE
             /\ (asks' = (asks \ {k}) \cup {n} /\ UNCHANGED shown) \/ (shown' = NoneShown /\ asks' = asks \ {k})
             /\ UNCHANGED <<cards, editing, typed>>
    <3>1. dialog' \in BOOLEAN
      BY <2>5
    <3>2. asks' \subseteq AskOf /\ \A i \in asks' : i \in asks \/ i.op = "open"
      BY <1>0, <2>n, <2>5
    <3>3. \A d \in DOMAIN shown' : d \in DOMAIN shown /\ shown'[d] = shown[d]
      BY <1>0, <2>5
    <3> QED BY <1>0, <2>1, <2>5, <3>1, <3>2, <3>3, BookQuietStep
  <2>6. CASE /\ Fits(k) /\ asks' = asks \ {k}
             /\ cards' = [cards EXCEPT ![c].ver = v, ![c].value = k.value]
             /\ \/ /\ shown' = [d \in DOMAIN shown |-> IF d = c THEN [ver |-> v, value |-> k.value] ELSE shown[d]]
                   /\ editing' = Nothing /\ typed' = 0
                \/ UNCHANGED <<shown, editing, typed>>
             /\ UNCHANGED dialog
    <3>1. cards[c] # Nothing /\ cards[c].ver > 0 /\ cards[c].ver = k.copy.ver
      BY <2>6 DEF Fits, InBook
    <3>a. v > cards[c].ver /\ v >= 1
      BY <2>2, <3>1
    <3> HIDE DEF c, v
    <3>2. cards[c].book \in Books /\ cards[c] \in [book : Books, ver : Nat, value : Values]
      BY <1>0, <2>2, <3>1, BookFields DEF CardRow
    <3>3. cards'[c] = [book |-> cards[c].book, ver |-> v, value |-> k.value]
          /\ \A e \in CardIds \ {c} : cards'[e] = cards[e]
      BY <1>0, <2>2, <2>6, <3>2
    <3>4. cards'[c] \in CardRow /\ cards'[c] # Nothing /\ cards'[c].ver = v /\ cards'[c].value = k.value
      BY <1>k, <2>2, <3>2, <3>3, RowNotNothing
    <3>5. cards' \in [CardIds -> CardRow]
      BY <1>0, <2>6, <3>3, <3>4
    <3>6. CardGood(cards', c, v, k.value)
      BY <2>2, <3>a, <3>4 DEF CardGood
    <3>7. /\ DOMAIN shown' \subseteq CardIds
          /\ \A d \in DOMAIN shown' : (d \in DOMAIN shown /\ shown'[d] = shown[d])
                                      \/ (d = c /\ shown'[d] = [ver |-> v, value |-> k.value])
      BY <1>0, <2>6
    <3>8. \A d \in DOMAIN shown' : shown'[d] \in Card
      BY <1>0, <1>k, <2>2, <3>7 DEF Card
    <3>9. editing' \in {editing, Nothing} /\ typed' \in Values /\ editing' \in MaybeContact
      BY <1>0, <2>6
    <3>10. AddressBookTyped'
      BY <1>0, <2>1, <2>6, <3>5, <3>7, <3>8, <3>9 DEF AddressBookTyped
    <3>11. \A id \in CardIds : \A ver \in Nat : \A value : CardGood(cards, id, ver, value) => CardGood(cards', id, ver, value)
      BY <1>0, <2>2, <3>1, <3>a, <3>3, <3>4, CardGoodKept
    <3>12. ContactsGood'
      <4>1. \A d \in DOMAIN shown' :
            ((d \in DOMAIN shown /\ shown'[d] = shown[d]) \/ CardGood(cards', d, shown'[d].ver, shown'[d].value))
        BY <3>6, <3>7
      <4> QED BY <1>0, <2>6, <3>9, <3>11, <4>1, ContactsStay
    <3> QED BY <1>0, <2>6, <3>10, <3>12 DEF AddressBookInv, AsksNamed
  <2> QED BY <2>3, <2>4, <2>5, <2>6
<1>4. CASE DeleteContactAnswer(k)
  <2> DEFINE c == k.copy.id
  <2>1. k.op = "delete" /\ asks' = asks \ {k} /\ UNCHANGED <<book, sealedBy, dialog, values,
                                                             clicks>>
    BY <1>4 DEF DeleteContactAnswer, Answered
  <2>2. c \in CardIds
    BY <1>k, <2>1
  <2>3. \/ UNCHANGED <<cards, shown, editing, typed>>
        \/ /\ InBook(c, k.book) /\ cards' = [cards EXCEPT ![c].ver = 0]
           /\ \/ /\ shown' = [d \in DOMAIN shown \ {c} |-> shown[d]]
                 /\ (editing' = Nothing /\ typed' = 0) \/ UNCHANGED <<editing, typed>>
              \/ UNCHANGED <<shown, editing, typed>>
    BY <1>4 DEF DeleteContactAnswer, startEditContact
  <2>4. CASE UNCHANGED <<cards, shown, editing, typed>>
    BY <1>q, <2>1, <2>4
  <2>5. CASE /\ InBook(c, k.book) /\ cards' = [cards EXCEPT ![c].ver = 0]
             /\ \/ /\ shown' = [d \in DOMAIN shown \ {c} |-> shown[d]]
                   /\ (editing' = Nothing /\ typed' = 0) \/ UNCHANGED <<editing, typed>>
                \/ UNCHANGED <<shown, editing, typed>>
    <3>1. cards[c] # Nothing
      BY <2>5 DEF InBook
    <3> HIDE DEF c
    <3>2. cards[c].book \in Books /\ cards[c].value \in Values
          /\ cards[c] \in [book : Books, ver : Nat, value : Values]
      BY <1>0, <2>2, <3>1, BookFields DEF CardRow
    <3>3. cards'[c] = [book |-> cards[c].book, ver |-> 0, value |-> cards[c].value]
          /\ \A e \in CardIds \ {c} : cards'[e] = cards[e]
      BY <1>0, <2>2, <2>5, <3>2
    <3>4. cards'[c] \in CardRow /\ cards'[c] # Nothing /\ cards'[c].ver = 0
      BY <3>2, <3>3, RowNotNothing
    <3>5. cards' \in [CardIds -> CardRow]
      BY <1>0, <2>5, <3>3, <3>4
    <3>6. /\ DOMAIN shown' \subseteq CardIds
          /\ \A d \in DOMAIN shown' : d \in DOMAIN shown /\ shown'[d] = shown[d]
      BY <1>0, <2>5
    <3>7. editing' \in {editing, Nothing} /\ typed' \in Values /\ editing' \in MaybeContact
      BY <1>0, <2>5
    <3>8. AddressBookTyped'
      BY <1>0, <2>1, <3>5, <3>6, <3>7 DEF AddressBookTyped
    <3>9. \A id \in CardIds : \A ver \in Nat : \A value : CardGood(cards, id, ver, value) => CardGood(cards', id, ver, value)
      BY <1>0, <2>2, <3>1, <3>3, <3>4, CardGoodKept
    <3>10. ContactsGood'
      BY <1>0, <2>1, <3>6, <3>7, <3>9, ContactsStay
    <3> QED BY <1>0, <2>1, <3>8, <3>10 DEF AddressBookInv, AsksNamed
  <2> QED BY <2>3, <2>4, <2>5
<1> QED BY <1>1, <1>2, <1>3, <1>4 DEF AskStep

(* Every step of the contacts dialog keeps the invariant. *)
LEMMA BookStep == AddressBookInv /\ [AddressBookNext]_bookVars => AddressBookInv'
<1> SUFFICES ASSUME AddressBookInv, [AddressBookNext]_bookVars PROVE AddressBookInv'
  OBVIOUS
<1>1. CASE UNCHANGED bookVars
  BY <1>1 DEF bookVars, AddressBookInv, AddressBookTyped, AsksNamed, ContactsGood
<1> QED BY <1>1, BookActions, ElsewhereStep, BookAnswers DEF AddressBookNext

(* No change to a contact is overwritten unseen. *)
LEMMA AddressBookInvImplies == AddressBookInv => AddressBookTypeOK /\ NoLostContactUpdate
<1> SUFFICES ASSUME AddressBookInv PROVE AddressBookTypeOK /\ NoLostContactUpdate
  OBVIOUS
<1>1. AddressBookTypeOK
  BY DEF AddressBookInv, AddressBookTyped, AddressBookTypeOK, CardRow, MaybeContact, Clicks
<1>2. ASSUME NEW e \in ({editing} \cup {k.copy : k \in {j \in asks : j.op = "update"}}) \ {Nothing},
             cards[e.id] # Nothing, cards[e.id].ver = e.ver
      PROVE  cards[e.id].value = e.value
  BY <1>2 DEF AddressBookInv, ContactsGood, CardGood
<1> QED BY <1>1, <1>2 DEF NoLostContactUpdate

-----------------------------------------------------------------------------
(* The settings, filters and address rules. *)

(* The requests of the settings, the page, and the rows of its lists. *)
SaveOps == {"load", "prefs", "sig", "look", "reply", "create", "toggle", "edit", "delete", "reload"}
Nos == 0..MaxSteps
ItemLists == UNION {[D -> RuleRow] : D \in SUBSET ItemIds}
TabT == [kind : Tabs, no : Nos, form : Made, items : ItemLists, loading : BOOLEAN, saving : SUBSET Flags]
SaveT == [op : SaveOps, at : {"go", "back"}, ok : BOOLEAN, box : Holders, no : Nos,
          id : ItemIds \cup {Default}, kind : Tabs \cup ItemKinds, on : BOOLEAN, value : Made,
          form : Made, items : ItemLists]
SettingsT == [sig : Made, look : Made, reply : Made]
(* The type invariant, over the named sets. *)
SettingsTyped ==
  /\ owner \in Holders /\ look \in Made /\ localSig \in [Holders -> Made]
  /\ settings \in [Holders -> SettingsT]
  /\ rules \in ItemLists /\ deleted \subseteq ItemIds \X Nos
  /\ steps \in Nos /\ tab \in TabT /\ saves \subseteq SaveT

(* A list names items of the server, of the kind they have there. *)
Agrees(l, r) == \A i \in DOMAIN l : i \in DOMAIN r /\ l[i].kind = r[i].kind
(* The list on show and those on the way name items of the server. *)
ListsAgree == Agrees(tab.items, rules) /\ \A s \in saves : Agrees(s.items, rules)
(* The pages are numbered as they open; requests and deletions are of *)
(* pages that were opened.                                            *)
NosKnown ==
  /\ tab.no <= steps
  /\ \A s \in saves : s.no <= tab.no
  /\ \A i \in ItemIds : \A n \in Nos : <<i, n>> \in deleted => n <= tab.no /\ i \in DOMAIN rules
(* What a request is about is on the server, what an answer changes is in *)
(* the list it carries.                                                   *)
SaveNamed(s, r) ==
  /\ s.op \in {"toggle", "edit", "delete"} => s.id \in DOMAIN r
  /\ s.op \in {"toggle", "edit"} /\ s.ok => s.id \in DOMAIN s.items
  /\ s.op = "create" => s.kind \in ItemKinds
  /\ s.op = "create" /\ s.ok => /\ s.id \in DOMAIN r /\ r[s.id].kind = s.kind
                                /\ DOMAIN s.items = {s.id}
(* Every request is so. *)
SavesNamed == \A s \in saves : SaveNamed(s, rules)
(* Outside the bridge tab the list is fetched before the page takes a *)
(* click: while its load is under way no other request of this page's *)
(* lists is, and nothing was deleted from it.                         *)
LoadFirst ==
  tab.kind # "bridge" => \A s \in saves : s.op = "load" /\ s.no = tab.no =>
    /\ tab.loading
    /\ \A t \in saves : t.no = tab.no => t = s \/ t.op \in {"prefs", "look"}
    /\ \A i \in ItemIds : <<i, tab.no>> \notin deleted
(* An item the server has made and the page was not told of yet. *)
PendingCreate(s) == s.op = "create" /\ s.ok /\ s.no = tab.no /\ s.kind # "bridge"
(* Such an item is not in the list, so it was not deleted from it either. *)
CreatedNew ==
  \A s \in saves : PendingCreate(s) =>
    /\ s.id \notin DOMAIN tab.items
    /\ <<s.id, tab.no>> \notin deleted
    /\ \A t \in saves : t.op = "delete" /\ t.no = tab.no => t.id # s.id
    /\ \A t \in saves : PendingCreate(t) /\ t.id = s.id => t = s
(* The bridge tab, whose create button does not wait for the load, lists *)
(* and asks for bridge credentials only.                                 *)
OnlyBridge ==
  tab.kind = "bridge" =>
    /\ \A i \in DOMAIN tab.items : rules[i].kind = "bridge"
    /\ \A s \in saves : s.no = tab.no =>
         /\ s.op = "create" => s.kind = "bridge"
         /\ s.op = "load" => s.kind = "bridge" /\ \A i \in DOMAIN s.items : rules[i].kind = "bridge"
(* The inductive invariant of the settings: that a deleted item does not  *)
(* return needs that lists come before deletions and new items were never *)
(* listed.                                                                *)
SettingsInv ==
  /\ SettingsTyped /\ ListsAgree /\ NosKnown /\ SavesNamed /\ LoadFirst /\ OnlyBridge
  /\ CreatedNew /\ NoGhostFilter

(* Lists of items, taken apart and put together. *)
LEMMA ListFacts ==
  ASSUME NEW l \in ItemLists
  PROVE  DOMAIN l \subseteq ItemIds /\ \A i \in DOMAIN l : l[i] \in RuleRow
<1>1. PICK D \in SUBSET ItemIds : l \in [D -> RuleRow]
  BY DEF ItemLists
<1> QED BY <1>1

(* A function of items is a list. *)
LEMMA ListMade ==
  ASSUME NEW D, D \subseteq ItemIds, NEW f \in [D -> RuleRow]
  PROVE  f \in ItemLists
BY DEF ItemLists

(* The empty list. *)
LEMMA NoRulesEmpty == NoRules \in ItemLists /\ DOMAIN NoRules = {}
<1>1. NoRules \in [{} -> RuleRow]
  BY DEF NoRules
<1> QED BY <1>1, ListMade

(* A list says that its elements are listed. *)
LEMMA ListListed ==
  ASSUME NEW l \in ItemLists
  PROVE  Listed(l)
BY ListFacts DEF Listed

(* The count of what the user does stays within its bound. *)
LEMMA StepCounted ==
  ASSUME steps \in Nos, Step
  PROVE  steps' \in Nos /\ steps' = steps + 1 /\ steps \in Nat
BY MailSettingsAssumption DEF Step, Nos

(* A request as it is sent. *)
LEMMA RequestTyped ==
  ASSUME SettingsTyped, NEW o \in SaveOps
  PROVE  /\ Request(o) \in SaveT /\ Request(o).op = o /\ ~Request(o).ok /\ Request(o).no = tab.no
         /\ DOMAIN Request(o).items = {}
<1>1. owner \in Holders /\ tab.no \in Nos /\ tab.form \in Made /\ NoRules \in ItemLists
  BY NoRulesEmpty DEF SettingsTyped, TabT
<1>2. Request(o) \in SaveT /\ Request(o).op = o /\ ~Request(o).ok /\ Request(o).no = tab.no
      /\ Request(o).items = NoRules
  BY <1>1 DEF Request, SaveT, Made, ItemKinds
<1> QED BY <1>2, NoRulesEmpty

(* Lists stay in agreement with a server whose items keep their kinds. *)
LEMMA AgreeKept ==
  ASSUME NEW l, NEW r, NEW q, Agrees(l, r),
         DOMAIN r \subseteq DOMAIN q, \A i \in DOMAIN r : q[i].kind = r[i].kind
  PROVE  Agrees(l, q)
BY DEF Agrees

(* At the start nothing is listed and nothing was asked for. *)
LEMMA SettingsStart == MailSettingsInit => SettingsInv
<1> SUFFICES ASSUME MailSettingsInit PROVE SettingsInv
  OBVIOUS
<1>1. /\ owner \in Holders /\ look \in Made /\ localSig \in [Holders -> Made]
      /\ settings \in [Holders -> SettingsT] /\ deleted = {} /\ saves = {} /\ steps = 0
  BY DEF MailSettingsInit, Made, SettingsT
<1>2. 0 \in Nos /\ Default \in Made
  BY MailSettingsAssumption DEF Nos, Made
<1>3. rules \in ItemLists
  <2>1. ASSUME NEW i \in ItemIds, NEW kind \in ItemKinds,
               rules = [j \in {i} |-> [box |-> owner, kind |-> kind, on |-> TRUE, ver |-> 1]]
        PROVE  rules \in ItemLists
    <3>1. rules \in [{i} -> RuleRow]
      BY <1>1, <2>1 DEF RuleRow
    <3> QED BY <3>1, ListMade
  <2> QED BY <2>1, NoRulesEmpty DEF MailSettingsInit
<1>4. tab \in TabT /\ tab.no = 0 /\ DOMAIN tab.items = {}
  <2>1. tab = [kind |-> "none", no |-> 0, form |-> Default, items |-> NoRules,
               loading |-> "none" # "none", saving |-> {}]
    BY DEF MailSettingsInit, Shown
  <2>2. ("none" # "none") \in BOOLEAN /\ "none" \in Tabs
    BY DEF Tabs
  <2> QED BY <1>2, <2>1, <2>2, NoRulesEmpty DEF TabT
<1>5. SettingsTyped
  BY <1>1, <1>2, <1>3, <1>4 DEF SettingsTyped
<1>6. ListsAgree /\ NoGhostFilter
  BY <1>1, <1>4 DEF ListsAgree, Agrees, NoGhostFilter
<1>7. NosKnown
  BY <1>1, <1>4 DEF NosKnown
<1> QED BY <1>1, <1>4, <1>5, <1>6, <1>7 DEF SettingsInv, SavesNamed, LoadFirst, OnlyBridge,
                                            CreatedNew

(* A new request of the tab on screen. Before its load has ended a tab     *)
(* sends nothing about items.                                              *)
LEMMA NewRequest ==
  ASSUME SettingsInv, NEW r \in SaveT, saves' = saves \cup {r},
         r.no = tab.no, ~r.ok, DOMAIN r.items = {}, r.op # "load",
         r.op \notin {"prefs", "look"} => ~tab.loading \/ r.kind = "bridge",
         r.op = "create" => (r.kind = "bridge" <=> tab.kind = "bridge"),
         r.op \notin {"prefs", "look", "create"} => ~tab.loading,
         r.op \in {"toggle", "edit", "delete"} => r.id \in DOMAIN tab.items,
         r.op = "create" => r.kind \in ItemKinds,
         tab' \in TabT, tab'.no = tab.no, tab'.items = tab.items, tab'.loading = tab.loading,
         tab'.kind = tab.kind,
         steps' \in Nos, steps' = steps + 1, steps \in Nat, owner' \in Holders,
         UNCHANGED <<look, localSig, settings, rules, deleted>>
  PROVE  SettingsInv'
<1>0. SettingsTyped /\ ListsAgree /\ NosKnown /\ SavesNamed /\ LoadFirst /\ OnlyBridge /\ CreatedNew /\ NoGhostFilter
  BY DEF SettingsInv
<1>n. tab.no \in Nat
  BY <1>0, MailSettingsAssumption DEF SettingsTyped, TabT, Nos
<1>1. SettingsTyped'
  BY <1>0 DEF SettingsTyped
<1>2. ListsAgree' /\ NoGhostFilter'
  BY <1>0 DEF ListsAgree, Agrees, NoGhostFilter
<1>3. NosKnown'
  BY <1>0, <1>n DEF NosKnown
<1>4. SavesNamed'
  <2>1. SaveNamed(r, rules)
    BY <1>0 DEF SaveNamed, ListsAgree, Agrees
  <2> QED BY <1>0, <2>1 DEF SavesNamed, SaveNamed
<1>5. LoadFirst'
  BY <1>0 DEF LoadFirst
<1>6. CreatedNew'
  BY <1>0 DEF CreatedNew, PendingCreate
<1>7. OnlyBridge'
  BY <1>0 DEF OnlyBridge
<1> QED BY <1>1, <1>2, <1>3, <1>4, <1>5, <1>6, <1>7 DEF SettingsInv

(* A request changes what it carries: the server has carried it out or     *)
(* refused it, or its answer was lost.                                     *)
LEMMA RequestMoves ==
  ASSUME SettingsInv, NEW s \in saves, NEW r \in SaveT, saves' = (saves \ {s}) \cup {r},
         r.op = s.op, r.no = s.no, r.kind = s.kind, s.op # "create" => r.id = s.id,
         rules' \in ItemLists, DOMAIN rules \subseteq DOMAIN rules',
         \A i \in DOMAIN rules : rules'[i].kind = rules[i].kind,
         Agrees(r.items, rules'),
         r.op = "load" /\ r.kind = "bridge" =>
           \A i \in DOMAIN r.items : rules'[i].kind = "bridge" \/ i \in DOMAIN s.items,
         r.op \in {"toggle", "edit"} /\ r.ok => r.id \in DOMAIN r.items,
         r.op = "create" /\ r.ok =>
           r.id \in DOMAIN rules' \ DOMAIN rules /\ DOMAIN r.items = {r.id} /\ rules'[r.id].kind = r.kind,
         settings' \in [Holders -> SettingsT],
         UNCHANGED <<owner, tab, look, localSig, deleted, steps>>
  PROVE  SettingsInv'
<1>0. SettingsTyped /\ ListsAgree /\ NosKnown /\ SavesNamed /\ LoadFirst /\ OnlyBridge /\ CreatedNew /\ NoGhostFilter
  BY DEF SettingsInv
<1>1. SettingsTyped'
  BY <1>0 DEF SettingsTyped
<1>2. ListsAgree'
  <2>1. \A t \in saves : Agrees(t.items, rules')
    BY <1>0, AgreeKept DEF ListsAgree
  <2>2. Agrees(tab.items, rules')
    BY <1>0, AgreeKept DEF ListsAgree
  <2> QED BY <2>1, <2>2 DEF ListsAgree
<1>3. NosKnown'
  BY <1>0 DEF NosKnown
<1>4. SavesNamed'
  <2>1. ASSUME NEW t \in saves PROVE SaveNamed(t, rules')
    BY <1>0, <2>1 DEF SavesNamed, SaveNamed
  <2>2. SaveNamed(r, rules')
    <3>1. SaveNamed(s, rules)
      BY <1>0 DEF SavesNamed
    <3> QED BY <3>1 DEF SaveNamed
  <2> QED BY <2>1, <2>2 DEF SavesNamed
<1>5. LoadFirst'
  <2>1. ASSUME NEW l \in saves', l.op = "load", l.no = tab.no, tab.kind # "bridge"
        PROVE  /\ tab.loading /\ \A i \in ItemIds : <<i, tab.no>> \notin deleted
               /\ \A t \in saves' : t.no = tab.no => t = l \/ t.op \in {"prefs", "look"}
    <3>1. CASE l = r
      BY <1>0, <2>1, <3>1 DEF LoadFirst
    <3>2. CASE l \in saves \ {s}
      BY <1>0, <2>1, <3>2 DEF LoadFirst
    <3> QED BY <2>1, <3>1, <3>2
  <2> QED BY <2>1 DEF LoadFirst
<1>6. CreatedNew'
  <2>0. /\ \A t \in saves : t.op = "delete" \/ PendingCreate(t) => t.id \in DOMAIN rules
        /\ \A i \in DOMAIN tab.items : i \in DOMAIN rules
        /\ \A i \in ItemIds : <<i, tab.no>> \in deleted => i \in DOMAIN rules
    <3>1. tab.no \in Nos
      BY <1>0 DEF SettingsTyped, TabT
    <3> QED BY <1>0, <3>1 DEF SavesNamed, SaveNamed, PendingCreate, ListsAgree, Agrees, NosKnown
  <2>1. ASSUME NEW c \in saves', PendingCreate(c)
        PROVE  /\ c.id \notin DOMAIN tab.items /\ <<c.id, tab.no>> \notin deleted
               /\ \A t \in saves' : t.op = "delete" /\ t.no = tab.no => t.id # c.id
               /\ \A t \in saves' : PendingCreate(t) /\ t.id = c.id => t = c
    <3>1. CASE c = r
      <4>1. r.id \notin DOMAIN rules /\ r.id \in ItemIds
        BY <2>1, <3>1, ListFacts DEF PendingCreate
      <4>2. r.id \notin DOMAIN tab.items /\ <<r.id, tab.no>> \notin deleted
        BY <2>0, <4>1
      <4>3. \A t \in saves' : t.op = "delete" /\ t.no = tab.no => t.id # r.id
        BY <2>0, <2>1, <3>1, <4>1 DEF PendingCreate
      <4>4. \A t \in saves' : PendingCreate(t) /\ t.id = r.id => t = r
        BY <2>0, <4>1
      <4> QED BY <3>1, <4>2, <4>3, <4>4
    <3>2. CASE c \in saves \ {s}
      <4>1. /\ c.id \notin DOMAIN tab.items /\ <<c.id, tab.no>> \notin deleted
            /\ (\A t \in saves : t.op = "delete" /\ t.no = tab.no => t.id # c.id)
            /\ (\A t \in saves : PendingCreate(t) /\ t.id = c.id => t = c)
        BY <1>0, <2>1, <3>2 DEF CreatedNew
      <4>2. r.op = "delete" /\ r.no = tab.no => r.id # c.id
        BY <4>1
      <4>3. PendingCreate(r) => r.id # c.id
        BY <2>0, <2>1, <3>2 DEF PendingCreate
      <4> QED BY <4>1, <4>2, <4>3
    <3> QED BY <2>1, <3>1, <3>2
  <2> QED BY <2>1 DEF CreatedNew, PendingCreate
<1>7. NoGhostFilter'
  BY <1>0 DEF NoGhostFilter
<1>8. OnlyBridge'
  <2> SUFFICES ASSUME tab.kind = "bridge"
      PROVE  /\ \A i \in DOMAIN tab.items : rules'[i].kind = "bridge"
             /\ \A t \in saves' : t.no = tab.no =>
                  /\ t.op = "create" => t.kind = "bridge"
                  /\ t.op = "load" => t.kind = "bridge" /\ \A i \in DOMAIN t.items : rules'[i].kind = "bridge"
    BY DEF OnlyBridge
  <2>1. \A i \in DOMAIN tab.items : rules'[i].kind = "bridge"
    BY <1>0 DEF OnlyBridge, ListsAgree, Agrees
  <2>2. ASSUME NEW t \in saves, t.no = tab.no
        PROVE  /\ t.op = "create" => t.kind = "bridge"
               /\ t.op = "load" => t.kind = "bridge" /\ \A i \in DOMAIN t.items : rules'[i].kind = "bridge"
    BY <1>0, <2>2 DEF OnlyBridge, ListsAgree, Agrees
  <2>3. r.no = tab.no => /\ r.op = "create" => r.kind = "bridge"
                         /\ r.op = "load" => r.kind = "bridge" /\ \A i \in DOMAIN r.items : rules'[i].kind = "bridge"
    BY <2>2
  <2> QED BY <2>1, <2>2, <2>3
<1> QED BY <1>1, <1>2, <1>3, <1>4, <1>5, <1>6, <1>7, <1>8 DEF SettingsInv

(* The fields of a request. *)
LEMMA SaveFields ==
  ASSUME SettingsTyped, NEW s \in saves
  PROVE  /\ s \in SaveT /\ s.op \in SaveOps /\ s.ok \in BOOLEAN /\ s.box \in Holders /\ s.no \in Nos
         /\ s.id \in ItemIds \cup {Default} /\ s.value \in Made /\ s.form \in Made
         /\ s.items \in ItemLists /\ s.on \in BOOLEAN
BY DEF SettingsTyped, SaveT

(* What the server does with a request. *)
LEMMA ServerSteps ==
  ASSUME SettingsInv, NEW s \in saves, ServerDoes(s) \/ AnswerLost(s)
  PROVE  SettingsInv'
<1>0. /\ SettingsTyped /\ s \in SaveT /\ rules \in ItemLists /\ settings \in [Holders -> SettingsT]
      /\ Agrees(s.items, rules) /\ SaveNamed(s, rules) /\ s.box \in Holders
      /\ UNCHANGED <<owner, tab, look, localSig, deleted, steps>>
  BY SaveFields DEF SettingsInv, SettingsTyped, ListsAgree, SavesNamed, ServerDoes, AnswerLost
<1>r. DOMAIN rules \subseteq ItemIds /\ (\A i \in DOMAIN rules : rules[i] \in RuleRow)
  BY <1>0, ListFacts
<1>1. ASSUME NEW ok \in BOOLEAN, Replied(s, ok), UNCHANGED rules,
             settings' \in [Holders -> SettingsT],
             ok => s.op \notin {"create", "toggle", "edit"}
      PROVE  SettingsInv'
  <2> DEFINE r == [s EXCEPT !.at = "back", !.ok = ok]
  <2>1. r \in SaveT /\ r.op = s.op /\ r.no = s.no /\ r.kind = s.kind /\ r.id = s.id /\ r.items = s.items
        /\ r.ok = ok
    BY <1>0 DEF SaveT
  <2>2. saves' = (saves \ {s}) \cup {r}
    BY <1>1 DEF Replied
  <2> HIDE DEF r
  <2> QED BY <1>0, <1>1, <2>1, <2>2, RequestMoves
<1>2. CASE AnswerLost(s)
  BY <1>0, <1>1, <1>2 DEF AnswerLost
<1>3. CASE Replied(s, FALSE) /\ UNCHANGED <<settings, rules>>
  BY <1>0, <1>1, <1>3
<1>4. CASE ServerReads(s)
  <2> DEFINE v == CASE s.kind = "signatures" -> settings[s.box].sig
                    [] s.kind = "autoreply" -> settings[s.box].reply
                    [] OTHER -> settings[s.box].look
  <2> DEFINE l == IF s.kind \in {"filters", "bridge"}
                    THEN [i \in OfKind(Live(s.box), s.kind = "bridge") |-> rules[i]] ELSE NoRules
  <2> DEFINE r == [s EXCEPT !.at = "back", !.ok = TRUE, !.value = v, !.items = l]
  <2>1. saves' = (saves \ {s}) \cup {r} /\ UNCHANGED <<settings, rules>> /\ s.op \in {"load",
          "prefs"}
    BY <1>4 DEF ServerReads
  <2>2. v \in Made
    <3>1. settings[s.box].sig \in Made /\ settings[s.box].reply \in Made /\ settings[s.box].look \in Made
      BY <1>0 DEF SettingsT
    <3> QED BY <3>1
  <2>3. /\ l \in ItemLists /\ Agrees(l, rules)
        /\ s.kind = "bridge" => \A i \in DOMAIN l : rules[i].kind = "bridge"
    <3>1. CASE s.kind \in {"filters", "bridge"}
      <4> DEFINE D == OfKind(Live(s.box), s.kind = "bridge")
      <4>1. D \subseteq DOMAIN rules /\ (s.kind = "bridge" => \A i \in D : rules[i].kind = "bridge")
        BY DEF OfKind, Live
      <4>2. l = [i \in D |-> rules[i]]
        BY <3>1
      <4> HIDE DEF D, l
      <4>3. l \in [D -> RuleRow] /\ D \subseteq ItemIds
        BY <1>r, <4>1, <4>2
      <4> QED BY <4>1, <4>2, <4>3, ListMade DEF Agrees
    <3>2. CASE s.kind \notin {"filters", "bridge"}
      <4>1. l = NoRules
        BY <3>2
      <4> HIDE DEF l
      <4> QED BY <4>1, NoRulesEmpty DEF Agrees
    <3> QED BY <3>1, <3>2
  <2> HIDE DEF v, l
  <2>4. r \in SaveT /\ r.op = s.op /\ r.no = s.no /\ r.kind = s.kind /\ r.id = s.id /\ r.items = l
    BY <1>0, <2>2, <2>3 DEF SaveT
  <2> HIDE DEF r
  <2> QED BY <1>0, <2>1, <2>3, <2>4, RequestMoves
<1>5. CASE ServerStores(s)
  <2>1. s.op \in {"sig", "look", "reply"} /\ Replied(s, TRUE) /\ UNCHANGED rules
    BY <1>5 DEF ServerStores
  <2>2. s.value \in Made
    BY <1>0 DEF SaveT
  <2>3. \/ settings' = [settings EXCEPT ![s.box].sig = s.value]
        \/ settings' = [settings EXCEPT ![s.box].look = s.value]
        \/ settings' = [settings EXCEPT ![s.box].reply = s.value]
    BY <1>5 DEF ServerStores
  <2>4. settings' \in [Holders -> SettingsT]
    BY <1>0, <2>2, <2>3 DEF SettingsT
  <2> QED BY <1>1, <2>1, <2>4
<1>6. CASE ServerCreates(s)
  <2>1. PICK i \in ItemIds \ DOMAIN rules :
          /\ rules' = [j \in DOMAIN rules \cup {i} |->
                         IF j = i THEN [box |-> s.box, kind |-> s.kind, on |-> TRUE, ver |-> 1] ELSE rules[j]]
          /\ saves' = (saves \ {s}) \cup {[s EXCEPT !.at = "back", !.ok = TRUE, !.id = i,
               !.items = [j \in {i} |-> [box |-> s.box, kind |-> s.kind, on |-> TRUE, ver |-> 1]]]}
    BY <1>6 DEF ServerCreates
  <2>2. s.op = "create" /\ UNCHANGED settings /\ s.kind \in ItemKinds
    BY <1>0, <1>6 DEF ServerCreates, SaveNamed
  <2> DEFINE row == [box |-> s.box, kind |-> s.kind, on |-> TRUE, ver |-> 1]
  <2> DEFINE l == [j \in {i} |-> row]
  <2> DEFINE r == [s EXCEPT !.at = "back", !.ok = TRUE, !.id = i, !.items = l]
  <2>3. rules' = [j \in DOMAIN rules \cup {i} |-> IF j = i THEN row ELSE rules[j]]
        /\ saves' = (saves \ {s}) \cup {r}
    BY <2>1
  <2>4. row \in RuleRow /\ row.kind = s.kind
    BY <1>0, <2>2 DEF RuleRow
  <2> HIDE DEF row
  <2>5. l \in ItemLists /\ DOMAIN l = {i} /\ l[i] = row
    BY <2>4, ListMade
  <2> HIDE DEF l
  <2>6. r \in SaveT /\ r.op = s.op /\ r.no = s.no /\ r.kind = s.kind /\ r.id = i /\ r.items = l
    BY <1>0, <2>5 DEF SaveT
  <2> HIDE DEF r
  <2>7. rules' \in ItemLists /\ DOMAIN rules' = DOMAIN rules \cup {i} /\ rules'[i] = row
        /\ \A j \in DOMAIN rules : rules'[j] = rules[j]
    <3>1. rules' \in [DOMAIN rules \cup {i} -> RuleRow]
      BY <1>r, <2>3, <2>4
    <3>2. rules' \in ItemLists
      BY <1>r, <3>1, ListMade
    <3> QED BY <2>3, <3>2
  <2>8. Agrees(r.items, rules')
    BY <2>5, <2>6, <2>7 DEF Agrees
  <2> QED BY <1>0, <2>2, <2>3, <2>4, <2>5, <2>6, <2>7, <2>8, RequestMoves
<1>7. CASE ServerUpdates(s)
  <2> DEFINE row == [rules[s.id] EXCEPT !.on = IF s.op = "toggle" THEN s.on ELSE @,
                                        !.ver = IF s.op = "edit" THEN @ + 1 ELSE @]
  <2> DEFINE l == [j \in {s.id} |-> row]
  <2> DEFINE r == [s EXCEPT !.at = "back", !.ok = TRUE, !.items = l]
  <2>1. s.op \in {"toggle",
                  "edit"} /\ s.id \in DOMAIN rules /\ rules' = [rules EXCEPT ![s.id] = row]
        /\ saves' = (saves \ {s}) \cup {r} /\ UNCHANGED settings
    BY <1>7 DEF ServerUpdates, Live
  <2>2. row \in RuleRow /\ row.kind = rules[s.id].kind
    <3>1. rules[s.id] \in RuleRow /\ s.on \in BOOLEAN
      BY <1>0, <1>r, <2>1 DEF SaveT
    <3>2. rules[s.id].ver \in Nat /\ rules[s.id].on \in BOOLEAN
      BY <3>1 DEF RuleRow
    <3> DEFINE x == IF s.op = "toggle" THEN s.on ELSE rules[s.id].on
    <3> DEFINE y == IF s.op = "edit" THEN rules[s.id].ver + 1 ELSE rules[s.id].ver
    <3>3. x \in BOOLEAN /\ y \in Nat
      BY <3>1, <3>2
    <3>4. row = [rules[s.id] EXCEPT !.on = x, !.ver = y]
      OBVIOUS
    <3> HIDE DEF x, y, row
    <3> QED BY <3>1, <3>3, <3>4 DEF RuleRow
  <2> HIDE DEF row
  <2>3. l \in ItemLists /\ DOMAIN l = {s.id} /\ l[s.id] = row
    BY <1>r, <2>1, <2>2, ListMade
  <2> HIDE DEF l
  <2>4. r \in SaveT /\ r.op = s.op /\ r.no = s.no /\ r.kind = s.kind /\ r.id = s.id /\ r.items = l
    BY <1>0, <2>3 DEF SaveT
  <2> HIDE DEF r
  <2>5. rules' \in ItemLists /\ DOMAIN rules' = DOMAIN rules
        /\ \A j \in DOMAIN rules : rules'[j].kind = rules[j].kind
    <3>1. rules' \in [DOMAIN rules -> RuleRow]
      <4>1. rules \in [DOMAIN rules -> RuleRow]
        BY <1>0 DEF ItemLists
      <4> QED BY <2>1, <2>2, <4>1
    <3>2. \A j \in DOMAIN rules : rules'[j] = IF j = s.id THEN row ELSE rules[j]
      BY <2>1
    <3> QED BY <1>r, <2>2, <3>1, <3>2, ListMade
  <2>6. Agrees(r.items, rules')
    BY <2>1, <2>2, <2>3, <2>4, <2>5 DEF Agrees
  <2> QED BY <1>0, <2>1, <2>3, <2>4, <2>5, <2>6, RequestMoves
<1>8. CASE ServerDeletes(s)
  <2> DEFINE r == [s EXCEPT !.at = "back", !.ok = TRUE]
  <2>1. s.op = "delete" /\ s.id \in DOMAIN rules /\ rules' = [rules EXCEPT ![s.id].ver = 0]
        /\ saves' = (saves \ {s}) \cup {r} /\ UNCHANGED settings
    BY <1>8 DEF ServerDeletes, Live, Replied
  <2>2. r \in SaveT /\ r.op = s.op /\ r.no = s.no /\ r.kind = s.kind /\ r.id = s.id /\ r.items = s.items
    BY <1>0 DEF SaveT
  <2> HIDE DEF r
  <2>3. rules' \in ItemLists /\ DOMAIN rules' = DOMAIN rules
        /\ \A j \in DOMAIN rules : rules'[j].kind = rules[j].kind
    <3>1. rules \in [DOMAIN rules -> RuleRow]
      BY <1>0 DEF ItemLists
    <3> DEFINE row == [rules[s.id] EXCEPT !.ver = 0]
    <3>2. row \in RuleRow /\ row.kind = rules[s.id].kind /\ rules' = [rules EXCEPT ![s.id] = row]
      BY <2>1, <3>1 DEF RuleRow
    <3> HIDE DEF row
    <3>3. rules' \in [DOMAIN rules -> RuleRow] /\ \A j \in DOMAIN rules : rules'[j] = IF j = s.id THEN row ELSE rules[j]
      BY <2>1, <3>1, <3>2
    <3> QED BY <1>r, <3>2, <3>3, ListMade
  <2>4. Agrees(r.items, rules')
    BY <1>0, <2>2, <2>3, AgreeKept
  <2> QED BY <1>0, <2>1, <2>2, <2>3, <2>4, RequestMoves
<1> QED BY <1>2, <1>3, <1>4, <1>5, <1>6, <1>7, <1>8 DEF ServerDoes

(* A tab with another field is a tab. *)
LEMMA TabMarked ==
  ASSUME SettingsTyped, NEW x \in SUBSET Flags, NEW f \in Made
  PROVE  /\ [tab EXCEPT !.saving = x].kind = tab.kind /\ [tab EXCEPT !.form = f].kind = tab.kind
         /\ [tab EXCEPT !.saving = x] \in TabT /\ [tab EXCEPT !.saving = x].no = tab.no
         /\ [tab EXCEPT !.saving = x].items = tab.items /\ [tab EXCEPT !.saving = x].loading = tab.loading
         /\ [tab EXCEPT !.form = f] \in TabT /\ [tab EXCEPT !.form = f].no = tab.no
         /\ [tab EXCEPT !.form = f].items = tab.items /\ [tab EXCEPT !.form = f].loading = tab.loading
BY DEF SettingsTyped, TabT

(* What the user does on the tab on screen. *)
LEMMA PageRequests ==
  ASSUME SettingsInv,
         \/ SignaturesTab \/ AutoReplyTab \/ handleApply
         \/ FilterList \/ AddressLists \/ FilterDialogs \/ BridgeTab
         \/ \E o \in Holders : SwitchOwner(o)
  PROVE  SettingsInv'
<1>0. /\ SettingsTyped /\ owner \in Holders /\ look \in Made /\ tab \in TabT /\ tab.form \in Made
      /\ steps \in Nos /\ DOMAIN tab.items \subseteq ItemIds /\ owner \in Made
      /\ (\A i \in DOMAIN tab.items : tab.items[i].kind \in ItemKinds /\ tab.items[i].on \in BOOLEAN)
  <2>1. SettingsTyped /\ owner \in Holders /\ look \in Made /\ tab \in TabT /\ steps \in Nos
    BY DEF SettingsInv, SettingsTyped
  <2>2. tab.form \in Made /\ tab.items \in ItemLists
    BY <2>1 DEF TabT
  <2>3. DOMAIN tab.items \subseteq ItemIds /\ \A i \in DOMAIN tab.items : tab.items[i] \in RuleRow
    BY <2>2, ListFacts
  <2> QED BY <2>1, <2>2, <2>3 DEF RuleRow, Made
<1>1. CASE FillForm
  <2>1. steps' \in Nos /\ steps' = steps + 1 /\ steps \in Nat /\ tab' = [tab EXCEPT !.form = owner]
        /\ UNCHANGED <<owner, look, localSig, settings, rules, deleted, saves>>
    BY <1>0, <1>1, StepCounted DEF FillForm
  <2>2. tab' \in TabT /\ tab'.no = tab.no /\ tab'.items = tab.items /\ tab'.loading = tab.loading
        /\ tab'.kind = tab.kind
    BY <1>0, <2>1, TabMarked DEF Flags
  <2>3. SettingsTyped'
    BY <1>0, <2>1, <2>2 DEF SettingsTyped
  <2>4. NosKnown'
    <3>1. tab.no \in Nat
      BY <1>0, MailSettingsAssumption DEF TabT, Nos
    <3> QED BY <2>1, <2>2, <3>1 DEF SettingsInv, NosKnown
  <2> QED BY <2>1, <2>2, <2>3, <2>4 DEF SettingsInv, ListsAgree, SavesNamed, LoadFirst, OnlyBridge,
                                        CreatedNew,
                                       PendingCreate, NoGhostFilter
<1>2. ASSUME NEW kind, NEW o \in {"sig", "reply"}, SaveForm(kind, o) PROVE SettingsInv'
  <2> DEFINE q == Request(o)
  <2> DEFINE r == [q EXCEPT !.value = tab.form]
  <2>1. saves' = saves \cup {r} /\ steps' \in Nos /\ steps' = steps + 1 /\ steps \in Nat /\ ~tab.loading
        /\ tab' = [tab EXCEPT !.saving = {"main"}]
        /\ UNCHANGED <<owner, look, localSig, settings, rules, deleted>>
    BY <1>0, <1>2, StepCounted DEF SaveForm, Requested
  <2>2. r \in SaveT /\ r.op = o /\ ~r.ok /\ r.no = tab.no /\ DOMAIN r.items = {}
    <3>1. o \in SaveOps
      BY DEF SaveOps
    <3>2. q \in SaveT /\ q.op = o /\ ~q.ok /\ q.no = tab.no /\ DOMAIN q.items = {}
      BY <1>0, <3>1, RequestTyped
    <3> HIDE DEF q
    <3> QED BY <1>0, <3>1, <3>2 DEF SaveT
  <2> HIDE DEF r
  <2>3. tab' \in TabT /\ tab'.no = tab.no /\ tab'.items = tab.items /\ tab'.loading = tab.loading
        /\ tab'.kind = tab.kind
    BY <1>0, <2>1, TabMarked DEF Flags
  <2> QED BY <1>0, <2>1, <2>2, <2>3, NewRequest
<1>3. CASE handleApply
  <2> DEFINE q == Request("look")
  <2> DEFINE r == [q EXCEPT !.value = look]
  <2>1. saves' = saves \cup {r} /\ steps' \in Nos /\ steps' = steps + 1 /\ steps \in Nat
        /\ tab' = [tab EXCEPT !.saving = {"main"}]
        /\ UNCHANGED <<owner, look, localSig, settings, rules, deleted>>
    BY <1>0, <1>3, StepCounted DEF handleApply, Requested
  <2>2. r \in SaveT /\ r.op = "look" /\ ~r.ok /\ r.no = tab.no /\ DOMAIN r.items = {}
    <3>1. "look" \in SaveOps
      BY DEF SaveOps
    <3>2. q \in SaveT /\ q.op = "look" /\ ~q.ok /\ q.no = tab.no /\ DOMAIN q.items = {}
      BY <1>0, <3>1, RequestTyped
    <3> HIDE DEF q
    <3> QED BY <1>0, <3>1, <3>2 DEF SaveT
  <2> HIDE DEF r
  <2>3. tab' \in TabT /\ tab'.no = tab.no /\ tab'.items = tab.items /\ tab'.loading = tab.loading
        /\ tab'.kind = tab.kind
    BY <1>0, <2>1, TabMarked DEF Flags
  <2> QED BY <1>0, <2>1, <2>2, <2>3, NewRequest
<1>4. ASSUME NEW o \in Holders, SwitchOwner(o) PROVE SettingsInv'
  <2> DEFINE q == Request("prefs")
  <2> DEFINE r == [q EXCEPT !.box = o, !.kind = "appearance"]
  <2>1. saves' = saves \cup {r} /\ steps' \in Nos /\ steps' = steps + 1 /\ steps \in Nat /\ owner' = o
        /\ UNCHANGED <<tab, look, localSig, settings, rules, deleted>>
    BY <1>0, <1>4, StepCounted DEF SwitchOwner, Requested
  <2>2. r \in SaveT /\ r.op = "prefs" /\ ~r.ok /\ r.no = tab.no /\ DOMAIN r.items = {}
    <3>1. "prefs" \in SaveOps /\ "appearance" \in Tabs \cup ItemKinds
      BY DEF SaveOps, Tabs
    <3>2. q \in SaveT /\ q.op = "prefs" /\ ~q.ok /\ q.no = tab.no /\ DOMAIN q.items = {}
      BY <1>0, <3>1, RequestTyped
    <3> HIDE DEF q
    <3> QED BY <1>0, <3>1, <3>2 DEF SaveT
  <2> HIDE DEF r
  <2> QED BY <1>0, <2>1, <2>2, NewRequest
<1>5. ASSUME NEW where, NEW kind \in ItemKinds, CreateItem(where, kind),
             where = "bridge" <=> kind = "bridge"
      PROVE  SettingsInv'
  <2> DEFINE q == Request("create")
  <2> DEFINE r == [q EXCEPT !.kind = kind]
  <2> DEFINE x == tab.saving \cup {Flag(kind)}
  <2>1. saves' = saves \cup {r} /\ steps' \in Nos /\ steps' = steps + 1 /\ steps \in Nat
        /\ tab.kind = where /\ (where = "bridge" \/ ~tab.loading)
        /\ tab' = [tab EXCEPT !.saving = x]
        /\ UNCHANGED <<owner, look, localSig, settings, rules, deleted>>
    BY <1>0, <1>5, StepCounted DEF CreateItem, Requested, OnItems
  <2>2. r \in SaveT /\ r.op = "create" /\ r.kind = kind /\ ~r.ok /\ r.no = tab.no /\ DOMAIN r.items = {}
    <3>1. "create" \in SaveOps
      BY DEF SaveOps
    <3>2. q \in SaveT /\ q.op = "create" /\ ~q.ok /\ q.no = tab.no /\ DOMAIN q.items = {}
      BY <1>0, <3>1, RequestTyped
    <3> HIDE DEF q
    <3> QED BY <1>0, <3>1, <3>2 DEF SaveT
  <2> HIDE DEF r
  <2>x. x \in SUBSET Flags
    BY <1>0 DEF TabT, Flag, Flags
  <2> HIDE DEF x
  <2>3. tab' \in TabT /\ tab'.no = tab.no /\ tab'.items = tab.items /\ tab'.loading = tab.loading
        /\ tab'.kind = tab.kind
    BY <1>0, <2>1, <2>x, TabMarked
  <2> QED BY <1>0, <1>5, <2>1, <2>2, <2>3, NewRequest
<1>6. ASSUME NEW i \in DOMAIN tab.items, EditFilter(i) PROVE SettingsInv'
  <2> DEFINE q == Request("edit")
  <2> DEFINE r == [q EXCEPT !.id = i]
  <2> DEFINE x == tab.saving \cup {"main"}
  <2>1. saves' = saves \cup {r} /\ steps' \in Nos /\ steps' = steps + 1 /\ steps \in Nat /\ ~tab.loading
        /\ tab' = [tab EXCEPT !.saving = x]
        /\ UNCHANGED <<owner, look, localSig, settings, rules, deleted>>
    BY <1>0, <1>6, StepCounted DEF EditFilter, Requested, OnItems
  <2>2. r \in SaveT /\ r.op = "edit" /\ r.id = i /\ ~r.ok /\ r.no = tab.no /\ DOMAIN r.items = {}
    <3>1. "edit" \in SaveOps
      BY DEF SaveOps
    <3>2. q \in SaveT /\ q.op = "edit" /\ ~q.ok /\ q.no = tab.no /\ DOMAIN q.items = {}
      BY <1>0, <3>1, RequestTyped
    <3> HIDE DEF q
    <3> QED BY <1>0, <3>1, <3>2 DEF SaveT
  <2> HIDE DEF r
  <2>x. x \in SUBSET Flags
    BY <1>0 DEF TabT, Flags
  <2> HIDE DEF x
  <2>3. tab' \in TabT /\ tab'.no = tab.no /\ tab'.items = tab.items /\ tab'.loading = tab.loading
        /\ tab'.kind = tab.kind
    BY <1>0, <2>1, <2>x, TabMarked
  <2> QED BY <1>0, <2>1, <2>2, <2>3, NewRequest
<1>7. ASSUME NEW i \in DOMAIN tab.items, handleToggleFilterActive(i) PROVE SettingsInv'
  <2> DEFINE q == Request("toggle")
  <2> DEFINE r == [q EXCEPT !.id = i, !.on = ~tab.items[i].on]
  <2>1. saves' = saves \cup {r} /\ steps' \in Nos /\ steps' = steps + 1 /\ steps \in Nat /\ ~tab.loading
        /\ UNCHANGED <<owner, tab, look, localSig, settings, rules, deleted>>
    BY <1>0, <1>7, StepCounted DEF handleToggleFilterActive, Requested, OnItems
  <2>2. r \in SaveT /\ r.op = "toggle" /\ r.id = i /\ ~r.ok /\ r.no = tab.no /\ DOMAIN r.items = {}
    <3>1. "toggle" \in SaveOps /\ (~tab.items[i].on) \in BOOLEAN
      BY DEF SaveOps
    <3>2. q \in SaveT /\ q.op = "toggle" /\ ~q.ok /\ q.no = tab.no /\ DOMAIN q.items = {}
      BY <1>0, <3>1, RequestTyped
    <3> HIDE DEF q
    <3> QED BY <1>0, <3>1, <3>2 DEF SaveT
  <2> HIDE DEF r
  <2> QED BY <1>0, <2>1, <2>2, NewRequest
<1>8. ASSUME NEW i \in DOMAIN tab.items, NEW kinds, DeleteItem(i, kinds) PROVE SettingsInv'
  <2> DEFINE q == Request("delete")
  <2> DEFINE r == [q EXCEPT !.id = i, !.kind = tab.items[i].kind]
  <2>1. saves' = saves \cup {r} /\ steps' \in Nos /\ steps' = steps + 1 /\ steps \in Nat /\ ~tab.loading
        /\ UNCHANGED <<owner, tab, look, localSig, settings, rules, deleted>>
    BY <1>0, <1>8, StepCounted DEF DeleteItem, Requested, OnItems
  <2>2. r \in SaveT /\ r.op = "delete" /\ r.id = i /\ ~r.ok /\ r.no = tab.no /\ DOMAIN r.items = {}
    <3>1. "delete" \in SaveOps
      BY DEF SaveOps
    <3>2. q \in SaveT /\ q.op = "delete" /\ ~q.ok /\ q.no = tab.no /\ DOMAIN q.items = {}
      BY <1>0, <3>1, RequestTyped
    <3> HIDE DEF q
    <3> QED BY <1>0, <3>1, <3>2 DEF SaveT
  <2> HIDE DEF r
  <2> QED BY <1>0, <2>1, <2>2, NewRequest
<1>9. "custom" \in ItemKinds /\ "sieve" \in ItemKinds /\ "address" \in ItemKinds /\ "bridge" \in ItemKinds
  BY DEF ItemKinds
<1>10. CASE SignaturesTab \/ AutoReplyTab
  BY <1>1, <1>2, <1>10 DEF SignaturesTab, AutoReplyTab, handleSaveSignatures, handleSaveAutoReply
<1>11. CASE FilterList \/ AddressLists \/ FilterDialogs \/ BridgeTab
  BY <1>5, <1>6, <1>7, <1>8, <1>9, <1>11
     DEF FilterList, AddressLists, FilterDialogs, BridgeTab, handleDeleteFilter,
         handleDeleteAddressRule,
         handleRevoke, handleAddAddressRule, handleSaveCustomFilter, handleSaveSieveFilter, handleCreateToken
<1> QED BY <1>3, <1>4, <1>10, <1>11

(* Another tab is shown: nothing of the tabs before it is about its list. *)
LEMMA ShowTabStep ==
  ASSUME SettingsInv, NEW kind \in Tabs, ShowTab(kind)
  PROVE  SettingsInv'
<1>0. /\ SettingsTyped /\ ListsAgree /\ NosKnown /\ SavesNamed
      /\ steps \in Nos /\ tab \in TabT /\ tab.no \in Nos /\ tab.form \in Made /\ saves \subseteq SaveT
  BY DEF SettingsInv, SettingsTyped, TabT
<1> DEFINE n == tab.no + 1
<1> DEFINE q == Request("load")
<1> DEFINE r == [q EXCEPT !.no = n, !.kind = kind]
<1> DEFINE left == {IF Mine(t) THEN [t EXCEPT !.form = tab.form] ELSE t : t \in saves}
<1>1. /\ steps' \in Nos /\ tab' = Shown(kind, n)
      /\ saves' = left \/ saves' = left \cup {r}
      /\ UNCHANGED <<owner, look, localSig, settings, rules, deleted>>
  BY <1>0, StepCounted DEF ShowTab
<1>2. n \in Nos /\ n <= steps' /\ tab.no \in Nat /\ n \in Nat /\ n > tab.no
  <2>1. steps' = steps + 1 /\ steps < MaxSteps /\ steps \in Nat /\ tab.no \in Nat /\ tab.no <= steps
    BY <1>0, StepCounted, MailSettingsAssumption DEF ShowTab, Step, NosKnown, Nos
  <2> QED BY <2>1, MailSettingsAssumption DEF Nos
<1> HIDE DEF n
<1>3. tab' \in TabT /\ tab'.no = n /\ DOMAIN tab'.items = {}
  <2>1. tab' = [kind |-> kind, no |-> n, form |-> Default, items |-> NoRules,
                loading |-> kind # "none", saving |-> {}]
    BY <1>1 DEF Shown
  <2>2. (kind # "none") \in BOOLEAN /\ Default \in Made
    BY DEF Made
  <2> QED BY <1>2, <2>1, <2>2, NoRulesEmpty DEF TabT
<1>4. r \in SaveT /\ r.op = "load" /\ ~r.ok /\ r.no = n /\ r.kind = kind /\ DOMAIN r.items = {}
  <2>1. "load" \in SaveOps
    BY DEF SaveOps
  <2>2. q \in SaveT /\ q.op = "load" /\ ~q.ok /\ q.no = tab.no /\ DOMAIN q.items = {}
    BY <1>0, <2>1, RequestTyped
  <2> HIDE DEF q
  <2> QED BY <1>2, <2>2 DEF SaveT
<1> HIDE DEF r
<1>5. ASSUME NEW u \in left
      PROVE  /\ u \in SaveT /\ u.no <= tab.no /\ u.no \in Nat
             /\ Agrees(u.items, rules) /\ SaveNamed(u, rules)
  <2>1. PICK t \in saves : u = IF Mine(t) THEN [t EXCEPT !.form = tab.form] ELSE t
    OBVIOUS
  <2>2. /\ u \in SaveT /\ u.op = t.op /\ u.no = t.no /\ u.ok = t.ok /\ u.id = t.id /\ u.kind = t.kind
        /\ u.items = t.items
    BY <1>0, <2>1 DEF SaveT
  <2>3. t.no <= tab.no /\ t.no \in Nat /\ Agrees(t.items, rules) /\ SaveNamed(t, rules)
    BY <1>0, MailSettingsAssumption DEF NosKnown, ListsAgree, SavesNamed, SaveT, Nos
  <2> QED BY <2>2, <2>3 DEF SaveNamed
<1> HIDE DEF left
<1>6. SettingsTyped'
  <2>1. saves' \subseteq SaveT
    BY <1>1, <1>4, <1>5
  <2> QED BY <1>0, <1>1, <1>3, <2>1 DEF SettingsTyped
<1>7. \A u \in saves' : u.no = n => u = r
  BY <1>1, <1>2, <1>5
<1>8. ListsAgree'
  <2>1. Agrees(r.items, rules) /\ Agrees(tab'.items, rules)
    BY <1>3, <1>4 DEF Agrees
  <2> QED BY <1>1, <1>5, <2>1 DEF ListsAgree
<1>9. NosKnown'
  <2>1. \A u \in saves' : u.no <= n
    BY <1>1, <1>2, <1>4, <1>5
  <2>2. \A i \in ItemIds : \A m \in Nos : <<i,
                                            m>> \in deleted => m < n /\ m <= n /\ i \in DOMAIN rules
    <3>1. \A m \in Nos : m \in Nat
      BY MailSettingsAssumption DEF Nos
    <3> QED BY <1>0, <1>2, <3>1 DEF NosKnown
  <2> QED BY <1>1, <1>2, <1>3, <2>1, <2>2 DEF NosKnown
<1>10. \A i \in ItemIds : <<i, n>> \notin deleted
  BY <1>0, <1>2 DEF NosKnown
<1>11. SavesNamed'
  <2>1. SaveNamed(r, rules)
    BY <1>4 DEF SaveNamed
  <2> QED BY <1>1, <1>5, <2>1 DEF SavesNamed, SaveNamed
<1>12. LoadFirst'
  <2>1. ASSUME NEW l \in saves', l.op = "load", l.no = n PROVE tab'.loading
    <3>1. l = r
      BY <1>7, <2>1
    <3>2. saves' # left
      BY <1>2, <1>5, <2>1
    <3>3. kind # "none"
      BY <3>2 DEF ShowTab, left
    <3> QED BY <1>1, <3>3 DEF Shown
  <2> QED BY <1>1, <1>3, <1>7, <1>10, <2>1 DEF LoadFirst
<1>13. CreatedNew'
  BY <1>3, <1>4, <1>7 DEF CreatedNew, PendingCreate
<1>14. NoGhostFilter'
  BY <1>3 DEF NoGhostFilter
<1>15. OnlyBridge'
  <2>1. tab'.kind = kind
    BY <1>1 DEF Shown
  <2> QED BY <1>3, <1>4, <1>7, <2>1 DEF OnlyBridge
<1> QED BY <1>6, <1>8, <1>9, <1>11, <1>12, <1>13, <1>14, <1>15 DEF SettingsInv

(* A handler ends, and what it leaves in the list of the tab is new. *)
LEMMA AnswerTaken ==
  ASSUME SettingsInv, NEW s \in saves, saves' = saves \ {s},
         tab' \in TabT, tab'.no = tab.no, look' \in Made, localSig' \in [Holders -> Made],
         tab'.kind = tab.kind,
         tab.kind = "bridge" => \A i \in DOMAIN tab'.items : rules[i].kind = "bridge",
         deleted' \subseteq ItemIds \X Nos, Agrees(tab'.items, rules),
         \A l \in saves \ {s} : l.op = "load" /\ l.no = tab.no /\ tab.kind # "bridge" =>
            tab'.loading /\ \A i \in ItemIds : <<i, tab.no>> \notin deleted',
         \A i \in ItemIds : \A n \in Nos : <<i,
                                             n>> \in deleted' => n <= tab.no /\ i \in DOMAIN rules,
         \A c \in saves \ {s} : PendingCreate(c) =>
            c.id \notin DOMAIN tab'.items /\ <<c.id, tab.no>> \notin deleted',
         NoGhostFilter', UNCHANGED <<owner, settings, rules, steps>>
  PROVE  SettingsInv'
<1>0. SettingsTyped /\ ListsAgree /\ NosKnown /\ SavesNamed /\ LoadFirst /\ OnlyBridge /\ CreatedNew
  BY DEF SettingsInv
<1>1. SettingsTyped'
  BY <1>0 DEF SettingsTyped
<1>2. ListsAgree'
  BY <1>0 DEF ListsAgree
<1>3. NosKnown'
  BY <1>0 DEF NosKnown
<1>4. SavesNamed'
  BY <1>0 DEF SavesNamed
<1>5. LoadFirst'
  BY <1>0 DEF LoadFirst
<1>6. CreatedNew'
  BY <1>0 DEF CreatedNew, PendingCreate
<1>7. OnlyBridge'
  BY <1>0 DEF OnlyBridge
<1> QED BY <1>1, <1>2, <1>3, <1>4, <1>5, <1>6, <1>7 DEF SettingsInv

(* The handlers that take an answer and end. *)
LEMMA AnswersTaken ==
  ASSUME SettingsInv, NEW s \in saves,
         \/ LoadTabAnswer(s) \/ FormSaved(s) \/ PrefsAnswer(s)
         \/ CreateAnswer(s) \/ loadCredentials(s) \/ UpdateAnswer(s) \/ DeleteAnswer(s)
  PROVE  SettingsInv'
<1>0. /\ SettingsTyped /\ ListsAgree /\ NosKnown /\ SavesNamed /\ LoadFirst /\ OnlyBridge /\ CreatedNew /\ NoGhostFilter
      /\ owner \in Holders /\ look \in Made /\ localSig \in [Holders -> Made] /\ rules \in ItemLists
      /\ deleted \subseteq ItemIds \X Nos /\ tab \in TabT /\ saves \subseteq SaveT
  BY DEF SettingsInv, SettingsTyped
<1>s. /\ s \in SaveT /\ s.value \in Made /\ s.form \in Made /\ s.items \in ItemLists /\ s.no \in Nos
      /\ Agrees(s.items, rules) /\ SaveNamed(s, rules) /\ s.no <= tab.no
  BY <1>0, SaveFields DEF ListsAgree, SavesNamed, NosKnown
<1>t. /\ tab.items \in ItemLists /\ Agrees(tab.items, rules) /\ tab.no \in Nos /\ tab.no \in Nat
      /\ tab.form \in Made /\ DOMAIN tab.items \subseteq ItemIds
      /\ \A i \in DOMAIN tab.items : tab.items[i] \in RuleRow
  <2>1. tab.items \in ItemLists /\ tab.form \in Made /\ tab.no \in Nos
    BY <1>0 DEF TabT
  <2> QED BY <1>0, <2>1, ListFacts, MailSettingsAssumption DEF ListsAgree, Nos
<1>k. tab.kind = "bridge" => \A i \in DOMAIN tab.items : rules[i].kind = "bridge"
  BY <1>0 DEF OnlyBridge
<1>l. \A l \in saves \ {s} : l.op = "load" /\ l.no = tab.no /\ tab.kind # "bridge" =>
        /\ tab.loading /\ (\A i \in ItemIds : <<i, tab.no>> \notin deleted)
        /\ (s.no = tab.no => s.op \in {"prefs", "look"})
  BY <1>0 DEF LoadFirst
<1>c. \A c \in saves \ {s} : PendingCreate(c) =>
        c.id \notin DOMAIN tab.items /\ <<c.id, tab.no>> \notin deleted
  BY <1>0 DEF CreatedNew
<1>d. \A i \in ItemIds : \A n \in Nos : <<i, n>> \in deleted => n <= tab.no /\ i \in DOMAIN rules
  BY <1>0 DEF NosKnown
<1>q. ASSUME saves' = saves \ {s}, tab' \in TabT, tab'.no = tab.no, tab'.items = tab.items,
             tab'.kind = tab.kind,
             s.no # tab.no \/ s.op \in {"prefs", "look"} => tab'.loading = tab.loading,
             look' \in Made, localSig' \in [Holders -> Made],
             UNCHANGED <<owner, settings, rules, deleted, steps>>
      PROVE  SettingsInv'
  <2>1. NoGhostFilter'
    BY <1>0, <1>q DEF NoGhostFilter
  <2>2. \A l \in saves \ {s} : l.op = "load" /\ l.no = tab.no /\ tab.kind # "bridge" =>
            tab'.loading /\ \A i \in ItemIds : <<i, tab.no>> \notin deleted'
    BY <1>l, <1>q
  <2> QED BY <1>0, <1>t, <1>c, <1>d, <1>k, <1>q, <2>1, <2>2, AnswerTaken
<1>1. CASE FormSaved(s)
  <2>1. saves' = saves \ {s} /\ UNCHANGED <<owner, look, settings, rules, deleted, steps>>
        /\ (tab' = tab \/ tab' = [tab EXCEPT !.saving = {}])
        /\ (localSig' = localSig \/ localSig' = [localSig EXCEPT ![owner] = tab.form]
            \/ localSig' = [localSig EXCEPT ![owner] = s.form])
    BY <1>1 DEF FormSaved, saveSignature, Unless
  <2>2. localSig' \in [Holders -> Made]
    BY <1>0, <1>s, <1>t, <2>1
  <2>3. tab' \in TabT /\ tab'.no = tab.no /\ tab'.items = tab.items /\ tab'.loading = tab.loading
        /\ tab'.kind = tab.kind
    BY <1>0, <2>1 DEF TabT
  <2> QED BY <1>0, <1>q, <2>1, <2>2, <2>3
<1>2. CASE PrefsAnswer(s)
  <2>1. saves' = saves \ {s} /\ UNCHANGED <<owner, tab, localSig, settings, rules, deleted, steps>>
        /\ look' \in Made
    BY <1>0, <1>s, <1>2 DEF PrefsAnswer
  <2> QED BY <1>0, <1>q, <2>1
<1>3. CASE s.no # tab.no /\ s.op # "delete" /\ saves' = saves \ {s}
  <2>1. tab' = tab /\ UNCHANGED <<owner, settings, rules, deleted, steps>>
        /\ look' \in Made /\ localSig' \in [Holders -> Made]
    <3>1. CASE LoadTabAnswer(s)
      BY <1>0, <1>s, <1>3, <3>1 DEF LoadTabAnswer, Unless, Mine
    <3>2. CASE CreateAnswer(s) \/ loadCredentials(s) \/ UpdateAnswer(s)
      BY <1>0, <1>3, <3>2 DEF CreateAnswer, loadCredentials, UpdateAnswer, Unless, Mine
    <3>3. CASE FormSaved(s) \/ PrefsAnswer(s)
      <4>1. CASE PrefsAnswer(s)
        BY <1>0, <1>s, <4>1 DEF PrefsAnswer
      <4>2. CASE FormSaved(s)
        <5>1. tab' = tab /\ UNCHANGED <<owner, look, settings, rules, deleted, steps>>
              /\ (localSig' = localSig \/ localSig' = [localSig EXCEPT ![owner] = s.form])
          BY <1>3, <4>2 DEF FormSaved, saveSignature, Unless, Mine
        <5> QED BY <1>0, <1>s, <5>1
      <4> QED BY <3>3, <4>1, <4>2
    <3>4. ~DeleteAnswer(s)
      BY <1>3 DEF DeleteAnswer
    <3> QED BY <3>1, <3>2, <3>3, <3>4
  <2> QED BY <1>0, <1>q, <1>3, <2>1
<1>4. CASE LoadTabAnswer(s) /\ s.no = tab.no
  <2> DEFINE f == IF s.ok THEN s.value ELSE tab.form
  <2> DEFINE l == IF s.ok THEN s.items ELSE tab.items
  <2>1. s.op = "load" /\ saves' = saves \ {s} /\ UNCHANGED <<owner, localSig, settings, rules,
                                                             deleted, steps>>
        /\ look' \in Made /\ tab' = [tab EXCEPT !.loading = FALSE, !.form = f, !.items = l]
    BY <1>0, <1>s, <1>4 DEF LoadTabAnswer, Unless, Mine
  <2>2. f \in Made /\ l \in ItemLists /\ Agrees(l, rules)
    BY <1>s, <1>t
  <2> HIDE DEF f, l
  <2>3. tab' \in TabT /\ tab'.no = tab.no /\ tab'.items = l /\ tab'.kind = tab.kind
    BY <1>0, <2>1, <2>2 DEF TabT
  <2>4. \/ /\ \A i \in ItemIds : <<i, tab.no>> \notin deleted
           /\ \A t \in saves \ {s} : t.no = tab.no => t.op \in {"prefs", "look"}
        \/ /\ tab.kind = "bridge"
           /\ \A i \in DOMAIN l : l[i].kind = "bridge" /\ rules[i].kind = "bridge"
           /\ \A t \in saves \ {s} : t.no = tab.no /\ t.op = "create" => t.kind = "bridge"
    BY <1>0, <1>t, <1>s, <1>4, <2>1 DEF LoadFirst, OnlyBridge, Agrees, l
  <2>5. NoGhostFilter'
    <3>1. DOMAIN l \subseteq ItemIds
      BY <2>2, ListFacts
    <3> QED BY <2>1, <2>3, <2>4, <3>1 DEF NoGhostFilter
  <2>6. /\ tab.kind # "bridge" => \A c \in saves \ {s} : c.no = tab.no => c.op # "load"
        /\ \A c \in saves \ {s} : ~PendingCreate(c)
    BY <1>0, <1>4, <2>1, <2>4 DEF PendingCreate, LoadFirst
  <2>7. tab.kind = "bridge" => \A i \in DOMAIN l : rules[i].kind = "bridge"
    BY <1>0, <1>s, <1>k, <1>4, <2>1 DEF OnlyBridge, l
  <2> QED BY <1>0, <1>d, <2>1, <2>2, <2>3, <2>5, <2>6, <2>7, AnswerTaken
<1>5. CASE CreateAnswer(s) /\ s.ok /\ s.kind = "bridge"
  <2> DEFINE q == Request("reload")
  <2> DEFINE r == [q EXCEPT !.no = s.no, !.kind = "bridge"]
  <2>1. s.op = "create" /\ saves' = (saves \ {s}) \cup {r}
        /\ (tab' = tab \/ (s.no = tab.no /\ tab' = [tab EXCEPT !.loading = TRUE]))
        /\ UNCHANGED <<owner, look, localSig, settings, rules, deleted, steps>>
    BY <1>5 DEF CreateAnswer, Unless, Mine
  <2>2. r \in SaveT /\ r.op = "reload" /\ ~r.ok /\ r.no = s.no /\ DOMAIN r.items = {}
    <3>1. "reload" \in SaveOps /\ "bridge" \in Tabs \cup ItemKinds
      BY DEF SaveOps, Tabs
    <3>2. q \in SaveT /\ q.op = "reload" /\ ~q.ok /\ DOMAIN q.items = {}
      BY <1>0, <3>1, RequestTyped
    <3> HIDE DEF q
    <3> QED BY <1>s, <3>1, <3>2 DEF SaveT
  <2> HIDE DEF r
  <2>3. tab' \in TabT /\ tab'.no = tab.no /\ tab'.items = tab.items /\ tab'.kind = tab.kind
    BY <1>0, <2>1 DEF TabT
  <2>4. SettingsTyped'
    BY <1>0, <2>1, <2>2, <2>3 DEF SettingsTyped
  <2>5. ListsAgree' /\ NoGhostFilter'
    BY <1>0, <2>1, <2>2, <2>3 DEF ListsAgree, Agrees, NoGhostFilter
  <2>6. NosKnown'
    BY <1>0, <1>s, <2>1, <2>2, <2>3 DEF NosKnown
  <2>7. SavesNamed'
    <3>1. SaveNamed(r, rules)
      BY <2>2 DEF SaveNamed
    <3> QED BY <1>0, <2>1, <3>1 DEF SavesNamed, SaveNamed
  <2>8. LoadFirst'
    <3>1. ASSUME NEW l \in saves', l.op = "load", l.no = tab.no, tab.kind # "bridge"
          PROVE  /\ tab'.loading /\ \A i \in ItemIds : <<i, tab.no>> \notin deleted
                 /\ \A t \in saves' : t.no = tab.no => t = l \/ t.op \in {"prefs", "look"}
      <4>1. l \in saves \ {s}
        BY <2>1, <2>2, <3>1
      <4>2. s.no # tab.no
        BY <1>l, <2>1, <3>1, <4>1
      <4>3. tab' = tab /\ r.no # tab.no
        BY <2>1, <2>2, <4>2
      <4> QED BY <1>0, <2>1, <3>1, <4>1, <4>3 DEF LoadFirst
    <3> QED BY <2>1, <2>3, <3>1 DEF LoadFirst
  <2>9. CreatedNew'
    <3>1. \A t \in saves' : t.op \in {"create", "delete"} => t \in saves
      BY <2>1, <2>2
    <3> QED BY <1>0, <2>1, <2>3, <3>1 DEF CreatedNew, PendingCreate
  <2>10. OnlyBridge'
    BY <1>0, <2>1, <2>2, <2>3 DEF OnlyBridge
  <2> QED BY <2>4, <2>5, <2>6, <2>7, <2>8, <2>9, <2>10 DEF SettingsInv
<1>6. CASE CreateAnswer(s) /\ ~(s.ok /\ s.kind = "bridge") /\ s.no = tab.no
  <2> DEFINE l == IF s.ok THEN [i \in DOMAIN tab.items \cup {s.id} |-> IF i = s.id THEN s.items[i] ELSE tab.items[i]]
                          ELSE tab.items
  <2> DEFINE x == tab.saving \ {Flag(s.kind)}
  <2>1. s.op = "create" /\ saves' = saves \ {s} /\ tab' = [tab EXCEPT !.saving = x, !.items = l]
        /\ UNCHANGED <<owner, look, localSig, settings, rules, deleted, steps>>
    BY <1>6 DEF CreateAnswer, Unless, Mine
  <2>x. x \in SUBSET Flags
    BY <1>0 DEF TabT
  <2> HIDE DEF x
  <2>b. s.ok => tab.kind # "bridge"
    BY <1>0, <1>6, <2>1 DEF OnlyBridge
  <2>2. CASE ~s.ok
    <3>1. l = tab.items
      BY <2>2
    <3> HIDE DEF l
    <3>2. tab' \in TabT /\ tab'.no = tab.no /\ tab'.items = tab.items /\ tab'.loading = tab.loading
        /\ tab'.kind = tab.kind
      BY <1>0, <1>t, <2>1, <2>x, <3>1 DEF TabT
    <3> QED BY <1>0, <1>q, <2>1, <3>2
  <2>3. CASE s.ok
    <3>1. PendingCreate(s) /\ DOMAIN s.items = {s.id} /\ s.id \in DOMAIN rules
      BY <1>s, <1>6, <2>1, <2>3 DEF PendingCreate, SaveNamed
    <3>2. s.id \in ItemIds /\ s.items[s.id] \in RuleRow /\ s.items[s.id].kind = rules[s.id].kind
      BY <1>s, <3>1, ListFacts DEF Agrees
    <3>3. l = [i \in DOMAIN tab.items \cup {s.id} |-> IF i = s.id THEN s.items[i] ELSE tab.items[i]]
      BY <2>3
    <3> HIDE DEF l
    <3>4. DOMAIN l = DOMAIN tab.items \cup {s.id} /\ l[s.id] = s.items[s.id]
          /\ (\A i \in DOMAIN tab.items : i # s.id => l[i] = tab.items[i])
          /\ l \in ItemLists
      <4>1. l \in [DOMAIN tab.items \cup {s.id} -> RuleRow]
        BY <1>t, <3>2, <3>3
      <4>2. l \in ItemLists
        BY <1>t, <3>2, <4>1, ListMade
      <4> QED BY <3>3, <4>2
    <3>5. Agrees(l, rules)
      BY <1>t, <3>1, <3>2, <3>4 DEF Agrees
    <3>6. tab' \in TabT /\ tab'.no = tab.no /\ tab'.items = l /\ tab'.loading = tab.loading
        /\ tab'.kind = tab.kind
      BY <1>0, <2>1, <2>x, <3>4 DEF TabT
    <3>7. <<s.id, tab.no>> \notin deleted /\ \A c \in saves \ {s} : PendingCreate(c) => c.id # s.id
      BY <1>0, <3>1 DEF CreatedNew
    <3>8. NoGhostFilter'
      <4>1. ASSUME NEW i \in DOMAIN l, l[i].kind # "bridge" PROVE <<i, tab.no>> \notin deleted
        <5>1. CASE i = s.id
          BY <3>7, <5>1
        <5>2. CASE i # s.id
          BY <1>0, <3>4, <4>1, <5>2 DEF NoGhostFilter
        <5> QED BY <5>1, <5>2
      <4> QED BY <2>1, <3>6, <4>1 DEF NoGhostFilter
    <3>9. \A c \in saves \ {s} : PendingCreate(c) => c.id \notin DOMAIN tab'.items /\ <<c.id,
            tab.no>> \notin deleted'
      BY <1>c, <2>1, <3>4, <3>6, <3>7
    <3>10. \A k \in saves \ {s} : k.op = "load" /\ k.no = tab.no /\ tab.kind # "bridge" =>
            tab'.loading /\ \A i \in ItemIds : <<i, tab.no>> \notin deleted'
      BY <1>l, <2>1, <3>6
    <3> QED BY <1>0, <1>d, <2>1, <2>3, <2>b, <3>5, <3>6, <3>8, <3>9, <3>10, AnswerTaken
  <2> QED BY <2>2, <2>3
<1>7. CASE loadCredentials(s) /\ s.no = tab.no
  <2>1. s.op = "reload" /\ saves' = saves \ {s} /\ UNCHANGED <<owner, look, localSig, settings,
                                                               rules, deleted, steps>>
    BY <1>7 DEF loadCredentials
  <2>2. PICK l \in {tab.items, [i \in OfKind(Live(s.box), TRUE) |-> rules[i]]} :
          tab' = [tab EXCEPT !.items = l, !.loading = FALSE, !.saving = {}]
    BY <1>7 DEF loadCredentials, Unless, Mine
  <2>3. CASE l = tab.items
    <3>1. tab' \in TabT /\ tab'.no = tab.no /\ tab'.items = tab.items /\ tab'.kind = tab.kind
      BY <1>0, <1>t, <2>2, <2>3 DEF TabT
    <3> QED BY <1>0, <1>q, <1>7, <2>1, <3>1
  <2>4. CASE l = [i \in OfKind(Live(s.box), TRUE) |-> rules[i]]
    <3> DEFINE D == OfKind(Live(s.box), TRUE)
    <3>1. l = [i \in D |-> rules[i]] /\ D \subseteq DOMAIN rules /\ \A i \in D : rules[i].kind = "bridge"
      BY <2>4 DEF OfKind, Live
    <3> HIDE DEF D
    <3>2. l \in ItemLists /\ Agrees(l, rules) /\ (\A i \in DOMAIN l : l[i].kind = "bridge" /\ rules[i].kind = "bridge")
      <4>1. DOMAIN rules \subseteq ItemIds /\ \A i \in DOMAIN rules : rules[i] \in RuleRow
        BY <1>0, ListFacts
      <4>2. l \in [D -> RuleRow] /\ D \subseteq ItemIds
        BY <3>1, <4>1
      <4>3. l \in ItemLists
        BY <4>2, ListMade
      <4> QED BY <3>1, <4>3 DEF Agrees
    <3>3. tab' \in TabT /\ tab'.no = tab.no /\ tab'.items = l /\ tab'.kind = tab.kind
      BY <1>0, <2>2, <3>2 DEF TabT
    <3>4. NoGhostFilter'
      BY <3>2, <3>3 DEF NoGhostFilter
    <3>5. \A c \in saves \ {s} : PendingCreate(c) => c.id \notin DOMAIN tab'.items /\ <<c.id,
            tab.no>> \notin deleted'
      <4>1. \A c \in saves \ {s} : PendingCreate(c) => rules[c.id].kind # "bridge"
        BY <1>0 DEF SavesNamed, SaveNamed, PendingCreate
      <4> QED BY <1>c, <2>1, <3>2, <3>3, <4>1
    <3>6. \A k \in saves \ {s} : ~(k.op = "load" /\ k.no = tab.no /\ tab.kind # "bridge")
      BY <1>l, <1>7, <2>1
    <3> QED BY <1>0, <1>d, <2>1, <3>2, <3>3, <3>4, <3>5, <3>6, <1>k, AnswerTaken
  <2> QED BY <2>2, <2>3, <2>4
<1>8. CASE UpdateAnswer(s) /\ s.no = tab.no
  <2> DEFINE x == IF s.op = "edit" THEN tab.saving \ {"main"} ELSE tab.saving
  <2> DEFINE l == IF s.ok THEN [i \in DOMAIN tab.items |-> IF i = s.id THEN s.items[i] ELSE tab.items[i]]
                          ELSE tab.items
  <2>1. s.op \in {"toggle", "edit"} /\ saves' = saves \ {s} /\ tab' = [tab EXCEPT !.saving = x, !.items = l]
        /\ UNCHANGED <<owner, look, localSig, settings, rules, deleted, steps>>
    BY <1>8 DEF UpdateAnswer, Unless, Mine
  <2>2. x \in SUBSET Flags
    BY <1>0 DEF TabT
  <2> HIDE DEF x
  <2>3. /\ l \in ItemLists /\ DOMAIN l = DOMAIN tab.items /\ Agrees(l, rules)
        /\ \A i \in DOMAIN l : l[i].kind = tab.items[i].kind
    <3>1. CASE ~s.ok
      BY <1>t, <3>1
    <3>2. CASE s.ok
      <4>1. l = [i \in DOMAIN tab.items |-> IF i = s.id THEN s.items[i] ELSE tab.items[i]]
        BY <3>2
      <4> HIDE DEF l
      <4>2. s.id \in DOMAIN s.items /\ s.items[s.id] \in RuleRow /\ s.items[s.id].kind = rules[s.id].kind
        BY <1>s, <2>1, <3>2, ListFacts DEF SaveNamed, Agrees
      <4>3. l \in [DOMAIN tab.items -> RuleRow]
        BY <1>t, <4>1, <4>2
      <4>4. l \in ItemLists
        BY <1>t, <4>3, ListMade
      <4>5. \A i \in DOMAIN tab.items : i \in DOMAIN rules /\ l[i].kind = rules[i].kind /\ tab.items[i].kind = rules[i].kind
        BY <1>t, <4>1, <4>2 DEF Agrees
      <4> QED BY <4>1, <4>4, <4>5 DEF Agrees
    <3> QED BY <3>1, <3>2
  <2> HIDE DEF l
  <2>4. tab' \in TabT /\ tab'.no = tab.no /\ tab'.items = l /\ tab'.loading = tab.loading
        /\ tab'.kind = tab.kind
    BY <1>0, <2>1, <2>2, <2>3 DEF TabT
  <2>5. NoGhostFilter'
    BY <1>0, <2>1, <2>3, <2>4 DEF NoGhostFilter
  <2>6. \A c \in saves \ {s} : PendingCreate(c) => c.id \notin DOMAIN tab'.items /\ <<c.id,
          tab.no>> \notin deleted'
    BY <1>c, <2>1, <2>3, <2>4
  <2>7. \A k \in saves \ {s} : k.op = "load" /\ k.no = tab.no /\ tab.kind # "bridge" =>
          tab'.loading /\ \A i \in ItemIds : <<i, tab.no>> \notin deleted'
    BY <1>l, <2>1, <2>4
  <2> QED BY <1>0, <1>d, <2>1, <2>3, <2>4, <2>5, <2>6, <2>7, <1>k, AnswerTaken
<1>9. CASE DeleteAnswer(s)
  <2> DEFINE l == [i \in DOMAIN tab.items \ {s.id} |-> tab.items[i]]
  <2>1. /\ s.op = "delete" /\ saves' = saves \ {s} /\ UNCHANGED <<owner, look, localSig, settings,
                                                                  rules, steps>>
        /\ deleted' = IF s.ok THEN deleted \cup {<<s.id, s.no>>} ELSE deleted
    BY <1>9 DEF DeleteAnswer
  <2>2. s.id \in DOMAIN rules /\ s.id \in ItemIds
    BY <1>0, <1>s, <2>1, ListFacts DEF SaveNamed
  <2>3. /\ tab' \in TabT /\ tab'.no = tab.no /\ tab'.loading = tab.loading /\ Agrees(tab'.items, rules)
        /\ tab'.kind = tab.kind
        /\ DOMAIN tab'.items \subseteq DOMAIN tab.items /\ (\A i \in DOMAIN tab'.items : tab'.items[i] = tab.items[i])
        /\ (s.ok /\ s.no = tab.no => s.id \notin DOMAIN tab'.items)
    <3>1. CASE s.no = tab.no /\ s.ok
      <4>1. tab' = [tab EXCEPT !.items = l]
        BY <1>9, <3>1 DEF DeleteAnswer, Unless, Mine
      <4>2. l \in ItemLists /\ DOMAIN l = DOMAIN tab.items \ {s.id}
            /\ \A i \in DOMAIN l : l[i] = tab.items[i]
        <5>1. l \in [DOMAIN tab.items \ {s.id} -> RuleRow]
          BY <1>t
        <5>2. l \in ItemLists
          BY <1>t, <5>1, ListMade
        <5> QED BY <5>2
      <4> HIDE DEF l
      <4>3. tab' \in TabT /\ tab'.no = tab.no /\ tab'.items = l /\ tab'.loading = tab.loading
        /\ tab'.kind = tab.kind
        BY <1>0, <4>1, <4>2 DEF TabT
      <4> QED BY <1>t, <4>2, <4>3 DEF Agrees
    <3>2. CASE ~(s.no = tab.no /\ s.ok)
      <4>1. tab' = tab \/ tab' = [tab EXCEPT !.items = tab.items]
        BY <1>9, <3>2 DEF DeleteAnswer, Unless, Mine
      <4>2. tab' \in TabT /\ tab'.no = tab.no /\ tab'.items = tab.items /\ tab'.loading = tab.loading
        /\ tab'.kind = tab.kind
        BY <1>0, <1>t, <4>1 DEF TabT
      <4> QED BY <1>t, <3>2, <4>2
    <3> QED BY <3>1, <3>2
  <2>4. deleted' \subseteq ItemIds \X Nos
    BY <1>0, <1>s, <2>1, <2>2
  <2>5. \A i \in ItemIds : \A n \in Nos : <<i, n>> \in deleted' =>
          <<i, n>> \in deleted \/ (s.ok /\ i = s.id /\ n = s.no)
    BY <2>1
  <2>6. NoGhostFilter'
    <3>1. ASSUME NEW i \in DOMAIN tab'.items, tab'.items[i].kind # "bridge" PROVE <<i,
            tab.no>> \notin deleted'
      <4>1. i \in DOMAIN tab.items /\ <<i, tab.no>> \notin deleted /\ i \in ItemIds
        BY <1>0, <1>t, <2>3, <3>1 DEF NoGhostFilter
      <4> QED BY <1>t, <2>3, <2>5, <3>1, <4>1
    <3> QED BY <2>3, <3>1 DEF NoGhostFilter
  <2>7. \A c \in saves \ {s} : PendingCreate(c) => c.id \notin DOMAIN tab'.items /\ <<c.id,
          tab.no>> \notin deleted'
    <3>1. ASSUME NEW c \in saves \ {s}, PendingCreate(c)
          PROVE  c.id \notin DOMAIN tab'.items /\ <<c.id, tab.no>> \notin deleted'
      <4>1. c.id \in ItemIds
        BY <1>0, <3>1, ListFacts DEF SavesNamed, SaveNamed, PendingCreate
      <4>2. s.no = tab.no => s.id # c.id
        BY <1>0, <2>1, <3>1 DEF CreatedNew
      <4> QED BY <1>c, <1>t, <2>3, <2>5, <3>1, <4>1, <4>2
    <3> QED BY <3>1
  <2>8. \A k \in saves \ {s} : k.op = "load" /\ k.no = tab.no /\ tab.kind # "bridge" =>
          tab'.loading /\ \A i \in ItemIds : <<i, tab.no>> \notin deleted'
    BY <1>l, <1>t, <2>1, <2>3, <2>5
  <2>9. \A i \in ItemIds : \A n \in Nos : <<i, n>> \in deleted' => n <= tab.no /\ i \in DOMAIN rules
    BY <1>d, <1>s, <2>2, <2>5
  <2> QED BY <1>0, <2>1, <2>3, <2>4, <2>6, <2>7, <2>8, <2>9, <1>k, AnswerTaken
<1>10. \/ s.no = tab.no
       \/ FormSaved(s) \/ PrefsAnswer(s) \/ DeleteAnswer(s)
       \/ (CreateAnswer(s) /\ s.ok /\ s.kind = "bridge")
       \/ (s.no # tab.no /\ s.op # "delete" /\ saves' = saves \ {s})
  BY DEF LoadTabAnswer, CreateAnswer, loadCredentials, UpdateAnswer
<1> QED BY <1>1, <1>2, <1>3, <1>4, <1>5, <1>6, <1>7, <1>8, <1>9, <1>10

(* Every step of the settings page keeps the invariant. *)
LEMMA SettingsStep == SettingsInv /\ [MailSettingsNext]_settingsVars => SettingsInv'
<1> SUFFICES ASSUME SettingsInv, [MailSettingsNext]_settingsVars PROVE SettingsInv'
  OBVIOUS
<1>1. CASE UNCHANGED settingsVars
  BY <1>1 DEF settingsVars, SettingsInv, SettingsTyped, ListsAgree, NosKnown, SavesNamed, LoadFirst,
              OnlyBridge, CreatedNew, PendingCreate, NoGhostFilter
<1>2. CASE PageStep
  BY <1>2, ShowTabStep, PageRequests DEF PageStep
<1>3. ASSUME NEW s \in saves, SaveStep(s) PROVE SettingsInv'
  BY <1>3, ServerSteps, AnswersTaken DEF SaveStep
<1> QED BY <1>1, <1>2, <1>3 DEF MailSettingsNext

(* What the invariant says of the types. *)
LEMMA SettingsInvImplies == SettingsInv => MailSettingsTypeOK /\ NoGhostFilter
<1> SUFFICES ASSUME SettingsInv PROVE MailSettingsTypeOK
  BY DEF SettingsInv
<1>1. SettingsTyped /\ tab \in TabT
  BY DEF SettingsInv, SettingsTyped
<1>2. tab.kind \in Tabs /\ tab.no \in 0..MaxSteps /\ tab.form \in Made /\ tab.items \in ItemLists
      /\ tab.loading \in BOOLEAN /\ tab.saving \subseteq Flags
  BY <1>1 DEF TabT, Nos
<1>3. \A s \in saves : /\ s.box \in Holders /\ s.no \in 0..MaxSteps /\ s.value \in Made /\ s.form \in Made
                       /\ Listed(s.items) /\ s.id \in ItemIds \cup {Default}
  BY <1>1, SaveFields, ListListed DEF Nos
<1> QED BY <1>1, <1>2, <1>3, ListListed DEF SettingsTyped, MailSettingsTypeOK, SettingsT, Nos

-----------------------------------------------------------------------------
(* The mailbox on screen. *)

(* A list of messages, each an entry. *)
MailList(l) == DOMAIN l \subseteq Mail /\ \A m \in DOMAIN l : l[m] \in Entry
(* What the variables of the page hold, by name. *)
MaybeCopy == Copy \cup {Nil}
MaybeBox == Boxes \cup {Nil}
UndoT == [id : Mail, previousFolder : Folder] \cup {Nil}
ViewT == [folder : Folder, cf : CustomIds \cup {Nil}, label : LabelIds \cup {Nil}]
ContentT == [kind : Kinds, of : Mail \cup {Nil}, quote : Mail \cup {Nil},
             edit : Mail \cup {Nil}, atts : Mail \cup {Nil}]
FoundT == [query : BOOLEAN, ids : SUBSET Mail]
ServerT == [mail : [Mail -> Entry], cfs : [Boxes -> SUBSET CustomIds],
            lbls : [Boxes -> SUBSET LabelIds]]
Count == 0..MaxActs
(* A waiting handler is about a message, a folder or a label, as its       *)
(* operation says, and so is a request sent without waiting.               *)
WaitT == {w \in Wait : /\ w.op = "open" => w.id \in Mail
                       /\ w.op \in {"addFolder", "editFolder", "deleteFolder"} => w.id \in CustomIds
                       /\ w.op \in {"addLabel", "editLabel", "deleteLabel"} => w.id \in LabelIds}
CallT == {c \in Call : /\ c.op = "folder" => c.arg \in CustomIds \cup {Nil}
                       /\ c.op \in {"attach", "detach"} => c.arg \in LabelIds}

(* The types of what openMessage does not touch, and of what it does. *)
RestTyped ==
  /\ mbox \in Boxes /\ open4 \in MaybeBox /\ MailList(msgs)
  /\ picked \subseteq Mail /\ undo \in UndoT /\ view \in ViewT
  /\ cfs \subseteq CustomIds /\ lbls \subseteq LabelIds
  /\ decrypting \in BOOLEAN /\ found \in FoundT /\ calls \subseteq CallT /\ srv \in ServerT
ScreenTyped ==
  /\ sel \in MaybeCopy /\ content \in ContentT /\ waits \subseteq WaitT
  /\ seqNo \in Nat /\ seqNo <= acts /\ acts \in Count

(* The open that may write: the last one. While it waits, the pane shows   *)
(* nothing of another message and nothing can be quoted or edited; and it  *)
(* waits alone.                                                            *)
OpenWaits(w) == w.op = "open" /\ w.seq = seqNo
OpensNumbered == \A w \in waits : w.op = "open" => w.seq <= seqNo
LastOpenSound ==
  \A w \in waits : OpenWaits(w) =>
    /\ sel # Nil => sel.id = w.id
    /\ content.of \in {w.id, Nil} /\ content.atts \in {w.id, Nil}
    /\ content.quote = Nil /\ content.edit = Nil
    /\ \A v \in waits : OpenWaits(v) => v = w
(* The inductive invariant of the mailbox on screen: that the last message *)
(* opened is the one shown needs what an open that still waits may and may *)
(* not find there when it is answered.                                     *)
ViewInv ==
  /\ RestTyped /\ ScreenTyped /\ OpensNumbered /\ LastOpenSound
  /\ LatestOpenWins /\ SuccessOnlyPlaintext


(* A change of the open copy that opens no other message. *)
SelFollows == sel' = sel \/ sel' = Nil \/ (sel # Nil /\ sel' \in Copy /\ sel'.id = sel.id)

(* The user starts one thing more. *)
LEMMA ActCounted ==
  ASSUME ScreenTyped, Act \/ UNCHANGED acts
  PROVE  acts' \in Count /\ acts' \in Nat /\ acts \in Nat /\ acts <= acts'
         /\ (Act => acts' = acts + 1)
BY MailViewAssumption DEF Act, ScreenTyped, Count

(* An entry the program makes is one. *)
LEMMA FreshTyped == ASSUME NEW m PROVE Fresh(m) \in Entry
BY DEF Fresh, Entry, Folder

(* The fields of an entry. *)
LEMMA EntryFields ==
  ASSUME NEW e \in Entry
  PROVE  /\ e.folder \in Folder /\ e.cf \in CustomIds \cup {Nil} /\ e.labels \subseteq LabelIds
         /\ e.read \in BOOLEAN /\ e.starred \in BOOLEAN
BY DEF Entry

(* An entry that was read, or starred. *)
LEMMA EntryMarked ==
  ASSUME NEW e \in Entry
  PROVE  [e EXCEPT !.read = TRUE] \in Entry /\ [e EXCEPT !.starred = TRUE] \in Entry
<1>1. [e EXCEPT !.read = TRUE] \in Entry
  BY DEF Entry
<1>2. [e EXCEPT !.starred = TRUE] \in Entry
  BY DEF Entry
<1> QED BY <1>1, <1>2

(* A request that marks a message. *)
LEMMA ReadCallTyped ==
  ASSUME mbox \in Boxes, NEW m \in Mail, NEW r \in BOOLEAN
  PROVE  ReadCall(m, r) \in CallT
BY DEF ReadCall, CallT, Call, Folder

(* A handler that begins to wait. *)
LEMMA NewWaitTyped ==
  ASSUME mbox \in Boxes,
         NEW o \in {"load", "open", "search", "addFolder", "editFolder", "deleteFolder",
                    "addLabel", "editLabel", "deleteLabel"},
         NEW k \in {"ask", "crypto"}, NEW i \in Mail \cup CustomIds \cup LabelIds \cup {Nil}
  PROVE  /\ NewWait(o, k, i) \in Wait
         /\ NewWait(o, k, i).op = o /\ NewWait(o, k, i).id = i /\ NewWait(o, k, i).seq = 0
<1> DEFINE x == Fresh(CHOOSE m \in Mail : TRUE)
<1>1. x \in Entry
  BY FreshTyped
<1>2. NewWait(o, k, i) = [op |-> o, at |-> k, box |-> mbox, id |-> i, seq |-> 0, e |-> x]
  BY DEF NewWait
<1> HIDE DEF x
<1> QED BY <1>1, <1>2 DEF Wait

(* A step that opens nothing, writes nothing in the pane and sends no open *)
(* to wait keeps the pane in order.                                        *)
LEMMA ScreenKept ==
  ASSUME ViewInv, Act \/ UNCHANGED acts, content' = content, seqNo' = seqNo, SelFollows,
         \A w \in waits' : w \in waits \/ (w \in WaitT /\ w.op # "open"), RestTyped'
  PROVE  ViewInv'
<1>1. ScreenTyped'
  <2>1. /\ sel \in MaybeCopy /\ content \in ContentT /\ waits \subseteq WaitT
        /\ seqNo \in Nat /\ seqNo <= acts /\ ScreenTyped
    BY DEF ViewInv, ScreenTyped
  <2>2. sel' \in MaybeCopy
    BY <2>1 DEF SelFollows, MaybeCopy
  <2>3. acts' \in Count /\ seqNo' <= acts' /\ seqNo' \in Nat
    BY <2>1, ActCounted
  <2>4. waits' \subseteq WaitT
    BY <2>1
  <2> QED BY <2>1, <2>2, <2>3, <2>4 DEF ScreenTyped
<1>2. \A w \in waits' : w.op = "open" => w \in waits
  OBVIOUS
<1>3. OpensNumbered'
  BY <1>2 DEF ViewInv, OpensNumbered
<1>4. sel' # Nil => sel # Nil /\ sel'.id = sel.id
  BY DEF SelFollows
<1>5. LastOpenSound'
  <2> SUFFICES ASSUME NEW w \in waits', w.op = "open", w.seq = seqNo'
               PROVE  /\ sel' # Nil => sel'.id = w.id
                      /\ content'.of \in {w.id, Nil} /\ content'.atts \in {w.id, Nil}
                      /\ content'.quote = Nil /\ content'.edit = Nil
                      /\ \A v \in waits' : v.op = "open" /\ v.seq = seqNo' => v = w
    BY DEF LastOpenSound, OpenWaits
  <2>1. w \in waits /\ OpenWaits(w) /\ LastOpenSound
    BY <1>2 DEF OpenWaits, ViewInv
  <2>2. /\ sel # Nil => sel.id = w.id
        /\ content.of \in {w.id, Nil} /\ content.atts \in {w.id, Nil}
        /\ content.quote = Nil /\ content.edit = Nil
        /\ \A v \in waits : OpenWaits(v) => v = w
    BY <2>1 DEF LastOpenSound
  <2> QED BY <1>2, <1>4, <2>2 DEF OpenWaits
<1>6. LatestOpenWins' /\ SuccessOnlyPlaintext'
  BY <1>4 DEF ViewInv, LatestOpenWins, SuccessOnlyPlaintext
<1> QED BY <1>1, <1>3, <1>5, <1>6 DEF ViewInv

(* A change of messages, of the open copy, the selection, the undo toast   *)
(* and the requests under way.                                             *)
LEMMA MessagesStep ==
  ASSUME ViewInv, Act \/ UNCHANGED acts, Elsewhere, MailList(msgs'), SelFollows,
         picked' \subseteq Mail, undo' \in UndoT, calls' \subseteq CallT
  PROVE  ViewInv'
<1>1. RestTyped'
  BY DEF ViewInv, RestTyped, Elsewhere
<1>2. content' = content /\ seqNo' = seqNo /\ waits' = waits
  BY DEF Elsewhere
<1> QED BY <1>1, <1>2, ScreenKept

(* A change of the lists, and of what waits. *)
LEMMA ListsStep ==
  ASSUME ViewInv, Act \/ UNCHANGED acts, OnlyLists, SelFollows, MailList(msgs'),
         picked' \subseteq Mail, view' \in ViewT, cfs' \subseteq CustomIds,
         lbls' \subseteq LabelIds, found' \in FoundT, srv' \in ServerT,
         \A w \in waits' : w \in waits \/ (w \in WaitT /\ w.op # "open")
  PROVE  ViewInv'
<1>1. RestTyped'
  BY DEF ViewInv, RestTyped, OnlyLists
<1>2. content' = content /\ seqNo' = seqNo
  BY DEF OnlyLists
<1> QED BY <1>1, <1>2, ScreenKept

(* The mailbox that opens, nothing under way. *)
LEMMA ViewInit == MailViewInit => ViewInv
<1> SUFFICES ASSUME MailViewInit PROVE ViewInv
  OBVIOUS
<1>1. /\ mbox \in Boxes /\ open4 = mbox /\ sel = Nil /\ picked = {} /\ undo = Nil
      /\ content = Blank /\ decrypting = FALSE /\ found = [query |-> FALSE, ids |-> {}]
      /\ seqNo = 0 /\ waits = {} /\ calls = {} /\ acts = 0
      /\ cfs \subseteq CustomIds /\ lbls \subseteq LabelIds
      /\ view \in [folder : {"inbox", "trash"}, cf : {Nil}, label : {Nil}]
  BY DEF MailViewInit
<1>2. view \in ViewT /\ view.folder \in Folder
  BY <1>1 DEF ViewT, Folder
<1>3. ASSUME NEW m \in Mail
      PROVE  (IF m \in DraftMail THEN Fresh(m) ELSE [Fresh(m) EXCEPT !.folder = view.folder]) \in Entry
  <2> DEFINE x == Fresh(m)
  <2>1. x \in Entry
    BY FreshTyped
  <2> HIDE DEF x
  <2>2. [x EXCEPT !.folder = view.folder] \in Entry
    BY <1>2, <2>1 DEF Entry
  <2> QED BY <2>1, <2>2 DEF x
<1>4. /\ srv.mail \in [Mail -> Entry]
      /\ srv \in ServerT
  <2> DEFINE x == [m \in Mail |-> IF m \in DraftMail THEN Fresh(m)
                                  ELSE [Fresh(m) EXCEPT !.folder = view.folder]]
             y == [d \in Boxes |-> IF d = mbox THEN cfs ELSE {}]
             z == [d \in Boxes |-> IF d = mbox THEN lbls ELSE {}]
  <2>1. x \in [Mail -> Entry]
    BY <1>3
  <2>2. y \in [Boxes -> SUBSET CustomIds] /\ z \in [Boxes -> SUBSET LabelIds]
    BY <1>1
  <2>3. srv = [mail |-> x, cfs |-> y, lbls |-> z]
    BY DEF MailViewInit
  <2> HIDE DEF x, y, z
  <2> QED BY <2>1, <2>2, <2>3 DEF ServerT
<1>5. MailList(msgs)
  <2>1. msgs = [m \in {n \in Mail : HomeOf[n] = mbox} |-> srv.mail[m]]
    BY DEF MailViewInit
  <2> QED BY <1>4, <2>1 DEF MailList
<1>6. content \in ContentT /\ found \in FoundT
  BY <1>1 DEF Blank, ContentT, FoundT, Kinds
<1>7. RestTyped
  BY <1>1, <1>2, <1>4, <1>5, <1>6 DEF RestTyped, MaybeBox, UndoT
<1>8. ScreenTyped
  BY <1>1, <1>6, MailViewAssumption DEF ScreenTyped, MaybeCopy, Count
<1>9. OpensNumbered /\ LastOpenSound /\ LatestOpenWins /\ SuccessOnlyPlaintext
  BY <1>1 DEF OpensNumbered, LastOpenSound, LatestOpenWins, SuccessOnlyPlaintext, Blank
<1> QED BY <1>7, <1>8, <1>9 DEF ViewInv


(* The buttons of a row and of the pane. *)
LEMMA ButtonsStep ==
  ASSUME ViewInv, NEW m \in Mail, NEW e0 \in Entry, RowButtons(m, e0)
  PROVE  ViewInv'
<1>0. /\ RestTyped /\ ScreenTyped /\ MailList(msgs) /\ picked \subseteq Mail /\ undo \in UndoT
      /\ calls \subseteq CallT /\ sel \in MaybeCopy /\ cfs \subseteq CustomIds
      /\ lbls \subseteq LabelIds /\ mbox \in Boxes
  BY DEF ViewInv, RestTyped, ScreenTyped
<1>1. ASSUME toggleMessageStarred(m, e0)
      PROVE  ViewInv'
  <2>1. MailList(msgs')
    BY <1>0, <1>1, EntryFields DEF toggleMessageStarred, MailList, Mapped, Entry
  <2>2. SelFollows
    BY <1>0, <1>1, EntryFields DEF toggleMessageStarred, SelFollows, CopyToo, Closed, MaybeCopy,
                                   Copy, Entry
  <2>3. picked' \subseteq Mail
    BY <1>0, <1>1 DEF toggleMessageStarred
  <2>4. undo' \in UndoT
    BY <1>0, <1>1, EntryFields DEF toggleMessageStarred
  <2>5. calls' \subseteq CallT
    BY <1>0, <1>1 DEF toggleMessageStarred
  <2>6. (Act \/ UNCHANGED acts) /\ Elsewhere
    BY <1>1 DEF toggleMessageStarred
  <2> QED BY <2>1, <2>2, <2>3, <2>4, <2>5, <2>6, MessagesStep
<1>2. ASSUME toggleMessageRead(m, e0)
      PROVE  ViewInv'
  <2>1. MailList(msgs')
    BY <1>0, <1>2, EntryFields DEF toggleMessageRead, MailList, Mapped, Entry
  <2>2. SelFollows
    BY <1>0, <1>2, EntryFields DEF toggleMessageRead, SelFollows, CopyToo, Closed, MaybeCopy, Copy,
                                   Entry
  <2>3. picked' \subseteq Mail
    BY <1>0, <1>2 DEF toggleMessageRead
  <2>4. undo' \in UndoT
    BY <1>0, <1>2, EntryFields DEF toggleMessageRead
  <2>5. calls' \subseteq CallT
    BY <1>0, <1>2, EntryFields, ReadCallTyped DEF toggleMessageRead, Send
  <2>6. (Act \/ UNCHANGED acts) /\ Elsewhere
    BY <1>2 DEF toggleMessageRead
  <2> QED BY <2>1, <2>2, <2>3, <2>4, <2>5, <2>6, MessagesStep
<1>3. ASSUME handleArchiveMessage(m, e0)
      PROVE  ViewInv'
  <2>1. MailList(msgs')
    BY <1>0, <1>3, EntryFields DEF handleArchiveMessage, MoveAway, MailList, Mapped, Entry, Folder
  <2>2. SelFollows
    BY <1>0, <1>3, EntryFields DEF handleArchiveMessage, MoveAway, SelFollows, CopyToo, Closed,
                                   MaybeCopy, Copy, Entry
  <2>3. picked' \subseteq Mail
    BY <1>0, <1>3 DEF handleArchiveMessage, MoveAway
  <2>4. undo' \in UndoT
    BY <1>0, <1>3, EntryFields DEF handleArchiveMessage, MoveAway, UndoT
  <2>5. calls' \subseteq CallT
    BY <1>0, <1>3 DEF handleArchiveMessage, MoveAway
  <2>6. (Act \/ UNCHANGED acts) /\ Elsewhere
    BY <1>3 DEF handleArchiveMessage, MoveAway
  <2> QED BY <2>1, <2>2, <2>3, <2>4, <2>5, <2>6, MessagesStep
<1>4. ASSUME handleTrashMessage(m, e0)
      PROVE  ViewInv'
  <2>1. MailList(msgs')
    BY <1>0, <1>4, EntryFields DEF handleTrashMessage, MoveAway, MailList, Mapped, Entry, Folder
  <2>2. SelFollows
    BY <1>0, <1>4, EntryFields DEF handleTrashMessage, MoveAway, SelFollows, CopyToo, Closed,
                                   MaybeCopy, Copy, Entry
  <2>3. picked' \subseteq Mail
    BY <1>0, <1>4 DEF handleTrashMessage, MoveAway
  <2>4. undo' \in UndoT
    BY <1>0, <1>4, EntryFields DEF handleTrashMessage, MoveAway, UndoT
  <2>5. calls' \subseteq CallT
    BY <1>0, <1>4 DEF handleTrashMessage, MoveAway
  <2>6. (Act \/ UNCHANGED acts) /\ Elsewhere
    BY <1>4 DEF handleTrashMessage, MoveAway
  <2> QED BY <2>1, <2>2, <2>3, <2>4, <2>5, <2>6, MessagesStep
<1>5. ASSUME handleDeleteForever(m, e0)
      PROVE  ViewInv'
  <2>1. MailList(msgs')
    BY <1>0, <1>5, EntryFields DEF handleDeleteForever, MailList, Mapped, Entry
  <2>2. SelFollows
    BY <1>0, <1>5, EntryFields DEF handleDeleteForever, SelFollows, CopyToo, Closed, MaybeCopy,
                                   Copy, Entry
  <2>3. picked' \subseteq Mail
    BY <1>0, <1>5 DEF handleDeleteForever
  <2>4. undo' \in UndoT
    BY <1>0, <1>5, EntryFields DEF handleDeleteForever
  <2>5. calls' \subseteq CallT
    BY <1>0, <1>5 DEF handleDeleteForever
  <2>6. (Act \/ UNCHANGED acts) /\ Elsewhere
    BY <1>5 DEF handleDeleteForever
  <2> QED BY <2>1, <2>2, <2>3, <2>4, <2>5, <2>6, MessagesStep
<1> QED BY <1>1, <1>2, <1>3, <1>4, <1>5 DEF RowButtons

(* Spam, undo, the trash and what is done to the selection. *)
LEMMA BatchStep ==
  ASSUME ViewInv,
         \/ MarkSpam \/ handleUndo \/ UndoExpires \/ handleSelectFilter \/ handleEmptyTrash
         \/ BatchToolbar \/ (\E m \in Mail : handleToggleCheck(m))
         \/ handleKeyDown
  PROVE  ViewInv'
<1>0. /\ RestTyped /\ ScreenTyped /\ MailList(msgs) /\ picked \subseteq Mail /\ undo \in UndoT
      /\ calls \subseteq CallT /\ sel \in MaybeCopy /\ cfs \subseteq CustomIds
      /\ lbls \subseteq LabelIds /\ mbox \in Boxes
  BY DEF ViewInv, RestTyped, ScreenTyped
<1>1. ASSUME MarkSpam
      PROVE  ViewInv'
  <2>1. MailList(msgs')
    BY <1>0, <1>1, EntryFields DEF MarkSpam, MailList, Mapped, Entry, Folder
  <2>2. SelFollows
    BY <1>0, <1>1, EntryFields DEF MarkSpam, SelFollows, CopyToo, Closed, MaybeCopy, Copy, Entry
  <2>3. picked' \subseteq Mail
    BY <1>0, <1>1 DEF MarkSpam
  <2>4. undo' \in UndoT
    BY <1>0, <1>1, EntryFields DEF MarkSpam
  <2>5. calls' \subseteq CallT
    BY <1>0, <1>1 DEF MarkSpam
  <2>6. (Act \/ UNCHANGED acts) /\ Elsewhere
    BY <1>1 DEF MarkSpam
  <2> QED BY <2>1, <2>2, <2>3, <2>4, <2>5, <2>6, MessagesStep
<1>2. ASSUME handleUndo
      PROVE  ViewInv'
  <2>1. MailList(msgs')
    BY <1>0, <1>2, EntryFields DEF handleUndo, MailList, Mapped, Entry, UndoT
  <2>2. SelFollows
    BY <1>0, <1>2, EntryFields DEF handleUndo, SelFollows, CopyToo, Closed, MaybeCopy, Copy, Entry
  <2>3. picked' \subseteq Mail
    BY <1>0, <1>2 DEF handleUndo
  <2>4. undo' \in UndoT
    BY <1>0, <1>2, EntryFields DEF handleUndo, UndoT
  <2>5. calls' \subseteq CallT
    BY <1>0, <1>2 DEF handleUndo
  <2>6. (Act \/ UNCHANGED acts) /\ Elsewhere
    BY <1>2 DEF handleUndo
  <2> QED BY <2>1, <2>2, <2>3, <2>4, <2>5, <2>6, MessagesStep
<1>3. ASSUME UndoExpires
      PROVE  ViewInv'
  <2>1. MailList(msgs')
    BY <1>0, <1>3, EntryFields DEF UndoExpires, MailList, Mapped, Entry
  <2>2. SelFollows
    BY <1>0, <1>3, EntryFields DEF UndoExpires, SelFollows, CopyToo, Closed, MaybeCopy, Copy, Entry
  <2>3. picked' \subseteq Mail
    BY <1>0, <1>3 DEF UndoExpires
  <2>4. undo' \in UndoT
    BY <1>0, <1>3, EntryFields DEF UndoExpires, UndoT
  <2>5. calls' \subseteq CallT
    BY <1>0, <1>3 DEF UndoExpires
  <2>6. (Act \/ UNCHANGED acts) /\ Elsewhere
    BY <1>3 DEF UndoExpires
  <2> QED BY <2>1, <2>2, <2>3, <2>4, <2>5, <2>6, MessagesStep
<1>4. ASSUME handleSelectFilter
      PROVE  ViewInv'
  <2>1. MailList(msgs')
    BY <1>0, <1>4, EntryFields DEF handleSelectFilter, MailList, Mapped, Entry
  <2>2. SelFollows
    BY <1>0, <1>4, EntryFields DEF handleSelectFilter, SelFollows, CopyToo, Closed, MaybeCopy,
                                   Copy, Entry
  <2>3. picked' \subseteq Mail
    BY <1>0, <1>4 DEF handleSelectFilter, filteredMessages, MailList
  <2>4. undo' \in UndoT
    BY <1>0, <1>4, EntryFields DEF handleSelectFilter
  <2>5. calls' \subseteq CallT
    BY <1>0, <1>4 DEF handleSelectFilter
  <2>6. (Act \/ UNCHANGED acts) /\ Elsewhere
    BY <1>4 DEF handleSelectFilter
  <2> QED BY <2>1, <2>2, <2>3, <2>4, <2>5, <2>6, MessagesStep
<1>5. ASSUME handleEmptyTrash
      PROVE  ViewInv'
  <2>1. MailList(msgs')
    BY <1>0, <1>5, EntryFields DEF handleEmptyTrash, MailList, Mapped, Entry
  <2>2. SelFollows
    BY <1>0, <1>5, EntryFields DEF handleEmptyTrash, SelFollows, CopyToo, Closed, MaybeCopy, Copy,
                                   Entry
  <2>3. picked' \subseteq Mail
    BY <1>0, <1>5 DEF handleEmptyTrash
  <2>4. undo' \in UndoT
    BY <1>0, <1>5, EntryFields DEF handleEmptyTrash
  <2>5. calls' \subseteq CallT
    BY <1>0, <1>5 DEF handleEmptyTrash
  <2>6. (Act \/ UNCHANGED acts) /\ Elsewhere
    BY <1>5 DEF handleEmptyTrash
  <2> QED BY <2>1, <2>2, <2>3, <2>4, <2>5, <2>6, MessagesStep
<1>6. ASSUME handleBatchArchive
      PROVE  ViewInv'
  <2>1. MailList(msgs')
    BY <1>0, <1>6, EntryFields DEF handleBatchArchive, BatchTo, MailList, Mapped, Entry, Folder
  <2>2. SelFollows
    BY <1>0, <1>6, EntryFields DEF handleBatchArchive, BatchTo, SelFollows, CopyToo, Closed,
                                   MaybeCopy, Copy, Entry
  <2>3. picked' \subseteq Mail
    BY <1>0, <1>6 DEF handleBatchArchive, BatchTo
  <2>4. undo' \in UndoT
    BY <1>0, <1>6, EntryFields DEF handleBatchArchive, BatchTo
  <2>5. calls' \subseteq CallT
    BY <1>0, <1>6 DEF handleBatchArchive, BatchTo
  <2>6. (Act \/ UNCHANGED acts) /\ Elsewhere
    BY <1>6 DEF handleBatchArchive, BatchTo
  <2> QED BY <2>1, <2>2, <2>3, <2>4, <2>5, <2>6, MessagesStep
<1>7. ASSUME handleBatchSpam
      PROVE  ViewInv'
  <2>1. MailList(msgs')
    BY <1>0, <1>7, EntryFields DEF handleBatchSpam, BatchTo, MailList, Mapped, Entry, Folder
  <2>2. SelFollows
    BY <1>0, <1>7, EntryFields DEF handleBatchSpam, BatchTo, SelFollows, CopyToo, Closed,
                                   MaybeCopy, Copy, Entry
  <2>3. picked' \subseteq Mail
    BY <1>0, <1>7 DEF handleBatchSpam, BatchTo
  <2>4. undo' \in UndoT
    BY <1>0, <1>7, EntryFields DEF handleBatchSpam, BatchTo
  <2>5. calls' \subseteq CallT
    BY <1>0, <1>7 DEF handleBatchSpam, BatchTo
  <2>6. (Act \/ UNCHANGED acts) /\ Elsewhere
    BY <1>7 DEF handleBatchSpam, BatchTo
  <2> QED BY <2>1, <2>2, <2>3, <2>4, <2>5, <2>6, MessagesStep
<1>8. ASSUME handleBatchTrash
      PROVE  ViewInv'
  <2>1. MailList(msgs')
    BY <1>0, <1>8, EntryFields DEF handleBatchTrash, BatchTo, MailList, Mapped, Entry, Folder
  <2>2. SelFollows
    BY <1>0, <1>8, EntryFields DEF handleBatchTrash, BatchTo, SelFollows, CopyToo, Closed,
                                   MaybeCopy, Copy, Entry
  <2>3. picked' \subseteq Mail
    BY <1>0, <1>8 DEF handleBatchTrash, BatchTo
  <2>4. undo' \in UndoT
    BY <1>0, <1>8, EntryFields DEF handleBatchTrash, BatchTo
  <2>5. calls' \subseteq CallT
    BY <1>0, <1>8 DEF handleBatchTrash, BatchTo
  <2>6. (Act \/ UNCHANGED acts) /\ Elsewhere
    BY <1>8 DEF handleBatchTrash, BatchTo
  <2> QED BY <2>1, <2>2, <2>3, <2>4, <2>5, <2>6, MessagesStep
<1>9. ASSUME handleBatchDeleteForever
      PROVE  ViewInv'
  <2>1. MailList(msgs')
    BY <1>0, <1>9, EntryFields DEF handleBatchDeleteForever, MailList, Mapped, Entry
  <2>2. SelFollows
    BY <1>0, <1>9, EntryFields DEF handleBatchDeleteForever, SelFollows, CopyToo, Closed,
                                   MaybeCopy, Copy, Entry
  <2>3. picked' \subseteq Mail
    BY <1>0, <1>9 DEF handleBatchDeleteForever
  <2>4. undo' \in UndoT
    BY <1>0, <1>9, EntryFields DEF handleBatchDeleteForever
  <2>5. calls' \subseteq CallT
    BY <1>0, <1>9 DEF handleBatchDeleteForever
  <2>6. (Act \/ UNCHANGED acts) /\ Elsewhere
    BY <1>9 DEF handleBatchDeleteForever
  <2> QED BY <2>1, <2>2, <2>3, <2>4, <2>5, <2>6, MessagesStep
<1>10. ASSUME NEW r \in BOOLEAN, handleBatchToggleRead(r)
      PROVE  ViewInv'
  <2>1. MailList(msgs')
    BY <1>0, <1>10, EntryFields DEF handleBatchToggleRead, MailList, Mapped, Entry
  <2>2. SelFollows
    BY <1>0, <1>10, EntryFields DEF handleBatchToggleRead, SelFollows, CopyToo, Closed, MaybeCopy,
                                    Copy, Entry
  <2>3. picked' \subseteq Mail
    BY <1>0, <1>10 DEF handleBatchToggleRead
  <2>4. undo' \in UndoT
    BY <1>0, <1>10, EntryFields DEF handleBatchToggleRead
  <2>5. calls' \subseteq CallT
    BY <1>0, <1>10, EntryFields, ReadCallTyped DEF handleBatchToggleRead, Send
  <2>6. (Act \/ UNCHANGED acts) /\ Elsewhere
    BY <1>10 DEF handleBatchToggleRead
  <2> QED BY <2>1, <2>2, <2>3, <2>4, <2>5, <2>6, MessagesStep
<1>11. ASSUME handleBatchToggleStarred
      PROVE  ViewInv'
  <2>1. MailList(msgs')
    BY <1>0, <1>11, EntryMarked DEF handleBatchToggleStarred, MailList, Mapped
  <2>2. SelFollows
    BY <1>0, <1>11, EntryFields DEF handleBatchToggleStarred, SelFollows, CopyToo, Closed,
                                    MaybeCopy, Copy, Entry
  <2>3. picked' \subseteq Mail
    BY <1>0, <1>11 DEF handleBatchToggleStarred
  <2>4. undo' \in UndoT
    BY <1>0, <1>11, EntryFields DEF handleBatchToggleStarred
  <2>5. calls' \subseteq CallT
    BY <1>0, <1>11 DEF handleBatchToggleStarred
  <2>6. (Act \/ UNCHANGED acts) /\ Elsewhere
    BY <1>11 DEF handleBatchToggleStarred
  <2> QED BY <2>1, <2>2, <2>3, <2>4, <2>5, <2>6, MessagesStep
<1>12. ASSUME NEW m \in Mail, handleToggleCheck(m)
      PROVE  ViewInv'
  <2>1. MailList(msgs')
    BY <1>0, <1>12, EntryFields DEF handleToggleCheck, MailList, Mapped, Entry
  <2>2. SelFollows
    BY <1>0, <1>12, EntryFields DEF handleToggleCheck, SelFollows, CopyToo, Closed, MaybeCopy,
                                    Copy, Entry
  <2>3. picked' \subseteq Mail
    BY <1>0, <1>12 DEF handleToggleCheck
  <2>4. undo' \in UndoT
    BY <1>0, <1>12, EntryFields DEF handleToggleCheck
  <2>5. calls' \subseteq CallT
    BY <1>0, <1>12 DEF handleToggleCheck
  <2>6. (Act \/ UNCHANGED acts) /\ Elsewhere
    BY <1>12 DEF handleToggleCheck
  <2> QED BY <2>1, <2>2, <2>3, <2>4, <2>5, <2>6, MessagesStep
<1>13. CASE handleKeyDown
  <2>1. SelFollows /\ picked' \subseteq Mail
    BY <1>0, <1>13 DEF handleKeyDown, SelFollows
  <2>2. content' = content /\ seqNo' = seqNo /\ waits' = waits /\ Act
    BY <1>13 DEF handleKeyDown
  <2>3. RestTyped'
    BY <1>0, <1>13, <2>1 DEF handleKeyDown, RestTyped
  <2> QED BY <2>1, <2>2, <2>3, ScreenKept
<1> QED BY <1>1, <1>2, <1>3, <1>4, <1>5, <1>6, <1>7, <1>8, <1>9, <1>10, <1>11, <1>12, <1>13
       DEF BatchToolbar

(* Messages are moved to a folder. *)
LEMMA MoveStep ==
  ASSUME ViewInv, NEW ids, ids \subseteq Mail, NEW t \in MoveTargets, handleMoveMessages(ids, t)
  PROVE  ViewInv'
<1>0. /\ RestTyped /\ ScreenTyped /\ MailList(msgs) /\ picked \subseteq Mail /\ undo \in UndoT
      /\ calls \subseteq CallT /\ sel \in MaybeCopy /\ cfs \subseteq CustomIds
      /\ lbls \subseteq LabelIds /\ mbox \in Boxes
  BY DEF ViewInv, RestTyped, ScreenTyped
<1> DEFINE f == IF t \in cfs THEN "inbox" ELSE t
           c == IF t \in cfs THEN t ELSE Nil
           g == IF t \in cfs THEN "custom" ELSE t
<1>1. f \in Folder /\ c \in CustomIds \cup {Nil} /\ g \in Folder \cup {"custom"}
  BY <1>0 DEF MoveTargets, Folder
<1>2. /\ Act /\ Elsewhere
      /\ msgs' = [n \in DOMAIN msgs |-> IF n \in ids THEN [msgs[n] EXCEPT !.folder = f, !.cf = c] ELSE msgs[n]]
      /\ sel' = Closed(ids) /\ picked' = picked \ ids /\ undo' = undo
      /\ calls' = calls \cup {[op |-> "folder", box |-> mbox, id |-> n, read |-> FALSE,
                               folder |-> g, arg |-> c] : n \in ids}
  BY DEF handleMoveMessages, Mapped, Send
<1> HIDE DEF f, c, g
<1>3. MailList(msgs')
  BY <1>0, <1>1, <1>2, EntryFields DEF MailList, Entry
<1>4. SelFollows
  BY <1>2 DEF SelFollows, Closed
<1>5. calls' \subseteq CallT
  <2>1. ASSUME NEW n \in ids
        PROVE  [op |-> "folder", box |-> mbox, id |-> n, read |-> FALSE, folder |-> g, arg |-> c] \in CallT
    BY <1>0, <1>1 DEF CallT, Call
  <2> QED BY <1>0, <1>2, <2>1
<1> QED BY <1>0, <1>2, <1>3, <1>4, <1>5, MessagesStep

(* A label is put on messages or taken off. *)
LEMMA LabelStep ==
  ASSUME ViewInv, NEW ids, ids \subseteq Mail, NEW l \in LabelIds,
         handleAttachLabel(ids, l) \/ DetachLabel(ids, l)
  PROVE  ViewInv'
<1>0. /\ RestTyped /\ ScreenTyped /\ MailList(msgs) /\ picked \subseteq Mail /\ undo \in UndoT
      /\ calls \subseteq CallT /\ sel \in MaybeCopy /\ cfs \subseteq CustomIds
      /\ lbls \subseteq LabelIds /\ mbox \in Boxes
  BY DEF ViewInv, RestTyped, ScreenTyped
<1>1. ASSUME NEW o \in {"attach", "detach"}
      PROVE  LabelCalls(o, ids, l) \subseteq CallT
  <2>1. ASSUME NEW n \in ids
        PROVE  [op |-> o, box |-> mbox, id |-> n, read |-> FALSE, folder |-> "inbox", arg |-> l] \in CallT
    BY <1>0 DEF CallT, Call, Folder
  <2> QED BY <2>1 DEF LabelCalls
<1>2. CASE handleAttachLabel(ids, l)
  <2>1. MailList(msgs')
    BY <1>0, <1>2, EntryFields DEF handleAttachLabel, MailList, Mapped, Entry
  <2>2. SelFollows
    BY <1>0, <1>2, EntryFields DEF handleAttachLabel, SelFollows, CopyToo, MaybeCopy, Copy, Entry
  <2>3. Act /\ Elsewhere /\ picked' = picked /\ undo' = undo /\ calls' \subseteq CallT
    BY <1>0, <1>1, <1>2 DEF handleAttachLabel, Send
  <2> QED BY <1>0, <2>1, <2>2, <2>3, MessagesStep
<1>3. CASE DetachLabel(ids, l)
  <2>1. MailList(msgs')
    BY <1>0, <1>3, EntryFields DEF DetachLabel, MailList, Mapped, Entry
  <2>2. SelFollows
    BY <1>0, <1>3, EntryFields DEF DetachLabel, SelFollows, CopyToo, MaybeCopy, Copy, Entry
  <2>3. Act /\ Elsewhere /\ picked' = picked /\ undo' = undo /\ calls' \subseteq CallT
    BY <1>0, <1>1, <1>3 DEF DetachLabel, Send
  <2> QED BY <1>0, <2>1, <2>2, <2>3, MessagesStep
<1> QED BY <1>2, <1>3

(* The menus over a row, the pane and the selection. *)
LEMMA MenusStep ==
  ASSUME ViewInv, PaneMenus \/ BatchMenus \/ (\E m \in filteredMessages : handleDrop(m))
  PROVE  ViewInv'
<1>0. /\ RestTyped /\ ScreenTyped /\ MailList(msgs) /\ picked \subseteq Mail /\ undo \in UndoT
      /\ calls \subseteq CallT /\ sel \in MaybeCopy /\ cfs \subseteq CustomIds
      /\ lbls \subseteq LabelIds /\ mbox \in Boxes
  BY DEF ViewInv, RestTyped, ScreenTyped
<1>1. CASE PaneMenus
  <2>1. sel \in Copy /\ sel.id \in Mail
    BY <1>0, <1>1 DEF PaneMenus, MaybeCopy, Copy
  <2>2. CASE \E t \in MoveTargets : handleMoveMessages({sel.id}, t)
    BY <2>1, <2>2, MoveStep
  <2>3. CASE \E l \in lbls : toggleMessageLabel({sel.id}, l)
    BY <1>0, <2>1, <2>3, LabelStep DEF toggleMessageLabel
  <2> QED BY <1>1, <2>2, <2>3 DEF PaneMenus
<1>2. CASE BatchMenus
  <2>1. CASE \E t \in MoveTargets : handleBatchMoveTo(t)
    BY <1>0, <2>1, MoveStep DEF handleBatchMoveTo
  <2>2. ASSUME NEW l \in lbls, handleBatchToggleLabel(l) PROVE ViewInv'
    <3> DEFINE ids == IF picked # {} THEN picked ELSE IF sel # Nil THEN {sel.id} ELSE {}
    <3>1. ids \subseteq Mail
      BY <1>0 DEF MaybeCopy, Copy
    <3>2. handleAttachLabel(ids, l) \/ DetachLabel(ids, l)
      BY <2>2 DEF handleBatchToggleLabel, toggleMessageLabel
    <3> HIDE DEF ids
    <3> QED BY <1>0, <3>1, <3>2, LabelStep
  <2> QED BY <1>2, <2>1, <2>2 DEF BatchMenus
<1>3. ASSUME NEW m \in filteredMessages, handleDrop(m) PROVE ViewInv'
  <2> DEFINE ids == handleDragStart(m)
  <2>1. ids \subseteq Mail
    BY <1>0 DEF handleDragStart, filteredMessages, MailList
  <2>2. CASE \E t \in MoveTargets : handleMoveMessages(ids, t)
    <3> HIDE DEF ids
    <3> QED BY <2>1, <2>2, MoveStep
  <2>3. CASE \E l \in lbls : handleAttachLabel(ids, l)
    <3> HIDE DEF ids
    <3> QED BY <1>0, <2>1, <2>3, LabelStep
  <2> QED BY <1>3, <2>2, <2>3 DEF handleDrop
<1> QED BY <1>1, <1>2, <1>3

(* openMessage takes the next number, so that no earlier open may write. *)
LEMMA OpenStep ==
  ASSUME ViewInv, NEW m \in DOMAIN msgs, openMessage(m)
  PROVE  ViewInv'
<1>0. /\ RestTyped /\ ScreenTyped /\ MailList(msgs) /\ picked \subseteq Mail /\ undo \in UndoT
      /\ calls \subseteq CallT /\ sel \in MaybeCopy /\ cfs \subseteq CustomIds
      /\ lbls \subseteq LabelIds /\ mbox \in Boxes
  BY DEF ViewInv, RestTyped, ScreenTyped
<1> DEFINE draft == msgs[m].folder = "drafts"
           locked == draft /\ open4 # mbox
           p == NewWait("open", IF draft THEN "crypto" ELSE "ask", m)
           w == [p EXCEPT !.seq = seqNo + 1, !.e = msgs[m]]
<1>1. /\ Act /\ seqNo' = seqNo + 1 /\ sel' = [id |-> m, e |-> msgs[m]]
      /\ decrypting' = ~locked
      /\ content' = IF locked THEN [Blank EXCEPT !.kind = "locked", !.of = m] ELSE Blank
      /\ IF locked THEN UNCHANGED waits ELSE Pending(w)
      /\ UNCHANGED <<mbox, open4, picked, undo, view, cfs, lbls, found, srv>>
  BY DEF openMessage
<1>2. m \in Mail /\ msgs[m] \in Entry
  BY <1>0 DEF MailList
<1>3. MailList(msgs')
  BY <1>0, EntryMarked DEF openMessage, MailList, Mapped
<1>4. calls' \subseteq CallT
  <2>1. ReadCall(m, TRUE) \in CallT
    BY <1>0, <1>2 DEF ReadCall, CallT, Call, Folder
  <2> QED BY <1>0, <2>1 DEF openMessage, Send
<1>5. p \in Wait /\ p.op = "open" /\ p.id = m
  BY <1>0, <1>2, NewWaitTyped
<1>6. seqNo \in Nat /\ seqNo <= acts /\ acts' \in Count /\ acts' = acts + 1 /\ acts \in Nat
  BY <1>0, <1>1, ActCounted DEF ScreenTyped
<1> HIDE DEF p
<1>7. w \in WaitT /\ w.op = "open" /\ w.id = m /\ w.seq = seqNo + 1
  <2>1. seqNo + 1 \in Nat
    BY <1>6
  <2>2. w \in Wait /\ w.op = "open" /\ w.id = m /\ w.seq = seqNo + 1
    BY <1>2, <1>5, <2>1 DEF Wait
  <2> HIDE DEF w
  <2> QED BY <1>2, <2>2 DEF WaitT
<1> HIDE DEF w
<1>8. waits' = waits \/ (~locked /\ waits' = waits \cup {w})
  BY <1>1 DEF Pending
<1>9. content' \in ContentT /\ content'.of \in {m, Nil} /\ content'.atts = Nil
      /\ content'.quote = Nil /\ content'.edit = Nil
  BY <1>1, <1>2 DEF Blank, ContentT, Kinds
<1>10. content'.of = Nil \/ waits' = waits
  BY <1>1 DEF Blank
<1> HIDE DEF locked, draft
<1>11. RestTyped'
  <2>1. decrypting' \in BOOLEAN
    BY <1>1
  <2> QED BY <1>0, <1>1, <1>3, <1>4, <2>1 DEF RestTyped
<1>12. sel' \in Copy /\ sel'.id = m
  BY <1>1, <1>2 DEF Copy
<1>13. ScreenTyped'
  BY <1>0, <1>1, <1>6, <1>7, <1>8, <1>9, <1>12 DEF ScreenTyped, MaybeCopy
<1>14. ASSUME NEW v \in waits, v.op = "open" PROVE v.seq \in Nat /\ v.seq <= seqNo
  BY <1>0, <1>14 DEF ViewInv, OpensNumbered, ScreenTyped, WaitT, Wait
<1>15. OpensNumbered'
  BY <1>1, <1>6, <1>7, <1>8, <1>14 DEF OpensNumbered
<1>16. ASSUME NEW v \in waits', v.op = "open", v.seq = seqNo' PROVE v = w
  BY <1>1, <1>6, <1>8, <1>14, <1>16
<1>17. LastOpenSound'
  BY <1>7, <1>9, <1>12, <1>16 DEF LastOpenSound, OpenWaits
<1>18. LatestOpenWins' /\ SuccessOnlyPlaintext'
  BY <1>9, <1>12 DEF LatestOpenWins, SuccessOnlyPlaintext
<1> QED BY <1>11, <1>13, <1>15, <1>17, <1>18 DEF ViewInv

(* What the last open writes when its answer comes: only while it waits,   *)
(* and it waits no longer, or goes on to decrypt.                          *)
LEMMA LastOpenWrites ==
  ASSUME ViewInv, NEW w \in waits, w.op = "open", w.seq = seqNo, RestTyped',
         UNCHANGED <<seqNo, acts>>,
         sel' = sel \/ (sel' \in Copy /\ sel'.id = w.id),
         content' \in ContentT, content'.of \in {w.id, Nil}, content'.atts \in {w.id, Nil},
         content'.quote \in {w.id, Nil}, content'.edit \in {w.id, Nil},
         content'.quote # Nil \/ content'.edit # Nil => content'.kind = "plain" /\ content'.of = w.id,
         \/ waits' = waits \ {w}
         \/ /\ waits' = (waits \ {w}) \cup {[w EXCEPT !.at = "crypto"]}
            /\ content'.quote = Nil /\ content'.edit = Nil
  PROVE  ViewInv'
<1> DEFINE x == [w EXCEPT !.at = "crypto"]
<1>0. /\ ScreenTyped /\ sel \in MaybeCopy /\ waits \subseteq WaitT /\ LastOpenSound /\ OpensNumbered
      /\ w \in WaitT /\ OpenWaits(w)
  BY DEF ViewInv, ScreenTyped, OpenWaits
<1>1. x \in WaitT /\ x.op = "open" /\ x.seq = seqNo /\ x.id = w.id
  BY <1>0 DEF WaitT, Wait
<1>2. waits' \subseteq (waits \ {w}) \cup {x}
  OBVIOUS
<1>3. x \in waits' => waits' = waits \ {w} \/ (content'.quote = Nil /\ content'.edit = Nil)
  OBVIOUS
<1>4. waits' = waits \ {w} \/ (content'.quote = Nil /\ content'.edit = Nil)
  OBVIOUS
<1> HIDE DEF x
<1>5. /\ sel # Nil => sel.id = w.id
      /\ \A v \in waits : OpenWaits(v) => v = w
  BY <1>0 DEF LastOpenSound
<1>6. ScreenTyped'
  BY <1>0, <1>1, <1>2 DEF ScreenTyped, MaybeCopy
<1>7. OpensNumbered'
  <2>1. seqNo \in Nat
    BY <1>0 DEF ScreenTyped
  <2> QED BY <1>0, <1>1, <1>2, <2>1 DEF OpensNumbered
<1>8. ASSUME NEW v \in waits', v.op = "open", v.seq = seqNo'
      PROVE  v = x /\ content'.quote = Nil /\ content'.edit = Nil
  <2>1. v # w \/ x = w
    BY <1>2
  <2>2. v = x
    BY <1>2, <1>5, <1>8, <2>1 DEF OpenWaits
  <2>3. waits' = waits \ {w} => v \in waits /\ v # w
    OBVIOUS
  <2>4. waits' # waits \ {w}
    BY <1>5, <1>8, <2>3 DEF OpenWaits
  <2> QED BY <1>4, <2>2, <2>4
<1>9. sel' # Nil => sel'.id = w.id
  BY <1>5
<1>10. LastOpenSound'
  BY <1>1, <1>8, <1>9 DEF LastOpenSound, OpenWaits
<1>11. LatestOpenWins' /\ SuccessOnlyPlaintext'
  BY <1>9 DEF LatestOpenWins, SuccessOnlyPlaintext
<1> QED BY <1>6, <1>7, <1>10, <1>11 DEF ViewInv


(* The answers of an open: of the last one, which writes, or of an earlier *)
(* one, which does not.                                                    *)
LEMMA OpenAnswers ==
  ASSUME ViewInv, NEW w \in waits, BodyAnswer(w) \/ CryptoAnswer(w)
  PROVE  ViewInv'
<1>0. /\ RestTyped /\ ScreenTyped /\ MailList(msgs) /\ picked \subseteq Mail /\ undo \in UndoT
      /\ calls \subseteq CallT /\ sel \in MaybeCopy /\ cfs \subseteq CustomIds
      /\ lbls \subseteq LabelIds /\ mbox \in Boxes
  BY DEF ViewInv, RestTyped, ScreenTyped
<1>1. /\ w.op = "open" /\ w \in WaitT /\ w \in Wait /\ w.id \in Mail /\ w.e \in Entry
      /\ content \in ContentT /\ ScreenTyped
  BY <1>0 DEF BodyAnswer, CryptoAnswer, ScreenTyped, WaitT, Wait
<1>2. UNCHANGED <<mbox, open4, seqNo, picked, undo, view, cfs, lbls, found, calls, srv, acts>>
  BY DEF BodyAnswer, CryptoAnswer, lists
<1>3. CASE w.seq # seqNo
  <2>1. waits' = waits \ {w} /\ UNCHANGED <<sel, msgs, content, decrypting>>
    BY <1>3 DEF BodyAnswer, CryptoAnswer, OpenFailed, Latest, Over, lists
  <2>2. RestTyped'
    BY <1>0, <1>2, <2>1 DEF RestTyped
  <2> QED BY <1>2, <2>1, <2>2, ScreenKept DEF SelFollows
<1>4. CASE w.seq = seqNo
  <2>0. /\ content.of \in {w.id, Nil} /\ content.atts \in {w.id, Nil}
        /\ content.quote = Nil /\ content.edit = Nil
    BY <1>1, <1>4 DEF ViewInv, LastOpenSound, OpenWaits
  <2>1. ASSUME content' \in {content, [content EXCEPT !.kind = "error", !.of = w.id],
                             [content EXCEPT !.kind = "locked", !.of = w.id, !.atts = w.id],
                             [content EXCEPT !.atts = w.id]}
        PROVE  /\ content' \in ContentT
               /\ content'.of \in {w.id, Nil} /\ content'.atts \in {w.id, Nil}
               /\ content'.quote = Nil /\ content'.edit = Nil
    BY <1>1, <2>0, <2>1 DEF ContentT, Kinds
  <2>2. CASE BodyAnswer(w)
    <3>1. /\ UNCHANGED <<sel, msgs>> /\ decrypting' \in {decrypting, FALSE}
          /\ content' \in {content, [content EXCEPT !.kind = "error", !.of = w.id],
                             [content EXCEPT !.kind = "locked", !.of = w.id, !.atts = w.id],
                             [content EXCEPT !.atts = w.id]}
          /\ \/ waits' = waits \ {w}
             \/ waits' = (waits \ {w}) \cup {[w EXCEPT !.at = "crypto"]}
      BY <1>4, <2>2 DEF BodyAnswer, OpenFailed, Latest, Over, lists
    <3>2. RestTyped'
      BY <1>0, <1>2, <3>1 DEF RestTyped
    <3> QED BY <1>1, <1>2, <1>4, <2>1, <3>1, <3>2, LastOpenWrites
  <2>3. CASE CryptoAnswer(w)
    <3>1. waits' = waits \ {w}
      BY <2>3 DEF CryptoAnswer, Over
    <3>2. CASE OpenFailed(w) /\ UNCHANGED <<sel, msgs>>
      <4>1. content' = [content EXCEPT !.kind = "error", !.of = w.id] /\ decrypting' = FALSE
        BY <1>4, <3>2 DEF OpenFailed, Latest
      <4>2. RestTyped'
        BY <1>0, <1>2, <3>2, <4>1 DEF RestTyped
      <4> QED BY <1>1, <1>2, <1>4, <2>1, <3>1, <3>2, <4>1, <4>2, LastOpenWrites
    <3>3. CASE PlaintextShown(w) /\ decrypting' = FALSE
      <4> DEFINE y == [w.e EXCEPT !.read = TRUE]
      <4>1. y \in Entry
        BY <1>1 DEF Entry
      <4>2. MailList(msgs')
        <5>1. msgs' = msgs \/ msgs' = [n \in DOMAIN msgs |-> IF n \in {w.id} THEN y ELSE msgs[n]]
          BY <3>3 DEF PlaintextShown, Mapped
        <5> HIDE DEF y
        <5> QED BY <1>0, <4>1, <5>1 DEF MailList
      <4>3. sel' = sel \/ (sel' \in Copy /\ sel'.id = w.id)
        <5>1. sel' = sel \/ sel' = [id |-> w.id, e |-> y]
          BY <3>3 DEF PlaintextShown
        <5> HIDE DEF y
        <5> QED BY <1>1, <4>1, <5>1 DEF Copy
      <4>4. content' \in {[content EXCEPT !.kind = "plain", !.of = w.id, !.edit = w.id],
                          [content EXCEPT !.kind = "plain", !.of = w.id, !.quote = w.id]}
        BY <3>3 DEF PlaintextShown
      <4>5. /\ content' \in ContentT
            /\ content'.of = w.id /\ content'.atts \in {w.id, Nil} /\ content'.kind = "plain"
            /\ content'.quote \in {w.id, Nil} /\ content'.edit \in {w.id, Nil}
        BY <1>1, <2>0, <4>4 DEF ContentT, Kinds
      <4>6. RestTyped'
        BY <1>0, <1>2, <3>3, <4>2 DEF RestTyped
      <4> QED BY <1>1, <1>2, <1>4, <3>1, <4>3, <4>5, <4>6, LastOpenWrites
    <3> QED BY <1>4, <2>3, <3>2, <3>3 DEF CryptoAnswer, Latest
  <2> QED BY <2>2, <2>3
<1> QED BY <1>3, <1>4

(* A handler that asks the server. *)
LEMMA SidebarAsks ==
  ASSUME ViewInv, NEW o \in {"load", "addFolder", "editFolder", "deleteFolder",
                             "addLabel", "editLabel", "deleteLabel"},
         NEW i \in CustomIds \cup LabelIds \cup {Nil},
         o \in {"addFolder", "editFolder", "deleteFolder"} => i \in CustomIds,
         o \in {"addLabel", "editLabel", "deleteLabel"} => i \in LabelIds, Ask(o, i)
  PROVE  ViewInv'
<1>0. /\ RestTyped /\ ScreenTyped /\ MailList(msgs) /\ picked \subseteq Mail /\ undo \in UndoT
      /\ calls \subseteq CallT /\ sel \in MaybeCopy /\ cfs \subseteq CustomIds
      /\ lbls \subseteq LabelIds /\ mbox \in Boxes
  BY DEF ViewInv, RestTyped, ScreenTyped
<1> DEFINE x == NewWait(o, "ask", i)
<1>1. x \in Wait /\ x.op = o /\ x.id = i
  BY <1>0, NewWaitTyped
<1>2. /\ Act /\ waits' = waits \cup {x} /\ OnlyLists
      /\ UNCHANGED <<msgs, sel, picked, view, cfs, lbls, found, srv>>
  BY DEF Ask, Pending
<1> HIDE DEF x
<1>3. x \in WaitT /\ x.op # "open"
  BY <1>1 DEF WaitT
<1>4. view \in ViewT /\ found \in FoundT /\ srv \in ServerT
  BY <1>0 DEF RestTyped
<1> QED BY <1>0, <1>2, <1>3, <1>4, ListsStep DEF SelFollows

(* The sidebar. *)
LEMMA SidebarStep ==
  ASSUME ViewInv,
         \/ SidebarFolders \/ SidebarLabels \/ loadMailboxData
         \/ \E f \in {"inbox", "drafts", "archive", "trash"} : SelectFolder(f)
  PROVE  ViewInv'
<1>0. /\ RestTyped /\ ScreenTyped /\ MailList(msgs) /\ picked \subseteq Mail /\ undo \in UndoT
      /\ calls \subseteq CallT /\ sel \in MaybeCopy /\ cfs \subseteq CustomIds
      /\ lbls \subseteq LabelIds /\ mbox \in Boxes
  BY DEF ViewInv, RestTyped, ScreenTyped
<1>1. ASSUME NEW v \in ViewT, SelectView(v) PROVE ViewInv'
  <2>1. /\ Act /\ OnlyLists /\ view' = v /\ sel' = Nil /\ picked' = {}
        /\ UNCHANGED <<msgs, cfs, lbls, found, waits, srv>>
    BY <1>1 DEF SelectView
  <2>2. found \in FoundT /\ srv \in ServerT
    BY <1>0 DEF RestTyped
  <2> QED BY <1>0, <1>1, <2>1, <2>2, ListsStep DEF SelFollows
<1>2. ASSUME NEW f \in Folder, SelectFolder(f) PROVE ViewInv'
  <2>1. [folder |-> f, cf |-> Nil, label |-> Nil] \in ViewT
    BY DEF ViewT
  <2> QED BY <1>1, <1>2, <2>1 DEF SelectFolder
<1>3. ASSUME NEW c \in cfs, handleSelectCustomFolder(c) PROVE ViewInv'
  <2>1. [view EXCEPT !.cf = c, !.label = Nil] \in ViewT
    BY <1>0 DEF RestTyped, ViewT
  <2> QED BY <1>1, <1>3, <2>1 DEF handleSelectCustomFolder
<1>4. ASSUME NEW l \in lbls, handleSelectLabel(l) PROVE ViewInv'
  <2>1. [view EXCEPT !.cf = Nil, !.label = l] \in ViewT
    BY <1>0 DEF RestTyped, ViewT
  <2> QED BY <1>1, <1>4, <2>1 DEF handleSelectLabel
<1>5. ASSUME NEW c \in CustomIds, handleSaveFolder(c) \/ handleDeleteFolder(c) PROVE ViewInv'
  <2>1. Ask("addFolder", c) \/ Ask("editFolder", c) \/ Ask("deleteFolder", c)
    BY <1>5 DEF handleSaveFolder, handleDeleteFolder
  <2> QED BY <2>1, SidebarAsks
<1>6. ASSUME NEW l \in LabelIds, handleSaveLabel(l) \/ handleDeleteLabel(l) PROVE ViewInv'
  <2>1. Ask("addLabel", l) \/ Ask("editLabel", l) \/ Ask("deleteLabel", l)
    BY <1>6 DEF handleSaveLabel, handleDeleteLabel
  <2> QED BY <2>1, SidebarAsks
<1>7. CASE loadMailboxData
  BY <1>7, SidebarAsks DEF loadMailboxData
<1>8. {"inbox", "drafts", "archive", "trash"} \subseteq Folder
  BY DEF Folder
<1> QED BY <1>2, <1>3, <1>4, <1>5, <1>6, <1>7, <1>8 DEF SidebarFolders, SidebarLabels

(* The fields of the server's rows. *)
LEMMA ServerFields ==
  ASSUME NEW s \in ServerT
  PROVE  /\ s.mail \in [Mail -> Entry] /\ s.cfs \in [Boxes -> SUBSET CustomIds]
         /\ s.lbls \in [Boxes -> SUBSET LabelIds]
BY DEF ServerT

(* The answers that change the lists. *)
LEMMA ListAnswers ==
  ASSUME ViewInv, NEW w \in waits,
         \/ SaveAnswer(w) \/ DeleteFolderAnswer(w) \/ DeleteLabelAnswer(w)
         \/ LoadMailAnswer(w) \/ SearchAnswer(w)
  PROVE  ViewInv'
<1>0. /\ RestTyped /\ ScreenTyped /\ MailList(msgs) /\ picked \subseteq Mail /\ undo \in UndoT
      /\ calls \subseteq CallT /\ sel \in MaybeCopy /\ cfs \subseteq CustomIds
      /\ lbls \subseteq LabelIds /\ mbox \in Boxes
  BY DEF ViewInv, RestTyped, ScreenTyped
<1>1. /\ w \in Wait /\ w \in WaitT /\ w.box \in Boxes /\ view \in ViewT /\ found \in FoundT
      /\ srv \in ServerT
  BY <1>0 DEF RestTyped, ScreenTyped, WaitT, Wait
<1>2. /\ srv.mail \in [Mail -> Entry] /\ srv.cfs \in [Boxes -> SUBSET CustomIds]
      /\ srv.lbls \in [Boxes -> SUBSET LabelIds]
  BY <1>1, ServerFields
<1>3. /\ waits' = waits \ {w} /\ acts' = acts /\ OnlyLists /\ sel' = sel /\ picked' = picked
  BY DEF SaveAnswer, DeleteFolderAnswer, DeleteLabelAnswer, LoadMailAnswer, SearchAnswer, Over
<1>4. SelFollows /\ \A v \in waits' : v \in waits
  BY <1>3 DEF SelFollows
<1>5. ASSUME MailList(msgs'), view' \in ViewT, cfs' \subseteq CustomIds,
             lbls' \subseteq LabelIds, found' \in FoundT, srv' \in ServerT
      PROVE  ViewInv'
  BY <1>0, <1>3, <1>4, <1>5, ListsStep
<1>6. CASE SaveAnswer(w)
  <2>1. msgs' = msgs /\ view' = view /\ found' = found
    BY <1>6 DEF SaveAnswer
  <2>2. CASE UNCHANGED <<cfs, lbls, srv>>
    BY <1>0, <1>1, <1>5, <2>1, <2>2
  <2>3. CASE /\ w.op = "addFolder"
             /\ srv' = [srv EXCEPT !.cfs[w.box] = @ \cup {w.id}]
             /\ cfs' = cfs \cup {w.id} /\ UNCHANGED lbls
    <3>1. w.id \in CustomIds
      BY <1>1, <2>3 DEF WaitT
    <3>2. srv' \in ServerT
      BY <1>1, <1>2, <2>3, <3>1 DEF ServerT
    <3> QED BY <1>0, <1>1, <1>5, <2>1, <2>3, <3>1, <3>2
  <2>4. CASE /\ w.op = "addLabel"
             /\ srv' = [srv EXCEPT !.lbls[w.box] = @ \cup {w.id}]
             /\ lbls' = lbls \cup {w.id} /\ UNCHANGED cfs
    <3>1. w.id \in LabelIds
      BY <1>1, <2>4 DEF WaitT
    <3>2. srv' \in ServerT
      BY <1>1, <1>2, <2>4, <3>1 DEF ServerT
    <3> QED BY <1>0, <1>1, <1>5, <2>1, <2>4, <3>1, <3>2
  <2> QED BY <1>6, <2>2, <2>3, <2>4 DEF SaveAnswer
<1>7. CASE DeleteFolderAnswer(w)
  <2> DEFINE home(e) == IF e.cf = w.id THEN [e EXCEPT !.cf = Nil, !.folder = "inbox"] ELSE e
             left == [m \in Mail |-> IF HomeOf[m] = w.box THEN home(srv.mail[m]) ELSE srv.mail[m]]
  <2>1. lbls' = lbls /\ found' = found
    BY <1>7 DEF DeleteFolderAnswer
  <2>2. CASE UNCHANGED <<msgs, view, cfs, srv>>
    BY <1>0, <1>1, <1>5, <2>1, <2>2
  <2>3. CASE /\ srv' = [srv EXCEPT !.cfs[w.box] = @ \ {w.id}, !.mail = left]
             /\ msgs' = [m \in DOMAIN msgs |-> home(msgs[m])]
             /\ cfs' = cfs \ {w.id}
             /\ view' = IF view.cf = w.id THEN [view EXCEPT !.cf = Nil, !.folder = "inbox"] ELSE view
    <3>1. ASSUME NEW e \in Entry PROVE home(e) \in Entry
      BY DEF Entry, Folder
    <3>2. MailList(msgs')
      BY <1>0, <2>3, <3>1 DEF MailList
    <3>3. view' \in ViewT
      BY <1>1, <2>3 DEF ViewT, Folder
    <3>4. left \in [Mail -> Entry]
      BY <1>2, <3>1
    <3> HIDE DEF left
    <3>5. srv' \in ServerT
      BY <1>1, <1>2, <2>3, <3>4 DEF ServerT
    <3> QED BY <1>0, <1>1, <1>5, <2>1, <2>3, <3>2, <3>3, <3>5
  <2> QED BY <1>7, <2>2, <2>3 DEF DeleteFolderAnswer
<1>8. CASE DeleteLabelAnswer(w)
  <2> DEFINE bare(e) == [e EXCEPT !.labels = e.labels \ {w.id}]
             left == [m \in Mail |-> IF HomeOf[m] = w.box THEN bare(srv.mail[m]) ELSE srv.mail[m]]
  <2>1. cfs' = cfs /\ found' = found
    BY <1>8 DEF DeleteLabelAnswer
  <2>2. CASE UNCHANGED <<msgs, view, lbls, srv>>
    BY <1>0, <1>1, <1>5, <2>1, <2>2
  <2>3. CASE /\ srv' = [srv EXCEPT !.lbls[w.box] = @ \ {w.id}, !.mail = left]
             /\ msgs' = [m \in DOMAIN msgs |-> bare(msgs[m])]
             /\ lbls' = lbls \ {w.id}
             /\ view' = IF view.label = w.id THEN [view EXCEPT !.label = Nil] ELSE view
    <3>1. ASSUME NEW e \in Entry PROVE bare(e) \in Entry
      BY EntryFields DEF Entry
    <3>2. MailList(msgs')
      BY <1>0, <2>3, <3>1 DEF MailList
    <3>3. view' \in ViewT
      BY <1>1, <2>3 DEF ViewT, Folder
    <3>4. left \in [Mail -> Entry]
      BY <1>2, <3>1
    <3> HIDE DEF left
    <3>5. srv' \in ServerT
      BY <1>1, <1>2, <2>3, <3>4 DEF ServerT
    <3> QED BY <1>0, <1>1, <1>5, <2>1, <2>3, <3>2, <3>3, <3>5
  <2> QED BY <1>8, <2>2, <2>3 DEF DeleteLabelAnswer
<1>9. CASE LoadMailAnswer(w)
  <2>1. view' = view /\ found' = found /\ srv' = srv
    BY <1>9 DEF LoadMailAnswer
  <2>2. CASE UNCHANGED <<msgs, cfs, lbls>>
    BY <1>0, <1>1, <1>5, <2>1, <2>2
  <2>3. CASE /\ msgs' = [m \in {n \in Mail : HomeOf[n] = w.box} |-> [srv.mail[m] EXCEPT !.starred = FALSE]]
             /\ cfs' = srv.cfs[w.box] /\ lbls' = srv.lbls[w.box]
    <3>1. ASSUME NEW e \in Entry PROVE [e EXCEPT !.starred = FALSE] \in Entry
      BY DEF Entry
    <3>2. MailList(msgs')
      BY <1>2, <2>3, <3>1 DEF MailList
    <3>3. cfs' \subseteq CustomIds /\ lbls' \subseteq LabelIds
      BY <1>1, <1>2, <2>3
    <3> QED BY <1>1, <1>5, <2>1, <3>2, <3>3
  <2> QED BY <1>9, <2>2, <2>3 DEF LoadMailAnswer
<1>10. CASE SearchAnswer(w)
  <2>1. UNCHANGED <<msgs, view, cfs, lbls, srv>>
    BY <1>10 DEF SearchAnswer
  <2>2. found' \in FoundT
    BY <1>1, <1>10 DEF SearchAnswer, FoundT
  <2> QED BY <1>0, <1>1, <1>5, <2>1, <2>2
<1> QED BY <1>6, <1>7, <1>8, <1>9, <1>10

(* Searching, switching, locking and unlocking. *)
LEMMA BoxStep ==
  ASSUME ViewInv, SearchEffect \/ (\E d \in Boxes : SwitchMailbox(d)) \/ lockMailbox \/ UnlockAgain
  PROVE  ViewInv'
<1>0. /\ RestTyped /\ ScreenTyped /\ MailList(msgs) /\ picked \subseteq Mail /\ undo \in UndoT
      /\ calls \subseteq CallT /\ sel \in MaybeCopy /\ cfs \subseteq CustomIds
      /\ lbls \subseteq LabelIds /\ mbox \in Boxes
  BY DEF ViewInv, RestTyped, ScreenTyped
<1>1. view \in ViewT /\ found \in FoundT /\ srv \in ServerT
  BY <1>0 DEF RestTyped
<1>2. CASE SearchEffect
  <2> DEFINE x == NewWait("search", "ask", Nil)
  <2>1. x \in Wait /\ x.op = "search"
    BY <1>0, NewWaitTyped
  <2>2. /\ Act /\ OnlyLists /\ UNCHANGED <<msgs, sel, picked, view, cfs, lbls, srv>>
        /\ waits' = waits \/ waits' = waits \cup {x}
        /\ found' = [found EXCEPT !.query = TRUE] \/ found' = [query |-> FALSE, ids |-> {}]
    BY <1>2 DEF SearchEffect, Pending
  <2> HIDE DEF x
  <2>3. x \in WaitT /\ x.op # "open"
    BY <2>1 DEF WaitT
  <2>4. found' \in FoundT
    <3>1. [found EXCEPT !.query = TRUE] \in FoundT
      BY <1>1 DEF FoundT
    <3>2. [query |-> FALSE, ids |-> {}] \in FoundT
      BY DEF FoundT
    <3> QED BY <2>2, <3>1, <3>2
  <2> QED BY <1>0, <1>1, <2>2, <2>3, <2>4, ListsStep DEF SelFollows
<1>3. ASSUME NEW d \in Boxes, SwitchMailbox(d) PROVE ViewInv'
  <2> DEFINE p == NewWait("load", "ask", Nil)
             x == [p EXCEPT !.box = d]
  <2>1. p \in Wait /\ p.op = "load"
    BY <1>0, NewWaitTyped
  <2>2. /\ Act /\ mbox' = d /\ open4' \in {d, Nil} /\ waits' = waits \cup {x}
        /\ UNCHANGED <<sel, content, decrypting, seqNo, msgs, picked, undo, view, cfs, lbls,
                       found, calls, srv>>
    BY <1>3 DEF SwitchMailbox, Pending, screen, lists
  <2> HIDE DEF p
  <2>3. x \in WaitT /\ x.op # "open"
    BY <2>1 DEF WaitT, Wait
  <2> HIDE DEF x
  <2>4. RestTyped'
    BY <1>0, <2>2 DEF RestTyped, MaybeBox
  <2> QED BY <2>2, <2>3, <2>4, ScreenKept DEF SelFollows
<1>4. CASE UnlockAgain
  <2> DEFINE x == NewWait("load", "ask", Nil)
  <2>1. x \in Wait /\ x.op = "load"
    BY <1>0, NewWaitTyped
  <2>2. /\ Act /\ open4' = mbox /\ waits' = waits \cup {x}
        /\ UNCHANGED <<mbox, sel, content, decrypting, seqNo, msgs, picked, undo, view, cfs, lbls,
                       found, calls, srv>>
    BY <1>4 DEF UnlockAgain, Pending, screen, lists
  <2> HIDE DEF x
  <2>3. x \in WaitT /\ x.op # "open"
    BY <2>1 DEF WaitT
  <2>4. RestTyped'
    BY <1>0, <2>2 DEF RestTyped, MaybeBox
  <2> QED BY <2>2, <2>3, <2>4, ScreenKept DEF SelFollows
<1>5. CASE lockMailbox
  <2>1. /\ Act /\ open4' = Nil /\ msgs' = [m \in {} |-> Fresh(m)] /\ sel' = Nil
        /\ content' = [Blank EXCEPT !.atts = content.atts]
        /\ picked' = {} /\ cfs' = {} /\ lbls' = {}
        /\ view' = [view EXCEPT !.cf = Nil, !.label = Nil] /\ found' = [found EXCEPT !.ids = {}]
        /\ UNCHANGED <<mbox, decrypting, seqNo, undo, waits, calls, srv>>
    BY <1>5 DEF lockMailbox
  <2>2. MailList(msgs')
    BY <2>1 DEF MailList
  <2>3. view' \in ViewT /\ found' \in FoundT
    BY <1>1, <2>1 DEF ViewT, FoundT
  <2>4. RestTyped'
    BY <1>0, <2>1, <2>2, <2>3 DEF RestTyped, MaybeBox
  <2>5. /\ content' \in ContentT /\ content'.of = Nil /\ content'.atts = content.atts
        /\ content'.quote = Nil /\ content'.edit = Nil
    BY <1>0, <2>1 DEF ScreenTyped, Blank, ContentT, Kinds
  <2>6. acts' \in Count /\ seqNo <= acts' /\ seqNo \in Nat /\ waits \subseteq WaitT
    BY <1>0, <2>1, ActCounted DEF ScreenTyped
  <2>7. ScreenTyped'
    BY <2>1, <2>5, <2>6 DEF ScreenTyped, MaybeCopy
  <2>8. OpensNumbered'
    BY <2>1 DEF ViewInv, OpensNumbered
  <2>9. \A v \in waits : OpenWaits(v) =>
          content.atts \in {v.id, Nil} /\ \A w \in waits : OpenWaits(w) => w = v
    BY DEF ViewInv, LastOpenSound
  <2>10. LastOpenSound'
    BY <2>1, <2>5, <2>9 DEF LastOpenSound, OpenWaits
  <2>11. LatestOpenWins' /\ SuccessOnlyPlaintext'
    BY <2>1, <2>5 DEF LatestOpenWins, SuccessOnlyPlaintext
  <2> QED BY <2>4, <2>7, <2>8, <2>10, <2>11 DEF ViewInv
<1> QED BY <1>2, <1>3, <1>4, <1>5

(* A request sent without waiting reaches the server or fails. *)
LEMMA ServerStep ==
  ASSUME ViewInv, NEW c \in calls, ServerApplies(c)
  PROVE  ViewInv'
<1>0. /\ RestTyped /\ ScreenTyped /\ MailList(msgs) /\ picked \subseteq Mail /\ undo \in UndoT
      /\ calls \subseteq CallT /\ sel \in MaybeCopy /\ cfs \subseteq CustomIds
      /\ lbls \subseteq LabelIds /\ mbox \in Boxes
  BY DEF ViewInv, RestTyped, ScreenTyped
<1>1. srv \in ServerT /\ srv.mail \in [Mail -> Entry] /\ c \in CallT /\ c \in Call
  BY <1>0, ServerFields DEF RestTyped, CallT
<1>2. /\ c.id \in Mail /\ c.read \in BOOLEAN /\ c.folder \in Folder \cup {"custom"}
      /\ c.op \in {"read", "folder", "attach", "detach"}
      /\ c.op = "folder" => c.arg \in CustomIds \cup {Nil}
      /\ c.op \in {"attach", "detach"} => c.arg \in LabelIds
  BY <1>1 DEF CallT, Call
<1>3. /\ calls' = calls \ {c}
      /\ UNCHANGED <<mbox, open4, sel, content, decrypting, seqNo, msgs, picked, undo, view, cfs,
                     lbls, found, waits, acts>>
  BY DEF ServerApplies, screen, lists
<1>4. srv' \in ServerT
  <2> DEFINE e == srv.mail[c.id]
             x == CASE c.op = "read" -> [e EXCEPT !.read = c.read]
                    [] c.op = "folder" -> [e EXCEPT !.folder = IF c.folder = "custom" THEN "inbox" ELSE c.folder,
                                                   !.cf = c.arg]
                    [] c.op = "attach" -> [e EXCEPT !.labels = e.labels \cup {c.arg}]
                    [] c.op = "detach" -> [e EXCEPT !.labels = e.labels \ {c.arg}]
  <2>1. e \in Entry
    BY <1>1, <1>2
  <2>2. srv' = srv \/ srv' = [srv EXCEPT !.mail[c.id] = x]
    BY DEF ServerApplies
  <2> HIDE DEF e
  <2>3. x \in Entry
    <3>1. CASE c.op = "read"
      BY <1>2, <2>1, <3>1 DEF Entry
    <3>2. CASE c.op = "folder"
      BY <1>2, <2>1, <3>2 DEF Entry, Folder
    <3>3. CASE c.op = "attach"
      BY <1>2, <2>1, <3>3 DEF Entry
    <3>4. CASE c.op = "detach"
      BY <1>2, <2>1, <3>4 DEF Entry
    <3> QED BY <1>2, <3>1, <3>2, <3>3, <3>4
  <2> HIDE DEF x
  <2> QED BY <1>1, <1>2, <2>2, <2>3 DEF ServerT
<1>5. RestTyped'
  BY <1>0, <1>3, <1>4 DEF RestTyped
<1> QED BY <1>3, <1>5, ScreenKept DEF SelFollows

(* Every click and every answer keeps the invariant. *)
LEMMA ViewStep == ViewInv /\ [MailViewNext]_viewVars => ViewInv'
<1> SUFFICES ASSUME ViewInv, [MailViewNext]_viewVars PROVE ViewInv'
  OBVIOUS
<1>0. /\ RestTyped /\ ScreenTyped /\ MailList(msgs) /\ picked \subseteq Mail /\ undo \in UndoT
      /\ calls \subseteq CallT /\ sel \in MaybeCopy /\ cfs \subseteq CustomIds
      /\ lbls \subseteq LabelIds /\ mbox \in Boxes
  BY DEF ViewInv, RestTyped, ScreenTyped
<1>1. CASE UNCHANGED viewVars
  <2>1. RestTyped'
    BY <1>0, <1>1 DEF viewVars, lists, screen, RestTyped
  <2> QED BY <1>1, <2>1, ScreenKept DEF viewVars, lists, screen, SelFollows
<1>2. ASSUME NEW m \in filteredMessages
      PROVE  m \in DOMAIN msgs /\ m \in Mail /\ msgs[m] \in Entry
  BY <1>0 DEF filteredMessages, MailList
<1>3. ASSUME NEW m \in filteredMessages, StackedRow(m) PROVE ViewInv'
  <2>1. CASE openMessage(m)
    BY <1>2, <2>1, OpenStep
  <2>2. CASE handleToggleCheck(m)
    BY <1>2, <2>2, BatchStep
  <2>3. CASE handleDrop(m)
    BY <2>3, MenusStep
  <2>4. CASE RowButtons(m, msgs[m])
    BY <1>2, <2>4, ButtonsStep
  <2> QED BY <1>3, <2>1, <2>2, <2>3, <2>4 DEF StackedRow, RowStep
<1>4. CASE PaneToolbar
  <2>1. sel.id \in Mail /\ sel.e \in Entry
    BY <1>0, <1>4 DEF PaneToolbar, MaybeCopy, Copy
  <2>2. CASE RowButtons(sel.id, sel.e)
    BY <2>1, <2>2, ButtonsStep
  <2>3. CASE handleKeyDown \/ MarkSpam
    BY <2>3, BatchStep
  <2>4. ASSUME NEW m \in filteredMessages, OpenNeighbour(m) PROVE ViewInv'
    BY <1>2, <2>4, OpenStep DEF OpenNeighbour
  <2> QED BY <1>4, <2>2, <2>3, <2>4 DEF PaneToolbar
<1>5. CASE InboxToolbar \/ PaneMenus
  BY <1>5, BatchStep, MenusStep DEF InboxToolbar, SelectMenu
<1>6. CASE ScreenStep
  BY <1>3, <1>4, <1>5, <1>6, BatchStep, SidebarStep, BoxStep DEF ScreenStep
<1>7. ASSUME NEW w \in waits, WaitStep(w) PROVE ViewInv'
  BY <1>7, OpenAnswers, ListAnswers DEF WaitStep
<1> QED BY <1>1, <1>6, <1>7, ServerStep, BatchStep DEF MailViewNext

(* The numbers beside the folders count what the views list. *)
LEMMA BadgesMatch == BadgesMatchViews
<1>1. CASE view.cf # Nil
  <2>1. filteredMessages = {m \in DOMAIN msgs : msgs[m].cf = view.cf /\ msgs[m].folder # "trash"}
    BY <1>1 DEF filteredMessages, matchFolder
  <2> QED BY <1>1, <2>1 DEF BadgesMatchViews, customFolderCounts
<1>2. CASE view.cf = Nil /\ view.label # Nil
  <2>1. filteredMessages = {m \in DOMAIN msgs : view.label \in msgs[m].labels /\ msgs[m].folder # "trash"}
    BY <1>2 DEF filteredMessages, matchFolder
  <2> QED BY <1>2, <2>1 DEF BadgesMatchViews, labelCounts
<1>3. CASE view.cf = Nil /\ view.label = Nil
  <2>1. filteredMessages =
          {m \in DOMAIN msgs : msgs[m].folder = view.folder /\ (view.folder = "inbox" => msgs[m].cf = Nil)}
    BY <1>3 DEF filteredMessages, matchFolder
  <2> QED BY <1>3, <2>1 DEF BadgesMatchViews, folderCounts
<1> QED BY <1>1, <1>2, <1>3

(* What the invariant is for. *)
LEMMA ViewInvImplies == ViewInv => MailViewTypeOK /\ ViewConsistent
<1> SUFFICES ASSUME ViewInv PROVE MailViewTypeOK /\ ViewConsistent
  OBVIOUS
<1>1. ViewConsistent
  BY BadgesMatch DEF ViewInv, ViewConsistent
<1>2. srv.mail \in [Mail -> Entry] /\ srv.cfs \in [Boxes -> SUBSET CustomIds]
      /\ srv.lbls \in [Boxes -> SUBSET LabelIds]
  BY ServerFields DEF ViewInv, RestTyped
<1>3. waits \subseteq Wait /\ calls \subseteq Call
  BY DEF ViewInv, RestTyped, ScreenTyped, WaitT, CallT
<1>4. seqNo \in 0..MaxActs /\ acts \in 0..MaxActs
  BY MailViewAssumption DEF ViewInv, ScreenTyped, Count
<1>5. MailViewTypeOK
  BY <1>2, <1>3, <1>4 DEF ViewInv, RestTyped, ScreenTyped, MailViewTypeOK, MailList, MaybeCopy,
     MaybeBox, UndoT, ViewT, ContentT, FoundT
<1> QED BY <1>1, <1>5

-----------------------------------------------------------------------------
(* Lists: what Array.filter keeps, and the least number of a set of *)
(* numbers, which stands for induction.                             *)

(* The n-th of the entries that a filter keeps is there, and entries       *)
(* that stand in different places are different ones (Array.filter).       *)
LEMMA FilterPlaces ==
  ASSUME NEW S \in SUBSET Nat, IsFiniteSet(S)
  PROVE  /\ Cardinality(S) \in Nat
         /\ \A n \in 1..Cardinality(S) :
              \E i \in S : Cardinality({k \in S : k <= i}) = n
<1> DEFINE Upto(i) == {k \in S : k <= i}
           rank == [i \in S |-> Cardinality(Upto(i))]
<1>1. Cardinality(S) \in Nat
  BY FS_CardinalityType
<1>2. \A i \in S : /\ IsFiniteSet(Upto(i)) /\ Cardinality(Upto(i)) \in Nat
                   /\ Cardinality(Upto(i)) <= Cardinality(S)
  <2> SUFFICES ASSUME NEW i \in S
      PROVE /\ IsFiniteSet(Upto(i)) /\ Cardinality(Upto(i)) \in Nat
            /\ Cardinality(Upto(i)) <= Cardinality(S)
    OBVIOUS
  <2>1. Upto(i) \in SUBSET S
    OBVIOUS
  <2>2. IsFiniteSet(Upto(i)) /\ Cardinality(Upto(i)) <= Cardinality(S)
    BY <2>1, FS_Subset
  <2> QED BY <2>2, FS_CardinalityType
<1>3. \A i \in S : Cardinality(Upto(i)) # 0
  <2> SUFFICES ASSUME NEW i \in S, Cardinality(Upto(i)) = 0 PROVE FALSE
    OBVIOUS
  <2>1. IsFiniteSet(Upto(i)) /\ i \in Upto(i)
    BY <1>2
  <2> QED BY <2>1, FS_EmptySet
<1>4. rank \in [S -> 1..Cardinality(S)]
  <2> SUFFICES ASSUME NEW i \in S PROVE Cardinality(Upto(i)) \in 1..Cardinality(S)
    OBVIOUS
  <2> HIDE DEF Upto
  <2> QED BY <1>1, <1>2, <1>3
<1>5. ASSUME NEW i \in S, NEW j \in S, Cardinality(Upto(i)) = Cardinality(Upto(j)), i < j
      PROVE  FALSE
  <2>1. Upto(i) \in SUBSET Upto(j) /\ j \in Upto(j) /\ j \notin Upto(i)
    <3>1. i \in Nat /\ j \in Nat /\ i < j
      BY <1>5
    <3>2. \A k \in Nat : k <= i => k <= j
      BY <3>1
    <3>3. ~(j <= i)
      BY <3>1
    <3>4. \A k \in S : k \in Nat
      OBVIOUS
    <3>5. Upto(i) \subseteq Upto(j)
      BY <3>2, <3>4
    <3>6. j \in Upto(j) /\ j \notin Upto(i)
      BY <3>1, <3>3
    <3> QED BY <3>5, <3>6
  <2>2. Upto(i) = Upto(j)
    BY <2>1, <1>2, <1>5, FS_Subset
  <2> QED BY <2>1, <2>2
<1>6. rank \in Injection(S, 1..Cardinality(S))
  <2>1. \A i, j \in S : rank[i] = rank[j] => i = j
    <3> SUFFICES ASSUME NEW i \in S, NEW j \in S, rank[i] = rank[j] PROVE i = j
      OBVIOUS
    <3>1. Cardinality(Upto(i)) = Cardinality(Upto(j))
      OBVIOUS
    <3>2. i \in Nat /\ j \in Nat
      OBVIOUS
    <3> QED BY <3>1, <3>2, <1>5
  <2> QED BY <2>1, <1>4 DEF Injection, IsInjective
<1>7. IsFiniteSet(1..Cardinality(S)) /\ Cardinality(1..Cardinality(S)) = Cardinality(S)
  <2>1. 1 \in Int /\ Cardinality(S) \in Int
    BY <1>1
  <2>2. IsFiniteSet(1..Cardinality(S))
        /\ Cardinality(1..Cardinality(S)) = IF 1 > Cardinality(S) THEN 0 ELSE Cardinality(S) - 1 + 1
    BY <2>1, FS_Interval
  <2> QED BY <2>2, <1>1
<1>8. rank \in Surjection(S, 1..Cardinality(S))
  BY <1>6, <1>7, FS_Injection
<1>9. \A n \in 1..Cardinality(S) : \E i \in S : rank[i] = n
  BY <1>8 DEF Surjection
<1> QED BY <1>1, <1>9

(* A filter leaves entries of the list, each from a place of its own       *)
(* (Array.filter).                                                         *)
LEMMA FilteredPlaces ==
  ASSUME NEW T, NEW s \in Seq(T), NEW S \in SUBSET DOMAIN s
  PROVE  /\ Filtered(s, S) \in Seq(T)
         /\ \E p \in [DOMAIN Filtered(s, S) -> S] :
              /\ \A m, n \in DOMAIN Filtered(s, S) : p[m] = p[n] => m = n
              /\ \A n \in DOMAIN Filtered(s, S) : Filtered(s, S)[n] = s[p[n]]
<1> DEFINE N == Cardinality(S)
           place(n) == CHOOSE i \in S : Cardinality({k \in S : k <= i}) = n
           p == [n \in 1..N |-> place(n)]
<1>1. DOMAIN s = 1..Len(s) /\ Len(s) \in Nat
  OBVIOUS
<1>2. S \in SUBSET Nat /\ IsFiniteSet(S)
  <2>1. S \in SUBSET Nat /\ S \in SUBSET (1..Len(s))
    BY <1>1
  <2>2. IsFiniteSet(1..Len(s))
    BY <1>1, FS_Interval
  <2> QED BY <2>1, <2>2, FS_Subset
<1>3. \A n \in 1..N : place(n) \in S /\ Cardinality({k \in S : k <= place(n)}) = n
  BY <1>2, FilterPlaces
<1>4. N \in Nat
  BY <1>2, FS_CardinalityType
<1>5. Filtered(s, S) = [n \in 1..N |-> s[place(n)]]
  BY DEF Filtered
<1> HIDE DEF place, N
<1>6. p \in [1..N -> S] /\ \A n \in 1..N : p[n] = place(n)
  BY <1>3
<1>7. \A m, n \in 1..N : p[m] = p[n] => m = n
  <2> SUFFICES ASSUME NEW m \in 1..N, NEW n \in 1..N, p[m] = p[n] PROVE m = n
    OBVIOUS
  <2>1. place(m) = place(n)
    BY <1>6
  <2>2. Cardinality({k \in S : k <= place(m)}) = m /\ Cardinality({k \in S : k <= place(n)}) = n
    BY <1>3
  <2> QED BY <2>1, <2>2
<1>8. \A i \in S : s[i] \in T
  BY <1>1
<1>9. Filtered(s, S) \in [1..N -> T]
  BY <1>3, <1>5, <1>8
<1>10. Filtered(s, S) \in Seq(T) /\ DOMAIN Filtered(s, S) = 1..N
  BY <1>4, <1>9
<1>11. \A n \in 1..N : Filtered(s, S)[n] = s[p[n]]
  BY <1>5, <1>6
<1> HIDE DEF p
<1>12. \E q \in [1..N -> S] : /\ \A m, n \in 1..N : q[m] = q[n] => m = n
                              /\ \A n \in 1..N : Filtered(s, S)[n] = s[q[n]]
  BY <1>6, <1>7, <1>11
<1> QED BY <1>10, <1>12

(* A set of numbers that is not empty has a least one: the induction that  *)
(* the proofs about loops use, on the first number where a claim fails.    *)
LEMMA Least ==
  ASSUME NEW S \in SUBSET Nat, S # {}
  PROVE  \E n \in S : \A k \in S : n <= k
<1>1. PICK m \in S : TRUE
  OBVIOUS
<1> DEFINE T == {k \in S : k <= m}
<1>2. T \in SUBSET Nat /\ m \in T
  <2>1. m \in Nat /\ m <= m
    OBVIOUS
  <2> QED BY <2>1
<1>3. IsFiniteSet(T)
  BY FS_BoundedSetOfNaturals
<1>4. Cardinality(T) \in Nat /\ Cardinality(T) # 0
  BY <1>2, <1>3, FS_CardinalityType, FS_EmptySet
<1> HIDE DEF T
<1>5. PICK i \in T : Cardinality({k \in T : k <= i}) = 1
  <2>1. 1 \in 1..Cardinality(T)
    BY <1>4
  <2> QED BY <1>2, <1>3, <2>1, FilterPlaces
<1>6. \A k \in T : k <= i => k = i
  <2> DEFINE U == {k \in T : k <= i}
  <2>1. U \in SUBSET T /\ i \in U
    BY <1>2
  <2>2. IsFiniteSet(U)
    BY <1>3, <2>1, FS_Subset
  <2>3. \E x : U = {x}
    BY <1>5, <2>2, FS_Singleton
  <2> QED BY <2>1, <2>3
<1>7. \A k \in T : i <= k
  BY <1>2, <1>6
<1>8. \A k \in S : k \notin T => i <= k
  BY <1>2 DEF T
<1> QED BY <1>7, <1>8 DEF T

-----------------------------------------------------------------------------
(* Accounts and the session. *)

(* Lists of accounts that name each account once. *)
AccountLists ==
  {l \in Seq(ConnectedAccount) : \A i, j \in DOMAIN l : l[i].id = l[j].id => i = j}

(* Taking an account off a list leaves entries of the list, in a list that *)
(* names each account once and not this one (Array.filter).                *)
LEMMA WithoutKeeps ==
  ASSUME NEW l \in AccountLists, NEW x
  PROVE  /\ Without(l, x) \in AccountLists
         /\ \A i \in DOMAIN Without(l, x) : Without(l, x)[i].id # x
<1> DEFINE S == {i \in DOMAIN l : l[i].id # x}
           w == Filtered(l, S)
<1>1. l \in Seq(ConnectedAccount) /\ S \in SUBSET DOMAIN l
  BY DEF AccountLists
<1>a. /\ w \in Seq(ConnectedAccount)
      /\ \E p \in [DOMAIN w -> S] : /\ \A m, n \in DOMAIN w : p[m] = p[n] => m = n
                                    /\ \A n \in DOMAIN w : w[n] = l[p[n]]
  <2> HIDE DEF S
  <2> QED BY <1>1, FilteredPlaces
<1>2. w \in Seq(ConnectedAccount)
  BY <1>a
<1>3. PICK p \in [DOMAIN w -> S] : /\ \A m, n \in DOMAIN w : p[m] = p[n] => m = n
                                   /\ \A n \in DOMAIN w : w[n] = l[p[n]]
  BY <1>a
<1>4. Without(l, x) = w
  BY DEF Without
<1> HIDE DEF w
<1>5. \A n \in DOMAIN w : p[n] \in DOMAIN l /\ w[n].id # x
  BY <1>3
<1>6. \A m, n \in DOMAIN w : w[m].id = w[n].id => m = n
  BY <1>3, <1>5 DEF AccountLists
<1>7. w \in AccountLists
  BY <1>2, <1>6 DEF AccountLists
<1> QED BY <1>4, <1>5, <1>7

(* The first of a list, and a list the program makes of one. *)
LEMMA FirstListed ==
  ASSUME NEW l \in AccountLists, l # <<>>
  PROVE  l[1] \in ConnectedAccount
BY DEF AccountLists

(* An account put on top of a list it may be in is in it once. *)
LEMMA OnTopKeeps ==
  ASSUME NEW l \in AccountLists, NEW e \in ConnectedAccount
  PROVE  OnTop(l, e) \in AccountLists
<1> DEFINE w == Without(l, e.id)
<1>1. w \in AccountLists /\ \A i \in DOMAIN w : w[i].id # e.id
  BY WithoutKeeps
<1>2. OnTop(l, e) = <<e>> \o w
  BY DEF OnTop
<1> HIDE DEF w
<1>3. w \in Seq(ConnectedAccount) /\ DOMAIN w = 1..Len(w) /\ Len(w) \in Nat
  BY <1>1 DEF AccountLists
<1> DEFINE t == <<e>> \o w
<1>4. t \in Seq(ConnectedAccount) /\ DOMAIN t = 1..(Len(w) + 1) /\ t[1] = e
      /\ \A i \in 2..(Len(w) + 1) : t[i] = w[i - 1]
  BY <1>3
<1> HIDE DEF t
<1>5. \A i, j \in DOMAIN t : t[i].id = t[j].id => i = j
  <2> SUFFICES ASSUME NEW i \in DOMAIN t, NEW j \in DOMAIN t, t[i].id = t[j].id PROVE i = j
    OBVIOUS
  <2>1. CASE i = 1 /\ j = 1
    BY <2>1
  <2>2. CASE i = 1 /\ j # 1
    <3>1. j - 1 \in DOMAIN w /\ t[j] = w[j - 1]
      BY <1>3, <1>4, <2>2
    <3> QED BY <3>1, <2>2, <1>4, <1>1
  <2>3. CASE i # 1 /\ j = 1
    <3>1. i - 1 \in DOMAIN w /\ t[i] = w[i - 1]
      BY <1>3, <1>4, <2>3
    <3> QED BY <3>1, <2>3, <1>4, <1>1
  <2>4. CASE i # 1 /\ j # 1
    <3>1. i - 1 \in DOMAIN w /\ t[i] = w[i - 1] /\ j - 1 \in DOMAIN w /\ t[j] = w[j - 1]
      BY <1>3, <1>4, <2>4
    <3>2. i - 1 = j - 1
      BY <3>1, <1>1 DEF AccountLists
    <3>3. i \in Nat /\ j \in Nat
      BY <1>3, <1>4
    <3> QED BY <3>2, <3>3
  <2> QED BY <2>1, <2>2, <2>3, <2>4
<1>6. t \in AccountLists
  BY <1>4, <1>5 DEF AccountLists
<1> QED BY <1>2, <1>6 DEF t

(* What is written to the lasting store, without keys, names each account *)
(* once too.                                                              *)
LEMMA DurableKeeps ==
  ASSUME NEW l \in AccountLists
  PROVE  Durable(l) \in AccountLists
<1>1. l \in Seq(ConnectedAccount) /\ DOMAIN l = 1..Len(l) /\ Len(l) \in Nat
  BY DEF AccountLists
<1> DEFINE d == Durable(l)
<1>2. \A i \in DOMAIN l : [l[i] EXCEPT !.sk = None] \in ConnectedAccount
                          /\ [l[i] EXCEPT !.sk = None].id = l[i].id
  <2> SUFFICES ASSUME NEW i \in DOMAIN l
      PROVE  [l[i] EXCEPT !.sk = None] \in ConnectedAccount
             /\ [l[i] EXCEPT !.sk = None].id = l[i].id
    OBVIOUS
  <2>1. l[i] \in ConnectedAccount
    BY <1>1
  <2> QED BY <2>1 DEF ConnectedAccount, Maybe
<1>3. d \in Seq(ConnectedAccount) /\ DOMAIN d = DOMAIN l /\ \A i \in DOMAIN l : d[i].id = l[i].id
  <2>1. d = [i \in DOMAIN l |-> [l[i] EXCEPT !.sk = None]]
    BY DEF Durable
  <2>2. d \in [1..Len(l) -> ConnectedAccount]
    BY <1>1, <1>2, <2>1
  <2>3. d \in Seq(ConnectedAccount)
    BY <1>1, <2>2
  <2>4. DOMAIN d = DOMAIN l
    BY <2>1
  <2>5. \A i \in DOMAIN l : d[i].id = l[i].id
    <3>1. \A i \in DOMAIN l : d[i] = [l[i] EXCEPT !.sk = None]
      BY <2>1
    <3> QED BY <3>1, <1>2
  <2> QED BY <2>3, <2>4, <2>5
<1> HIDE DEF d
<1> QED BY <1>3 DEF AccountLists, d

(* The empty list names none twice. *)
LEMMA NoAccounts == <<>> \in AccountLists
BY DEF AccountLists

(* A list that names each account once is no longer than the accounts. *)
LEMMA ListsBounded == AccountLists \subseteq Lists
<1> SUFFICES ASSUME NEW l \in AccountLists PROVE l \in Lists
  OBVIOUS
<1>1. l \in Seq(ConnectedAccount) /\ DOMAIN l = 1..Len(l) /\ Len(l) \in Nat
  BY DEF AccountLists
<1> DEFINE f == [i \in 1..Len(l) |-> l[i].id]
<1>2. f \in [1..Len(l) -> Accounts]
  <2>1. \A i \in 1..Len(l) : l[i] \in ConnectedAccount
    BY <1>1
  <2> QED BY <2>1 DEF ConnectedAccount
<1>3. \A i, j \in 1..Len(l) : f[i] = f[j] => i = j
  BY <1>1 DEF AccountLists
<1>4. f \in Injection(1..Len(l), Accounts)
  BY <1>2, <1>3 DEF Injection, IsInjective
<1>5. Cardinality(1..Len(l)) <= Cardinality(Accounts)
  BY <1>4, SessionAssumption, FS_Injection
<1>6. Cardinality(1..Len(l)) = Len(l)
  <2>1. 1 \in Int /\ Len(l) \in Int
    BY <1>1
  <2>2. Cardinality(1..Len(l)) = IF 1 > Len(l) THEN 0 ELSE Len(l) - 1 + 1
    BY <2>1, FS_Interval
  <2> QED BY <2>2, <1>1
<1>7. Cardinality(Accounts) \in Nat
  BY SessionAssumption, FS_CardinalityType
<1>8. Len(l) \in 0..Cardinality(Accounts)
  BY <1>1, <1>5, <1>6, <1>7
<1>9. l \in [1..Len(l) -> ConnectedAccount]
  BY <1>1
<1> QED BY <1>8, <1>9 DEF Lists

(* What the variables hold, by name. A handler that talks of an account at *)
(* its await has one.                                                      *)
Keys == [Accounts -> Maybe]
(* What is kept with a credential names the mailbox its key is of. *)
Vault ==
  {v \in [Accounts -> VaultEntry] :
     \A x \in Accounts : v[x] # NoEntry => v[x].box \in Accounts}
TaskT ==
  {t \in [op : Handlers, at : Awaits, acc : Maybe, pass : Maybe, wrap : Maybe, tok : Maybe,
          shape : Shapes, modal : BOOLEAN, snap : AccountLists, cur : Maybe] :
     t.at \in {"auth", "boxes", "wasm", "register"} => t.acc \in Accounts}

(* The handlers under way: at most so many, and one at most that signs in, *)
(* which has the forms disabled while it waits.                            *)
OneSignIn(ts, busy) ==
  /\ \A t \in ts : t.op \in SignIns => busy
  /\ \A t, u \in ts : t.op \in SignIns /\ u.op \in SignIns => t = u
Counted(ts) == IsFiniteSet(ts) /\ Cardinality(ts) <= MaxTasks
TasksOK(ts, busy) == ts \subseteq TaskT /\ Counted(ts) /\ OneSignIn(ts, busy)

(* The parts of the state that change together. *)
MemoryOK ==
  /\ user \in Maybe /\ shape \in Shapes /\ box \in Maybe /\ key \in Maybe /\ unlocked \in Maybe
  /\ stored \in Keys /\ MemoryMatchesStore
ListsOK == list \in AccountLists /\ durable \in AccountLists
TokensOK == token \in Maybe /\ stand \in Maybe /\ cookie \in Maybe /\ vault \in Vault
FlagsOK ==
  /\ loading \in BOOLEAN /\ loginBusy \in BOOLEAN /\ codeBusy \in BOOLEAN /\ cached \in BOOLEAN
  /\ challenge \in Maybe /\ CachedForChallenge
ModalOK == joining \in Maybe /\ joinBusy \in BOOLEAN

(* The inductive invariant of the session: that only one sign-in is under  *)
(* way needs that it keeps the forms busy, that the key in memory is the   *)
(* stored one needs nothing more, and that lists name an account once      *)
(* needs it of the lists that sign-outs carry over their await too.        *)
PageInv ==
  /\ MemoryOK /\ ListsOK /\ TokensOK /\ FlagsOK
  /\ TasksOK(tasks, loginBusy) /\ ops \in 0..MaxOps
SessionInv == PageInv /\ ModalOK

(* A handler's record at its first await, and after an answer. *)
LEMMA NewTaskTyped ==
  ASSUME NEW o \in Handlers, NEW w \in Awaits, NEW n \in Maybe,
         w \in {"auth", "boxes", "wasm", "register"} => n \in Accounts
  PROVE  NewTask(o, w, n) \in TaskT /\ NewTask(o, w, n).op = o
<1>1. None \in Maybe
  BY DEF Maybe
<1>2. Full \in Shapes
  BY DEF Full, Shapes
<1> QED BY <1>1, <1>2, NoAccounts DEF NewTask, TaskT

(* A handler that talks of an account goes on to another await. *)
LEMMA TaskGoesOn ==
  ASSUME NEW t \in TaskT, NEW w \in Awaits, t.acc \in Accounts
  PROVE  /\ [t EXCEPT !.at = w] \in TaskT /\ [t EXCEPT !.at = w].op = t.op
         /\ \A n \in Maybe : /\ [t EXCEPT !.at = w, !.tok = n] \in TaskT
                             /\ [t EXCEPT !.at = w, !.tok = n].op = t.op
         /\ \A n \in Accounts : /\ [t EXCEPT !.at = w, !.acc = n] \in TaskT
                                /\ [t EXCEPT !.at = w, !.acc = n].op = t.op
                                /\ [t EXCEPT !.acc = n] \in TaskT /\ [t EXCEPT !.acc = n].op = t.op
<1>1. [t EXCEPT !.at = w] \in TaskT /\ [t EXCEPT !.at = w].op = t.op
  BY DEF TaskT
<1>2. ASSUME NEW n \in Maybe
      PROVE  [t EXCEPT !.at = w, !.tok = n] \in TaskT /\ [t EXCEPT !.at = w, !.tok = n].op = t.op
  BY DEF TaskT
<1>3. ASSUME NEW n \in Accounts
      PROVE  /\ [t EXCEPT !.at = w, !.acc = n] \in TaskT /\ [t EXCEPT !.at = w, !.acc = n].op = t.op
             /\ [t EXCEPT !.acc = n] \in TaskT /\ [t EXCEPT !.acc = n].op = t.op
  BY DEF TaskT, Maybe
<1> QED BY <1>1, <1>2, <1>3

(* A handler goes on to load the mailbox. *)
LEMMA TaskLoads ==
  ASSUME NEW t \in TaskT
  PROVE  Load(t) \in TaskT /\ Load(t).op = t.op
BY DEF Load, TaskT, Awaits

(* The handlers under way when one is started, goes on or ends. *)
LEMMA TaskAdded ==
  ASSUME NEW ts, NEW busy \in BOOLEAN, TasksOK(ts, busy), Cardinality(ts) < MaxTasks,
         NEW u \in TaskT, u.op \in SignIns => ~busy
  PROVE  TasksOK(ts \cup {u}, busy \/ u.op \in SignIns)
<1>1. ts \cup {u} \subseteq TaskT
  BY DEF TasksOK
<1>2. IsFiniteSet(ts) /\ Cardinality(ts) \in Nat
  BY FS_CardinalityType DEF TasksOK, Counted
<1>3. Counted(ts \cup {u})
  <2>1. IsFiniteSet(ts \cup {u})
        /\ Cardinality(ts \cup {u}) = IF u \in ts THEN Cardinality(ts) ELSE Cardinality(ts) + 1
    BY <1>2, FS_AddElement
  <2>2. Cardinality(ts \cup {u}) <= MaxTasks
    BY <2>1, <1>2, SessionAssumption
  <2> QED BY <2>1, <2>2 DEF Counted
<1>4. OneSignIn(ts \cup {u}, busy \/ u.op \in SignIns)
  BY DEF TasksOK, OneSignIn
<1> QED BY <1>1, <1>3, <1>4 DEF TasksOK

(* One less is under way, and the forms may be freed if it was the one *)
(* that signs in.                                                      *)
LEMMA TaskEnded ==
  ASSUME NEW ts, NEW busy \in BOOLEAN, TasksOK(ts, busy), NEW t \in ts
  PROVE  /\ TasksOK(ts \ {t}, busy /\ t.op \notin SignIns)
         /\ TasksOK(ts \ {t}, busy)
         /\ Cardinality(ts \ {t}) < MaxTasks
<1>1. ts \ {t} \subseteq TaskT
  BY DEF TasksOK
<1>2. IsFiniteSet(ts) /\ Cardinality(ts) \in Nat /\ Cardinality(ts) <= MaxTasks
  BY FS_CardinalityType DEF TasksOK, Counted
<1>3. IsFiniteSet(ts \ {t}) /\ Cardinality(ts \ {t}) = Cardinality(ts) - 1
  BY <1>2, FS_RemoveElement
<1>4. Counted(ts \ {t}) /\ Cardinality(ts \ {t}) < MaxTasks
  BY <1>2, <1>3, SessionAssumption DEF Counted
<1>5. OneSignIn(ts \ {t}, busy /\ t.op \notin SignIns) /\ OneSignIn(ts \ {t}, busy)
  BY DEF TasksOK, OneSignIn
<1> QED BY <1>1, <1>4, <1>5 DEF TasksOK

(* A handler is replaced by its next stage, or by one that does not sign *)
(* in.                                                                   *)
LEMMA TaskMoved ==
  ASSUME NEW ts, NEW busy \in BOOLEAN, TasksOK(ts, busy), NEW t \in ts,
         NEW u \in TaskT, u.op = t.op \/ u.op \notin SignIns
  PROVE  TasksOK((ts \ {t}) \cup {u}, busy)
<1>1. (ts \ {t}) \cup {u} \subseteq TaskT
  BY DEF TasksOK
<1>2. IsFiniteSet(ts) /\ Cardinality(ts) \in Nat /\ Cardinality(ts) <= MaxTasks
  BY FS_CardinalityType DEF TasksOK, Counted
<1>3. IsFiniteSet(ts \ {t}) /\ Cardinality(ts \ {t}) = Cardinality(ts) - 1
  BY <1>2, FS_RemoveElement
<1>4. IsFiniteSet((ts \ {t}) \cup {u}) /\ Cardinality((ts \ {t}) \cup {u}) <= Cardinality(ts)
  <2>1. IsFiniteSet((ts \ {t}) \cup {u})
        /\ Cardinality((ts \ {t}) \cup {u})
             = IF u \in ts \ {t} THEN Cardinality(ts \ {t}) ELSE Cardinality(ts \ {t}) + 1
    BY <1>3, FS_AddElement
  <2> QED BY <2>1, <1>2, <1>3
<1>5. Cardinality((ts \ {t}) \cup {u}) \in Nat
  BY <1>4, FS_CardinalityType
<1>6. Counted((ts \ {t}) \cup {u})
  BY <1>2, <1>4, <1>5, SessionAssumption DEF Counted
<1>7. OneSignIn((ts \ {t}) \cup {u}, busy)
  BY DEF TasksOK, OneSignIn
<1> QED BY <1>1, <1>6, <1>7 DEF TasksOK

(* A store of keys after one is written or dropped. *)
LEMMA KeyStored ==
  ASSUME NEW s \in Keys, NEW n \in Accounts, NEW k \in Maybe
  PROVE  [s EXCEPT ![n] = k] \in Keys /\ [s EXCEPT ![n] = k][n] = k
         /\ \A o \in Accounts : o # n => [s EXCEPT ![n] = k][o] = s[o]
BY DEF Keys

(* An entry of a list: its account, its token, its key. *)
LEMMA EntryOf ==
  ASSUME NEW e \in ConnectedAccount
  PROVE  e.id \in Accounts /\ e.tok \in Maybe /\ e.sk \in Maybe
BY DEF ConnectedAccount

(* An account or none. *)
LEMMA MaybeNone == None \in Maybe /\ Accounts \subseteq Maybe /\ None \notin Accounts
                   /\ \A x \in Maybe : x # None => x \in Accounts
BY SessionAssumption DEF Maybe

(* The memory and the keys when neither changes, or a key is taken up with *)
(* the mailbox it is stored for.                                           *)
LEMMA MemoryStays ==
  ASSUME MemoryOK, UNCHANGED <<memory, stored>> PROVE MemoryOK'
BY DEF MemoryOK, memory, MemoryMatchesStore

(* A key is taken up with the mailbox it is stored for. *)
LEMMA KeyTaken ==
  ASSUME stored' \in Keys, key' \in Maybe, unlocked' \in Maybe,
         user' \in Maybe, shape' \in Shapes, box' \in Maybe,
         key' # None => unlocked' # None /\ stored'[unlocked'] \in {key', None}
  PROVE  MemoryOK'
BY DEF MemoryOK, MemoryMatchesStore

(* The user changes and the mailbox with its key does not. *)
LEMMA KeyStays ==
  ASSUME MemoryOK, UNCHANGED <<key, unlocked, stored>>,
         user' \in Maybe, shape' \in Shapes, box' \in Maybe
  PROVE  MemoryOK'
BY DEF MemoryOK, MemoryMatchesStore

(* The flags when none changes. *)
LEMMA FlagsStay ==
  ASSUME FlagsOK, UNCHANGED flags PROVE FlagsOK'
BY DEF FlagsOK, flags, CachedForChallenge

(* The lists of accounts when none changes. *)
LEMMA ListsStay == ASSUME ListsOK, UNCHANGED <<list, durable>> PROVE ListsOK'
BY DEF ListsOK

(* The tokens when none changes. *)
LEMMA TokensStay == ASSUME TokensOK, UNCHANGED <<token, stand, cookie, vault>> PROVE TokensOK'
BY DEF TokensOK

(* The dialog that adds a mailbox when it does not change. *)
LEMMA ModalStays == ASSUME ModalOK, UNCHANGED modal PROVE ModalOK'
BY DEF ModalOK, modal

(* It is closed when the main screen is left. *)
LEMMA ModalLeft == ASSUME ModalOK, KeepModal PROVE ModalOK'
<1>1. CASE MainScreen'
  BY <1>1, ModalStays DEF KeepModal
<1>2. CASE ~MainScreen'
  BY <1>2, MaybeNone DEF KeepModal, ModalOK
<1> QED BY <1>1, <1>2

(* The count of the clicks is bounded. *)
LEMMA OpCounted ==
  ASSUME ops \in 0..MaxOps, Op \/ UNCHANGED ops PROVE ops' \in 0..MaxOps
BY SessionAssumption DEF Op

(* The end of a handler, by its finally clause. *)
LEMMA FinallyStep ==
  ASSUME FlagsOK, TasksOK(tasks, loginBusy), NEW t \in tasks, Finally(t)
  PROVE  /\ TasksOK(tasks', loginBusy')
         /\ loading' \in BOOLEAN /\ loginBusy' \in BOOLEAN /\ codeBusy' \in BOOLEAN
<1>1. loginBusy \in BOOLEAN
  BY DEF FlagsOK
<1>2. TasksOK(tasks \ {t}, loginBusy /\ t.op \notin SignIns)
  BY <1>1, TaskEnded
<1>3. tasks' = tasks \ {t} /\ loginBusy' = (loginBusy /\ t.op \notin SignIns)
  BY DEF Finally, Done
<1>4. TasksOK(tasks', loginBusy')
  BY <1>2, <1>3
<1> QED BY <1>4 DEF Finally

(* A handler ends and leaves the pending second factor alone. *)
LEMMA FinishStep ==
  ASSUME FlagsOK, TasksOK(tasks, loginBusy), NEW t \in tasks, Finish(t)
  PROVE  TasksOK(tasks', loginBusy') /\ FlagsOK'
<1>1. Finally(t) /\ challenge' = challenge /\ cached' = cached
  BY DEF Finish
<1>2. TasksOK(tasks', loginBusy') /\ loading' \in BOOLEAN /\ loginBusy' \in BOOLEAN
      /\ codeBusy' \in BOOLEAN
  BY <1>1, FinallyStep
<1> QED BY <1>1, <1>2 DEF FlagsOK, CachedForChallenge

(* What a handler carries over its await. *)
LEMMA TaskFields ==
  ASSUME NEW t \in TaskT
  PROVE  /\ t.acc \in Maybe /\ t.pass \in Maybe /\ t.wrap \in Maybe /\ t.tok \in Maybe
         /\ t.cur \in Maybe /\ t.shape \in Shapes /\ t.modal \in BOOLEAN
         /\ t.snap \in AccountLists
         /\ t.at \in {"auth", "boxes", "wasm", "register"} => t.acc \in Accounts
BY DEF TaskT

(* The parts of the invariant, and that a handler under way is typed. *)
LEMMA PageParts ==
  ASSUME PageInv, NEW t \in tasks
  PROVE  /\ MemoryOK /\ ListsOK /\ TokensOK /\ FlagsOK /\ TasksOK(tasks, loginBusy)
         /\ ops \in 0..MaxOps /\ loginBusy \in BOOLEAN /\ t \in TaskT
<1>1. tasks \subseteq TaskT
  BY DEF PageInv, TasksOK
<1> QED BY <1>1 DEF PageInv, FlagsOK

(* The list read back from the store names each account once. *)
LEMMA SavedListed == ASSUME ListsOK PROVE SavedAccounts \in AccountLists
BY DEF ListsOK, SavedAccounts

(* A handler goes on to its next await and the forms stay as they are. *)
LEMMA GoesOn ==
  ASSUME PageInv, NEW t \in tasks, NEW u \in TaskT, u.op = t.op, Continue(t, u),
         loginBusy' = loginBusy
  PROVE  TasksOK(tasks', loginBusy')
<1>1. TasksOK(tasks, loginBusy) /\ loginBusy \in BOOLEAN
  BY PageParts
<1>2. TasksOK((tasks \ {t}) \cup {u}, loginBusy)
  BY <1>1, TaskMoved
<1> QED BY <1>2 DEF Continue

(* The first request of the tab is answered. *)
LEMMA MeStep ==
  ASSUME PageInv, NEW t \in tasks, MeAnswer(t) PROVE PageInv'
<1>0. /\ MemoryOK /\ ListsOK /\ TokensOK /\ FlagsOK /\ TasksOK(tasks, loginBusy)
      /\ ops \in 0..MaxOps /\ loginBusy \in BOOLEAN /\ t \in TaskT
  BY PageParts
<1>1. UNCHANGED <<box, key, unlocked, stores, ops>>
  BY DEF MeAnswer
<1>2. ListsOK' /\ TokensOK' /\ ops' \in 0..MaxOps /\ box \in Maybe
  BY <1>0, <1>1, ListsStay, TokensStay DEF stores, MemoryOK
<1>3. CASE /\ t.acc # None /\ user' = t.acc /\ shape' = Full
           /\ Continue(t, [t EXCEPT !.at = "boxes"]) /\ UNCHANGED flags
  <2>1. t.acc \in Maybe /\ t.acc \in Accounts
    BY <1>0, <1>3, TaskFields, MaybeNone
  <2>2. Full \in Shapes
    BY DEF Full, Shapes
  <2>3. MemoryOK'
    BY <1>0, <1>1, <1>2, <1>3, <2>1, <2>2, KeyStays DEF stores
  <2>4. FlagsOK' /\ loginBusy' = loginBusy
    BY <1>0, <1>3, FlagsStay DEF flags
  <2>5. "boxes" \in Awaits
    BY DEF Awaits
  <2>6. TasksOK(tasks', loginBusy')
    BY <1>0, <1>3, <2>1, <2>4, <2>5, TaskGoesOn, GoesOn
  <2> QED BY <1>2, <2>3, <2>4, <2>6 DEF PageInv
<1>4. CASE Finish(t) /\ UNCHANGED <<user, shape>>
  <2>1. MemoryOK'
    BY <1>0, <1>1, <1>4, MemoryStays DEF stores, memory
  <2>2. TasksOK(tasks', loginBusy') /\ FlagsOK'
    BY <1>0, <1>4, FinishStep
  <2> QED BY <1>2, <2>1, <2>2 DEF PageInv
<1> QED BY <1>3, <1>4 DEF MeAnswer

(* The list is written with the handler's account on top. *)
LEMMA SyncStep ==
  ASSUME PageInv, NEW t \in tasks, t.acc \in Accounts, NEW n \in Accounts, NEW k \in Maybe,
         SyncAccounts(t, n, k),
         loginBusy' = loginBusy
  PROVE  ListsOK' /\ TokensOK' /\ TasksOK(tasks', loginBusy')
<1>0. ListsOK /\ TokensOK /\ t \in TaskT
  BY PageParts
<1> DEFINE tok == IF t.tok # None THEN t.tok ELSE token
           e == [id |-> n, tok |-> tok, sk |-> k]
           v == [t EXCEPT !.acc = n]
           l == OnTop(SavedAccounts, e)
<1>1. tok \in Maybe
  BY <1>0, TaskFields DEF TokensOK
<1>2. token' = tok /\ list' = l /\ durable' = Durable(l) /\ Continue(t, Load(v))
      /\ UNCHANGED <<stand, cookie, vault>>
  BY DEF SyncAccounts
<1> HIDE DEF tok
<1>3. e \in ConnectedAccount
  BY <1>1 DEF ConnectedAccount
<1> HIDE DEF e
<1>4. l \in AccountLists
  BY <1>0, <1>3, SavedListed, OnTopKeeps
<1> HIDE DEF l
<1>5. ListsOK'
  BY <1>2, <1>4, DurableKeeps DEF ListsOK
<1>6. TokensOK'
  BY <1>0, <1>1, <1>2 DEF TokensOK
<1>7. TasksOK(tasks', loginBusy')
  <2>1. "load" \in Awaits
    BY DEF Awaits
  <2>2. v \in TaskT /\ v.op = t.op
    BY <1>0, <2>1, TaskGoesOn
  <2> HIDE DEF v
  <2> QED BY <1>2, <2>2, TaskLoads, GoesOn
<1> QED BY <1>5, <1>6, <1>7

(* The mailboxes of an account arrive (MailboxesAnswer). *)
LEMMA MailboxesStep ==
  ASSUME PageInv, NEW t \in tasks, MailboxesAnswer(t) PROVE PageInv'
<1>0. /\ MemoryOK /\ ListsOK /\ TokensOK /\ FlagsOK /\ TasksOK(tasks, loginBusy)
      /\ ops \in 0..MaxOps /\ loginBusy \in BOOLEAN /\ t \in TaskT
  BY PageParts
<1>1. UNCHANGED <<user, shape, ops>> /\ t.at = "boxes"
  BY DEF MailboxesAnswer
<1>2. ops' \in 0..MaxOps /\ user' \in Maybe /\ shape' \in Shapes
  BY <1>0, <1>1 DEF MemoryOK
<1>3. t.acc \in Accounts /\ t.acc \in Maybe
  BY <1>0, <1>1, TaskFields
<1>a. TargetBoxes(t) \subseteq Accounts
  BY <1>3 DEF TargetBoxes
<1>4. ASSUME NEW n \in Accounts,
             /\ box' = n /\ Continue(t, [t EXCEPT !.at = "wasm", !.acc = n])
             /\ UNCHANGED <<key, unlocked, stores, flags>>
      PROVE  PageInv'
  <2>0. n \in Maybe
    BY MaybeNone
  <2>1. MemoryOK'
    BY <1>0, <1>2, <2>0, <1>4, KeyStays DEF stores
  <2>2. ListsOK' /\ TokensOK'
    BY <1>0, <1>4, ListsStay, TokensStay DEF stores
  <2>3. FlagsOK' /\ loginBusy' = loginBusy
    BY <1>0, <1>4, FlagsStay DEF flags
  <2>4. "wasm" \in Awaits
    BY DEF Awaits
  <2>5. TasksOK(tasks', loginBusy')
    BY <1>0, <1>3, <1>4, <2>3, <2>4, TaskGoesOn, GoesOn
  <2> QED BY <1>2, <2>1, <2>2, <2>3, <2>5 DEF PageInv
<1>5. ASSUME NEW n \in Accounts,
             /\ box' = n
             /\ IF stored[n] # None
                  THEN key' = stored[n] /\ unlocked' = n
                  ELSE UNCHANGED <<key, unlocked>>
             /\ SyncAccounts(t, n, stored[n])
             /\ UNCHANGED <<stored, flags>>
      PROVE  PageInv'
  <2>1. stored \in Keys /\ stored[n] \in Maybe /\ n \in Maybe
    BY <1>0, MaybeNone DEF MemoryOK, Keys
  <2>2. MemoryOK'
    <3>1. CASE stored[n] # None
      <4>1. key' \in Maybe /\ unlocked' \in Maybe /\ stored' \in Keys
            /\ (key' # None => unlocked' # None /\ stored'[unlocked'] \in {key', None})
        BY <1>5, <2>1, <3>1, MaybeNone
      <4> QED BY <4>1, <1>2, <1>5, <2>1, KeyTaken
    <3>2. CASE stored[n] = None
      BY <1>0, <1>2, <1>5, <2>1, <3>2, KeyStays
    <3> QED BY <3>1, <3>2
  <2>3. FlagsOK' /\ loginBusy' = loginBusy
    BY <1>0, <1>5, FlagsStay DEF flags
  <2>4. ListsOK' /\ TokensOK' /\ TasksOK(tasks', loginBusy')
    BY <1>3, <1>5, <2>1, <2>3, SyncStep
  <2> QED BY <1>2, <2>2, <2>3, <2>4 DEF PageInv
<1>6. CASE box' = None /\ Finish(t) /\ UNCHANGED <<key, unlocked, stores>>
  <2>1. MemoryOK'
    BY <1>0, <1>2, <1>6, MaybeNone, KeyStays DEF stores
  <2>2. ListsOK' /\ TokensOK'
    BY <1>0, <1>6, ListsStay, TokensStay DEF stores
  <2>3. FlagsOK' /\ TasksOK(tasks', loginBusy')
    BY <1>0, <1>6, FinishStep
  <2> QED BY <1>2, <2>1, <2>2, <2>3 DEF PageInv
<1> QED BY <1>a, <1>4, <1>5, <1>6 DEF MailboxesAnswer

(* The stored key is unwrapped, or the phrase is asked for (AutoUnwrap). *)
LEMMA UnwrapStep ==
  ASSUME PageInv, NEW t \in tasks, AutoUnwrap(t) PROVE PageInv'
<1>0. /\ MemoryOK /\ FlagsOK /\ ops \in 0..MaxOps /\ t \in TaskT
  BY PageParts
<1>1. UNCHANGED <<user, shape, box, flags, ops>> /\ t.at = "wasm"
  BY DEF AutoUnwrap
<1>2. ops' \in 0..MaxOps /\ user' \in Maybe /\ shape' \in Shapes /\ box' \in Maybe
      /\ stored \in Keys
  BY <1>0, <1>1 DEF MemoryOK
<1>3. t.acc \in Accounts /\ t.acc \in Maybe /\ t.wrap \in Maybe
  BY <1>0, <1>1, TaskFields
<1>4. FlagsOK' /\ loginBusy' = loginBusy
  BY <1>0, <1>1, FlagsStay DEF flags
<1>5. CASE /\ key' = t.wrap /\ unlocked' = t.acc
           /\ stored' = [stored EXCEPT ![t.acc] = t.wrap]
           /\ SyncAccounts(t, t.acc, t.wrap)
  <2>1. stored' \in Keys /\ stored'[t.acc] = t.wrap
    BY <1>2, <1>3, <1>5 DEF Keys
  <2>2. MemoryOK'
    <3>1. key' \in Maybe /\ unlocked' \in Maybe /\ unlocked' # None /\ stored'[unlocked'] = key'
      BY <1>3, <1>5, <2>1, MaybeNone
    <3> QED BY <3>1, <2>1, <1>2, KeyTaken
  <2>3. ListsOK' /\ TokensOK' /\ TasksOK(tasks', loginBusy')
    BY <1>3, <1>4, <1>5, SyncStep
  <2> QED BY <1>2, <1>4, <2>2, <2>3 DEF PageInv
<1>6. CASE SyncAccounts(t, t.acc, None) /\ UNCHANGED <<key, unlocked, stored>>
  <2>1. MemoryOK'
    BY <1>0, <1>2, <1>6, KeyStays
  <2>2. ListsOK' /\ TokensOK' /\ TasksOK(tasks', loginBusy')
    BY <1>3, <1>4, <1>6, MaybeNone, SyncStep
  <2> QED BY <1>2, <1>4, <2>1, <2>2 DEF PageInv
<1> QED BY <1>5, <1>6 DEF AutoUnwrap

(* The mailbox is loaded (LoadAnswer). *)
LEMMA LoadStep ==
  ASSUME PageInv, NEW t \in tasks, LoadAnswer(t) PROVE PageInv'
<1>0. /\ MemoryOK /\ ListsOK /\ TokensOK /\ FlagsOK /\ TasksOK(tasks, loginBusy)
      /\ ops \in 0..MaxOps
  BY PageParts
<1>1. Finally(t) /\ UNCHANGED <<memory, stores, ops>>
      /\ \/ challenge' = None /\ cached' = FALSE
         \/ UNCHANGED <<challenge, cached>>
  BY DEF LoadAnswer
<1>2. MemoryOK' /\ ListsOK' /\ TokensOK' /\ ops' \in 0..MaxOps
  BY <1>0, <1>1, MemoryStays, ListsStay, TokensStay DEF stores
<1>3. TasksOK(tasks', loginBusy') /\ loading' \in BOOLEAN /\ loginBusy' \in BOOLEAN
      /\ codeBusy' \in BOOLEAN
  BY <1>0, <1>1, FinallyStep
<1>4. CASE challenge' = None /\ cached' = FALSE
  BY <1>2, <1>3, <1>4, MaybeNone DEF PageInv, FlagsOK, CachedForChallenge
<1>5. CASE challenge' = challenge /\ cached' = cached
  <2>1. FlagsOK'
    BY <1>0, <1>3, <1>5 DEF FlagsOK, CachedForChallenge
  <2> QED BY <1>2, <1>3, <2>1 DEF PageInv
<1> QED BY <1>1, <1>4, <1>5

(* A password is accepted, refused or answered by a challenge *)
(* (LoginAnswer).                                             *)
LEMMA LoginStep ==
  ASSUME PageInv, NEW t \in tasks, LoginAnswer(t) PROVE PageInv'
<1>0. /\ MemoryOK /\ ListsOK /\ TokensOK /\ FlagsOK /\ TasksOK(tasks, loginBusy)
      /\ ops \in 0..MaxOps /\ loginBusy \in BOOLEAN /\ t \in TaskT
  BY PageParts
<1>1. UNCHANGED <<box, key, unlocked, list, durable, stored, stand, vault, ops>>
      /\ t.op \in {"login", "unlock"} /\ t.at = "auth"
  BY DEF LoginAnswer
<1>2. ListsOK' /\ ops' \in 0..MaxOps
  BY <1>0, <1>1, ListsStay
<1>3. t.acc \in Accounts /\ t.acc \in Maybe /\ t.shape \in Shapes /\ t.acc # None
  BY <1>0, <1>1, TaskFields, MaybeNone
<1>4. CASE Finish(t) /\ UNCHANGED <<user, shape, token, cookie>>
  <2>1. MemoryOK' /\ TokensOK'
    BY <1>0, <1>1, <1>4, MemoryStays, TokensStay DEF memory
  <2>2. FlagsOK' /\ TasksOK(tasks', loginBusy')
    BY <1>0, <1>4, FinishStep
  <2> QED BY <1>2, <2>1, <2>2 DEF PageInv
<1>5. CASE /\ challenge' = t.acc /\ cached' = TRUE /\ loginBusy' = FALSE
           /\ loading' = FALSE /\ Done(t)
           /\ UNCHANGED <<user, shape, token, cookie, codeBusy>>
  <2>1. MemoryOK' /\ TokensOK'
    BY <1>0, <1>1, <1>5, MemoryStays, TokensStay DEF memory
  <2>2. FlagsOK'
    BY <1>0, <1>3, <1>5 DEF FlagsOK, CachedForChallenge
  <2>3. TasksOK(tasks', loginBusy')
    <3>1. TasksOK(tasks \ {t}, loginBusy /\ t.op \notin SignIns)
      BY <1>0, TaskEnded
    <3>2. (loginBusy /\ t.op \notin SignIns) = FALSE
      BY <1>1 DEF SignIns
    <3>3. TasksOK(tasks \ {t}, FALSE)
      BY <3>1, <3>2
    <3> QED BY <3>3, <1>5 DEF Done
  <2> QED BY <1>2, <2>1, <2>2, <2>3 DEF PageInv
<1>6. CASE /\ loading' = TRUE /\ token' = t.acc /\ cookie' = t.acc
           /\ IF t.op = "login"
                THEN /\ Continue(t, [t EXCEPT !.at = "me", !.tok = t.acc])
                     /\ UNCHANGED <<user, shape>>
                ELSE /\ Continue(t, [t EXCEPT !.at = "boxes", !.tok = t.acc])
                     /\ user' = t.acc /\ shape' = [t.shape EXCEPT !.wrapped = TRUE]
           /\ UNCHANGED <<loginBusy, codeBusy, challenge, cached>>
  <2>1. TokensOK'
    BY <1>0, <1>1, <1>3, <1>6 DEF TokensOK
  <2>2. FlagsOK'
    BY <1>0, <1>6 DEF FlagsOK, CachedForChallenge
  <2>3. "me" \in Awaits /\ "boxes" \in Awaits
    BY DEF Awaits
  <2>4. TasksOK(tasks', loginBusy')
    BY <1>0, <1>3, <1>6, <2>3, TaskGoesOn, GoesOn
  <2>5. [t.shape EXCEPT !.wrapped = TRUE] \in Shapes
    BY <1>3 DEF Shapes
  <2>6. user' \in Maybe /\ shape' \in Shapes /\ box' \in Maybe
    BY <1>0, <1>1, <1>3, <1>6, <2>5 DEF MemoryOK
  <2>7. MemoryOK'
    BY <1>0, <1>1, <2>6, KeyStays
  <2> QED BY <1>2, <2>1, <2>2, <2>4, <2>7 DEF PageInv
<1> QED BY <1>4, <1>5, <1>6 DEF LoginAnswer

(* The code of the second factor is answered (VerifyAnswer). *)
LEMMA VerifyStep ==
  ASSUME PageInv, NEW t \in tasks, VerifyAnswer(t) PROVE PageInv'
<1>0. /\ MemoryOK /\ ListsOK /\ TokensOK /\ FlagsOK /\ TasksOK(tasks, loginBusy)
      /\ ops \in 0..MaxOps /\ loginBusy \in BOOLEAN /\ t \in TaskT
  BY PageParts
<1>1. UNCHANGED <<box, key, unlocked, list, durable, stored, stand, vault, ops>> /\ t.at = "auth"
  BY DEF VerifyAnswer
<1>2. ListsOK' /\ ops' \in 0..MaxOps
  BY <1>0, <1>1, ListsStay
<1>3. t.acc \in Accounts /\ t.acc \in Maybe
  BY <1>0, <1>1, TaskFields
<1>4. CASE Finish(t) /\ UNCHANGED <<user, shape, token, cookie>>
  <2>1. MemoryOK' /\ TokensOK'
    BY <1>0, <1>1, <1>4, MemoryStays, TokensStay DEF memory
  <2>2. FlagsOK' /\ TasksOK(tasks', loginBusy')
    BY <1>0, <1>4, FinishStep
  <2> QED BY <1>2, <2>1, <2>2 DEF PageInv
<1> DEFINE u == IF user = None THEN t.acc ELSE user
           own == IF user = None THEN Full ELSE shape
           wr == IF own.wrapped THEN u ELSE t.acc
           pw == IF cached THEN t.acc ELSE None
           next == [t EXCEPT !.at = "boxes", !.acc = u, !.tok = t.acc, !.wrap = wr,
                             !.pass = pw, !.shape = own]
<1>5. CASE /\ loading' = TRUE /\ token' = t.acc /\ cookie' = t.acc
           /\ user' = u /\ shape' = [own EXCEPT !.wrapped = TRUE]
           /\ Continue(t, next)
           /\ UNCHANGED <<loginBusy, codeBusy, challenge, cached>>
  <2>1. u \in Accounts /\ u \in Maybe
    BY <1>0, <1>3, MaybeNone DEF MemoryOK
  <2>2. own \in Shapes
    BY <1>0 DEF MemoryOK, Full, Shapes
  <2>3. wr \in Maybe /\ pw \in Maybe
    BY <1>3, <2>1, MaybeNone
  <2> HIDE DEF u, own, wr, pw
  <2>4. [own EXCEPT !.wrapped = TRUE] \in Shapes
    BY <2>2 DEF Shapes
  <2>5. next \in TaskT /\ next.op = t.op
    BY <1>0, <1>3, <2>1, <2>2, <2>3 DEF TaskT, Awaits
  <2> HIDE DEF next
  <2>6. TasksOK(tasks', loginBusy')
    BY <1>5, <2>5, GoesOn
  <2>7. TokensOK'
    BY <1>0, <1>1, <1>3, <1>5 DEF TokensOK
  <2>8. FlagsOK'
    BY <1>0, <1>5 DEF FlagsOK, CachedForChallenge
  <2>9. box' \in Maybe
    BY <1>0, <1>1 DEF MemoryOK
  <2>10. MemoryOK'
    BY <1>0, <1>1, <1>5, <2>1, <2>4, <2>9, KeyStays
  <2> QED BY <1>2, <2>6, <2>7, <2>8, <2>10 DEF PageInv
<1> QED BY <1>4, <1>5 DEF VerifyAnswer

(* The passkey ceremony ends (PasskeyAnswer). *)
LEMMA PasskeyStep ==
  ASSUME PageInv, NEW t \in tasks, PasskeyAnswer(t) PROVE PageInv'
<1>0. /\ MemoryOK /\ ListsOK /\ TokensOK /\ FlagsOK /\ TasksOK(tasks, loginBusy)
      /\ ops \in 0..MaxOps /\ loginBusy \in BOOLEAN /\ t \in TaskT
  BY PageParts
<1>1. UNCHANGED <<user, shape, box, list, durable, stand, vault, ops>> /\ t.at = "auth"
  BY DEF PasskeyAnswer
<1>2. ListsOK' /\ ops' \in 0..MaxOps
  BY <1>0, <1>1, ListsStay
<1>3. t.acc \in Accounts /\ t.acc \in Maybe /\ t.acc # None
  BY <1>0, <1>1, TaskFields, MaybeNone
<1>4. CASE Finish(t) /\ UNCHANGED <<key, unlocked, stored, token, cookie>>
  <2>1. MemoryOK' /\ TokensOK'
    BY <1>0, <1>1, <1>4, MemoryStays, TokensStay DEF memory
  <2>2. FlagsOK' /\ TasksOK(tasks', loginBusy')
    BY <1>0, <1>4, FinishStep
  <2> QED BY <1>2, <2>1, <2>2 DEF PageInv
<1>5. CASE /\ loading' = TRUE /\ token' = t.acc /\ cookie' = t.acc
           /\ IF vault[t.acc] # NoEntry
                THEN /\ key' = vault[t.acc].sk /\ unlocked' = vault[t.acc].box
                     /\ stored' = [stored EXCEPT ![vault[t.acc].box] = vault[t.acc].sk]
                ELSE UNCHANGED <<key, unlocked, stored>>
           /\ Continue(t, [t EXCEPT !.at = "me", !.tok = t.acc])
           /\ UNCHANGED <<loginBusy, codeBusy, challenge, cached>>
  <2>1. TokensOK'
    BY <1>0, <1>1, <1>3, <1>5 DEF TokensOK
  <2>2. FlagsOK'
    BY <1>0, <1>5 DEF FlagsOK, CachedForChallenge
  <2>3. "me" \in Awaits
    BY DEF Awaits
  <2>4. TasksOK(tasks', loginBusy')
    BY <1>0, <1>3, <1>5, <2>3, TaskGoesOn, GoesOn
  <2>5. stored \in Keys /\ user' \in Maybe /\ shape' \in Shapes /\ box' \in Maybe
    BY <1>0, <1>1 DEF MemoryOK
  <2>6. MemoryOK'
    <3>1. CASE vault[t.acc] # NoEntry
      <4> DEFINE k == vault[t.acc].sk
                 n == vault[t.acc].box
      <4>1. k \in Maybe /\ n \in Accounts
        BY <1>0, <1>3, <3>1 DEF TokensOK, Vault, VaultEntry
      <4>2. key' = k /\ unlocked' = n /\ stored' = [stored EXCEPT ![n] = k]
        BY <1>5, <3>1
      <4> HIDE DEF k, n
      <4>3. stored' \in Keys /\ stored'[n] = k
        BY <2>5, <4>1, <4>2 DEF Keys
      <4>4. key' \in Maybe /\ unlocked' \in Maybe /\ unlocked' # None /\ stored'[unlocked'] = key'
        BY <4>1, <4>2, <4>3, MaybeNone
      <4> QED BY <4>3, <4>4, <2>5, KeyTaken
    <3>2. CASE vault[t.acc] = NoEntry
      BY <1>0, <1>5, <2>5, <3>2, KeyStays
    <3> QED BY <3>1, <3>2
  <2> QED BY <1>2, <2>1, <2>2, <2>4, <2>6 DEF PageInv
<1> QED BY <1>4, <1>5 DEF PasskeyAnswer

(* A phrase is entered and the key unwrapped with it (PhraseUnwrap). *)
LEMMA PhraseStep ==
  ASSUME PageInv, NEW t \in tasks, PhraseUnwrap(t) PROVE PageInv'
<1>0. /\ MemoryOK /\ ListsOK /\ TokensOK /\ FlagsOK /\ TasksOK(tasks, loginBusy)
      /\ ops \in 0..MaxOps /\ loginBusy \in BOOLEAN /\ t \in TaskT
  BY PageParts
<1>1. UNCHANGED <<user, shape, box, list, durable, token, stand, cookie, vault, ops>>
      /\ t.at = "wasm"
  BY DEF PhraseUnwrap
<1>2. ListsOK' /\ TokensOK' /\ ops' \in 0..MaxOps
  BY <1>0, <1>1, ListsStay, TokensStay
<1>3. t.acc \in Accounts /\ t.acc \in Maybe /\ t.acc # None
  BY <1>0, <1>1, TaskFields, MaybeNone
<1>4. CASE /\ box = t.acc /\ key' = t.acc /\ unlocked' = box
           /\ stored' = [stored EXCEPT ![box] = t.acc]
           /\ Continue(t, Load(t)) /\ UNCHANGED flags
  <2>1. stored \in Keys /\ user' \in Maybe /\ shape' \in Shapes /\ box' \in Maybe
    BY <1>0, <1>1 DEF MemoryOK
  <2>2. stored' \in Keys /\ stored'[t.acc] = t.acc
    BY <1>3, <1>4, <2>1 DEF Keys
  <2>3. MemoryOK'
    BY <1>3, <1>4, <2>1, <2>2, KeyTaken
  <2>4. FlagsOK' /\ loginBusy' = loginBusy
    BY <1>0, <1>4, FlagsStay DEF flags
  <2>5. TasksOK(tasks', loginBusy')
    BY <1>0, <1>4, <2>4, TaskLoads, GoesOn
  <2> QED BY <1>2, <2>3, <2>4, <2>5 DEF PageInv
<1>5. CASE Finish(t) /\ UNCHANGED <<key, unlocked, stored>>
  <2>1. MemoryOK'
    BY <1>0, <1>1, <1>5, MemoryStays DEF memory
  <2>2. FlagsOK' /\ TasksOK(tasks', loginBusy')
    BY <1>0, <1>5, FinishStep
  <2> QED BY <1>2, <2>1, <2>2 DEF PageInv
<1> QED BY <1>4, <1>5 DEF PhraseUnwrap

(* Signing out of all accounts is answered (LogoutAllAnswer). *)
LEMMA LogoutAllStep ==
  ASSUME PageInv, NEW t \in tasks, LogoutAllAnswer(t) PROVE PageInv'
<1>0. /\ MemoryOK /\ ListsOK /\ TokensOK /\ FlagsOK /\ TasksOK(tasks, loginBusy)
      /\ ops \in 0..MaxOps /\ loginBusy \in BOOLEAN
  BY PageParts
<1>1. /\ user' = None /\ shape' = Full /\ box' = None /\ key' = None /\ unlocked' = None
      /\ cookie' \in {None, cookie} /\ Done(t)
      /\ UNCHANGED <<list, durable, stored, token, stand, vault, flags, ops>>
  BY DEF LogoutAllAnswer
<1>2. ListsOK' /\ FlagsOK' /\ ops' \in 0..MaxOps /\ loginBusy' = loginBusy
  BY <1>0, <1>1, ListsStay, FlagsStay DEF flags
<1>3. TokensOK'
  BY <1>0, <1>1, MaybeNone DEF TokensOK
<1>4. Full \in Shapes /\ stored' \in Keys
  BY <1>0, <1>1 DEF Full, Shapes, MemoryOK
<1>5. MemoryOK'
  BY <1>1, <1>4, MaybeNone, KeyTaken
<1>6. TasksOK(tasks', loginBusy')
  <2>1. TasksOK(tasks \ {t}, loginBusy)
    BY <1>0, TaskEnded
  <2> QED BY <2>1, <1>1, <1>2 DEF Done
<1> QED BY <1>2, <1>3, <1>5, <1>6 DEF PageInv

(* Another way to get the code, and the two answers of an enrolment. *)
LEMMA ResendStep ==
  ASSUME PageInv, NEW t \in tasks, ResendAnswer(t) PROVE PageInv'
<1>0. /\ MemoryOK /\ ListsOK /\ TokensOK /\ FlagsOK /\ TasksOK(tasks, loginBusy)
      /\ ops \in 0..MaxOps
  BY PageParts
<1>1. Finish(t) /\ UNCHANGED <<memory, stores, ops>>
  BY DEF ResendAnswer
<1>2. MemoryOK' /\ ListsOK' /\ TokensOK' /\ ops' \in 0..MaxOps
  BY <1>0, <1>1, MemoryStays, ListsStay, TokensStay DEF stores
<1>3. FlagsOK' /\ TasksOK(tasks', loginBusy')
  BY <1>0, <1>1, FinishStep
<1> QED BY <1>2, <1>3 DEF PageInv

(* The authenticator has made a credential. *)
LEMMA CreatedStep ==
  ASSUME PageInv, NEW t \in tasks, PasskeyCreated(t) PROVE PageInv'
<1>0. /\ MemoryOK /\ ListsOK /\ TokensOK /\ FlagsOK /\ TasksOK(tasks, loginBusy)
      /\ ops \in 0..MaxOps /\ loginBusy \in BOOLEAN /\ t \in TaskT
  BY PageParts
<1>1. UNCHANGED <<memory, stores, flags, ops>> /\ t.at = "auth"
      /\ (Continue(t, [t EXCEPT !.at = "register"]) \/ Done(t))
  BY DEF PasskeyCreated
<1>2. MemoryOK' /\ ListsOK' /\ TokensOK' /\ ops' \in 0..MaxOps
  BY <1>0, <1>1, MemoryStays, ListsStay, TokensStay DEF stores
<1>3. FlagsOK' /\ loginBusy' = loginBusy
  BY <1>0, <1>1, FlagsStay DEF flags
<1>4. TasksOK(tasks', loginBusy')
  <2>1. t.acc \in Accounts /\ "register" \in Awaits
    BY <1>0, <1>1, TaskFields DEF Awaits
  <2>2. CASE Continue(t, [t EXCEPT !.at = "register"])
    BY <1>0, <1>3, <2>1, <2>2, TaskGoesOn, GoesOn
  <2>3. CASE Done(t)
    BY <1>0, <1>3, <2>3, TaskEnded DEF Done
  <2> QED BY <1>1, <2>2, <2>3
<1> QED BY <1>2, <1>3, <1>4 DEF PageInv

(* The credential is registered. *)
LEMMA RegisteredStep ==
  ASSUME PageInv, NEW t \in tasks, PasskeyRegistered(t) PROVE PageInv'
<1>0. /\ MemoryOK /\ ListsOK /\ TokensOK /\ FlagsOK /\ TasksOK(tasks, loginBusy)
      /\ ops \in 0..MaxOps /\ loginBusy \in BOOLEAN /\ t \in TaskT
  BY PageParts
<1> DEFINE n == IF box # None THEN box ELSE user
<1>1. /\ UNCHANGED <<memory, list, durable, stored, token, stand, cookie, flags, ops>>
      /\ t.at = "register" /\ Done(t)
      /\ \/ n # None /\ vault' = [vault EXCEPT ![t.acc] = [box |-> n, sk |-> stored[n]]]
         \/ vault' = vault
  BY DEF PasskeyRegistered
<1>2. MemoryOK' /\ ListsOK' /\ ops' \in 0..MaxOps
  BY <1>0, <1>1, MemoryStays, ListsStay
<1>3. FlagsOK' /\ loginBusy' = loginBusy
  BY <1>0, <1>1, FlagsStay DEF flags
<1>4. TasksOK(tasks', loginBusy')
  BY <1>0, <1>1, <1>3, TaskEnded DEF Done
<1>5. n \in Maybe /\ t.acc \in Accounts
  BY <1>0, <1>1, TaskFields DEF MemoryOK
<1>6. vault' \in Vault
  <2>1. CASE vault' = vault
    BY <1>0, <2>1 DEF TokensOK
  <2>2. CASE n # None /\ vault' = [vault EXCEPT ![t.acc] = [box |-> n, sk |-> stored[n]]]
    <3> DEFINE e == [box |-> n, sk |-> stored[n]]
    <3>1. n \in Accounts
      BY <1>5, <2>2, MaybeNone
    <3> HIDE DEF n
    <3>2. e \in VaultEntry /\ e.box \in Accounts
      BY <1>0, <3>1, MaybeNone DEF MemoryOK, Keys, VaultEntry
    <3> HIDE DEF e
    <3>3. vault \in Vault
      BY <1>0 DEF TokensOK
    <3>4. vault' = [vault EXCEPT ![t.acc] = e]
      BY <2>2 DEF e
    <3> QED BY <1>5, <3>2, <3>3, <3>4 DEF Vault
  <2> QED BY <1>1, <2>1, <2>2
<1>7. TokensOK'
  BY <1>0, <1>1, <1>6 DEF TokensOK
<1> QED BY <1>2, <1>3, <1>4, <1>7 DEF PageInv

(* The page is mounted: what it held is gone, one handler waits. *)
LEMMA MountStep ==
  ASSUME PageInv, NEW n \in Maybe, Mount(n), Op \/ UNCHANGED ops
  PROVE  PageInv' /\ ModalOK'
<1>0. MemoryOK /\ ListsOK /\ TokensOK /\ ops \in 0..MaxOps
  BY DEF PageInv
<1> DEFINE tok == IF token = None /\ SavedAccounts # <<>> THEN SavedAccounts[1].tok ELSE token
           caller == IF tok # None THEN tok ELSE IF n # None THEN n ELSE cookie
           first == NewTask("mount", "me", caller)
<1>1. /\ list' = SavedAccounts /\ token' = tok /\ tasks' = {first} /\ stand' = n
      /\ user' = None /\ shape' = Full /\ box' = None /\ key' = None /\ unlocked' = None
      /\ loading' = TRUE /\ loginBusy' = FALSE /\ codeBusy' = FALSE
      /\ challenge' = None /\ cached' = FALSE /\ joining' = None /\ joinBusy' = FALSE
      /\ UNCHANGED <<durable, stored, cookie, vault>>
  BY DEF Mount
<1>2. SavedAccounts \in AccountLists
  BY <1>0, SavedListed
<1>3. tok \in Maybe
  <2>1. CASE token = None /\ SavedAccounts # <<>>
    BY <2>1, <1>2, FirstListed, EntryOf
  <2>2. CASE ~(token = None /\ SavedAccounts # <<>>)
    BY <2>2, <1>0 DEF TokensOK
  <2> QED BY <2>1, <2>2
<1> HIDE DEF tok
<1>4. caller \in Maybe
  BY <1>0, <1>3 DEF TokensOK
<1> HIDE DEF caller
<1>5. first \in TaskT /\ first.op = "mount"
  <2>1. "mount" \in Handlers /\ "me" \in Awaits /\ "me" \notin {"auth", "boxes", "wasm", "register"}
    BY DEF Handlers, Awaits
  <2> QED BY <2>1, <1>4, NewTaskTyped
<1> HIDE DEF first
<1>6. TasksOK(tasks', loginBusy')
  <2>1. IsFiniteSet({first}) /\ Cardinality({first}) = 1
    BY FS_Singleton
  <2>2. Counted({first})
    BY <2>1, SessionAssumption DEF Counted
  <2>3. OneSignIn({first}, FALSE)
    BY <1>5 DEF OneSignIn, SignIns
  <2>4. TasksOK({first}, FALSE)
    BY <1>5, <2>2, <2>3 DEF TasksOK
  <2> QED BY <2>4, <1>1
<1>7. ListsOK'
  BY <1>0, <1>1, <1>2 DEF ListsOK
<1>8. TokensOK'
  BY <1>0, <1>1, <1>3 DEF TokensOK
<1>9. FlagsOK' /\ ModalOK'
  BY <1>1, MaybeNone DEF FlagsOK, CachedForChallenge, ModalOK
<1>10. Full \in Shapes /\ stored' \in Keys
  BY <1>0, <1>1 DEF Full, Shapes, MemoryOK
<1>11. MemoryOK'
  BY <1>1, <1>10, MaybeNone, KeyTaken
<1>12. ops' \in 0..MaxOps
  BY <1>0, OpCounted
<1> QED BY <1>6, <1>7, <1>8, <1>9, <1>11, <1>12 DEF PageInv

(* An entry of a list is switched to. *)
LEMMA SwitchStep ==
  ASSUME PageInv, NEW e \in ConnectedAccount, NEW from \in AccountLists, NEW ks \in Keys,
         SwitchTo(e, from, ks)
  PROVE  MemoryOK' /\ ListsOK' /\ token' \in Maybe /\ loading' = TRUE
<1>0. MemoryOK /\ TokensOK
  BY DEF PageInv
<1>1. e.id \in Accounts /\ e.tok \in Maybe /\ e.sk \in Maybe /\ e.id \in Maybe /\ e.id # None
  BY EntryOf, MaybeNone
<1>2. /\ loading' = TRUE /\ token' = (IF e.tok # None THEN e.tok ELSE token)
      /\ box' = e.id /\ user' = e.id
      /\ shape' = [org |-> user # None /\ shape.org, part |-> FALSE, wrapped |-> FALSE]
      /\ list' = OnTop(from, e) /\ durable' = Durable(OnTop(from, e))
  BY DEF SwitchTo
<1>3. token' \in Maybe
  BY <1>0, <1>1, <1>2 DEF TokensOK
<1>4. ListsOK'
  BY <1>2, OnTopKeeps, DurableKeeps DEF ListsOK
<1>5. shape' \in Shapes
  BY <1>0, <1>2 DEF MemoryOK, Shapes
<1>6. CASE e.sk # None
  <2>1. key' = e.sk /\ unlocked' = e.id /\ stored' = [ks EXCEPT ![e.id] = e.sk]
    BY <1>6 DEF SwitchTo
  <2>2. stored' \in Keys /\ stored'[e.id] = e.sk
    BY <2>1, <1>1 DEF Keys
  <2>3. MemoryOK'
    BY <1>1, <1>2, <1>5, <2>1, <2>2, KeyTaken
  <2> QED BY <2>3, <1>2, <1>3, <1>4
<1>7. CASE e.sk = None
  <2>1. key' = None /\ unlocked' = None /\ stored' = ks
    BY <1>7 DEF SwitchTo
  <2>2. MemoryOK'
    BY <1>1, <1>2, <1>5, <2>1, MaybeNone, KeyTaken
  <2> QED BY <2>2, <1>2, <1>3, <1>4
<1> QED BY <1>6, <1>7

(* The handler that a switch leaves waiting. *)
LEMMA SwitchTaskTyped ==
  ASSUME NEW n \in Maybe
  PROVE  NewTask("switch", "load", n) \in TaskT /\ NewTask("switch", "load", n).op \notin SignIns
<1>1. "switch" \in Handlers /\ "load" \in Awaits /\ "load" \notin {"auth", "boxes", "wasm",
                                                                   "register"}
  BY DEF Handlers, Awaits
<1>2. NewTask("switch", "load", n) \in TaskT /\ NewTask("switch", "load", n).op = "switch"
  BY <1>1, NewTaskTyped
<1> QED BY <1>2 DEF SignIns

(* A handler is started that signs nobody in, on its own await. *)
LEMMA StartStep ==
  ASSUME PageInv, NEW u \in TaskT, u.op \notin SignIns, Start(u), loginBusy' = loginBusy
  PROVE  TasksOK(tasks', loginBusy')
<1>1. TasksOK(tasks, loginBusy) /\ loginBusy \in BOOLEAN
  BY DEF PageInv, FlagsOK
<1>2. Cardinality(tasks) < MaxTasks /\ tasks' = tasks \cup {u}
  BY DEF Start, Room
<1>3. TasksOK(tasks \cup {u}, loginBusy \/ u.op \in SignIns)
  BY <1>1, <1>2, TaskAdded
<1>4. (loginBusy \/ u.op \in SignIns) = loginBusy
  BY <1>1
<1> QED BY <1>2, <1>3, <1>4

(* A sign-in is started: no other is under way, and the forms are busy. *)
LEMMA SignInStep ==
  ASSUME PageInv, NEW u \in TaskT, u.op \in SignIns, Start(u), ~loginBusy, loginBusy' = TRUE
  PROVE  TasksOK(tasks', loginBusy')
<1>1. TasksOK(tasks, loginBusy) /\ loginBusy \in BOOLEAN
  BY DEF PageInv, FlagsOK
<1>2. Cardinality(tasks) < MaxTasks /\ tasks' = tasks \cup {u}
  BY DEF Start, Room
<1>3. TasksOK(tasks \cup {u}, loginBusy \/ u.op \in SignIns)
  BY <1>1, <1>2, TaskAdded
<1>4. (loginBusy \/ u.op \in SignIns) = TRUE
  OBVIOUS
<1> QED BY <1>2, <1>3, <1>4

(* What the forms leave alone when they only start a request. *)
LEMMA FormParts ==
  ASSUME PageInv, Op, UNCHANGED <<memory, stores, loading, challenge, cached>>
  PROVE  MemoryOK' /\ ListsOK' /\ TokensOK' /\ ops' \in 0..MaxOps
         /\ (loginBusy' \in BOOLEAN /\ codeBusy' \in BOOLEAN => FlagsOK')
<1>0. MemoryOK /\ ListsOK /\ TokensOK /\ FlagsOK /\ ops \in 0..MaxOps
  BY DEF PageInv
<1>1. MemoryOK' /\ ListsOK' /\ TokensOK' /\ ops' \in 0..MaxOps
  BY <1>0, MemoryStays, ListsStay, TokensStay, OpCounted DEF stores
<1>2. ASSUME loginBusy' \in BOOLEAN, codeBusy' \in BOOLEAN PROVE FlagsOK'
  BY <1>0, <1>2 DEF FlagsOK, CachedForChallenge
<1> QED BY <1>1, <1>2

(* A sign-in form is submitted. *)
LEMMA SubmitStep ==
  ASSUME SessionInv, Op, ~loginBusy, loginBusy' = TRUE,
         NEW u \in TaskT, u.op \in SignIns, Start(u),
         UNCHANGED <<memory, stores, loading, codeBusy, challenge, cached, modal>>
  PROVE  SessionInv'
<1>0. PageInv /\ ModalOK /\ codeBusy \in BOOLEAN
  BY DEF SessionInv, PageInv, FlagsOK
<1>1. MemoryOK' /\ ListsOK' /\ TokensOK' /\ ops' \in 0..MaxOps /\ FlagsOK'
  BY <1>0, FormParts
<1>2. TasksOK(tasks', loginBusy') /\ ModalOK'
  BY <1>0, SignInStep, ModalStays
<1> QED BY <1>1, <1>2 DEF SessionInv, PageInv

(* The forms of the sign-in page. *)
LEMMA SignInFormsStep == ASSUME SessionInv, SignInForms PROVE SessionInv'
<1>0. PageInv /\ ModalOK /\ MemoryOK /\ FlagsOK /\ user \in Maybe /\ shape \in Shapes
      /\ challenge \in Maybe /\ loginBusy \in BOOLEAN
  BY DEF SessionInv, PageInv, MemoryOK, FlagsOK
<1>h. {"login", "passkey", "unlock", "phrase", "verify", "resend"} \subseteq Handlers
      /\ "auth" \in Awaits /\ "wasm" \in Awaits
      /\ {"login", "passkey", "unlock", "phrase"} = SignIns
  BY DEF Handlers, Awaits, SignIns
<1>1. ASSUME NEW n \in Accounts, handleLogin(n) PROVE SessionInv'
  <2> DEFINE v == NewTask("login", "auth", n)
             u == [v EXCEPT !.pass = n]
  <2>1. v \in TaskT /\ v.op = "login" /\ n \in Maybe
    BY <1>h, MaybeNone, NewTaskTyped
  <2> HIDE DEF v
  <2>2. u \in TaskT /\ u.op \in SignIns
    BY <2>1, <1>h DEF TaskT
  <2>3. /\ Op /\ ~loginBusy /\ loginBusy' = TRUE /\ Start(u)
        /\ UNCHANGED <<memory, stores, loading, codeBusy, challenge, cached, modal>>
    BY <1>1 DEF handleLogin, v
  <2> HIDE DEF u
  <2> QED BY <2>2, <2>3, SubmitStep
<1>2. ASSUME NEW n \in Accounts, handlePasskeyLogin(n) PROVE SessionInv'
  <2> DEFINE u == NewTask("passkey", "auth", n)
  <2>1. u \in TaskT /\ u.op \in SignIns
    BY <1>h, MaybeNone, NewTaskTyped
  <2>2. /\ Op /\ ~loginBusy /\ loginBusy' = TRUE /\ Start(u)
        /\ UNCHANGED <<memory, stores, loading, codeBusy, challenge, cached, modal>>
    BY <1>2 DEF handlePasskeyLogin
  <2> HIDE DEF u
  <2> QED BY <2>1, <2>2, SubmitStep
<1>3. ASSUME NEW o \in {"verify", "resend"}, CodeScreen, Op, codeBusy' = TRUE,
             Start(NewTask(o, "auth", challenge)),
             UNCHANGED <<memory, stores, loading, loginBusy, challenge, cached, modal>>
      PROVE  SessionInv'
  <2> DEFINE u == NewTask(o, "auth", challenge)
  <2>1. challenge \in Accounts
    BY <1>0, <1>3, MaybeNone DEF CodeScreen
  <2>2. u \in TaskT /\ u.op = o
    BY <1>0, <1>h, <2>1, NewTaskTyped
  <2>3. /\ Op /\ codeBusy' = TRUE /\ Start(u)
        /\ UNCHANGED <<memory, stores, loading, loginBusy, challenge, cached, modal>>
    BY <1>3
  <2> HIDE DEF u
  <2>4. u.op \notin SignIns
    BY <2>2 DEF SignIns
  <2>5. TasksOK(tasks', loginBusy') /\ ModalOK'
    BY <1>0, <2>2, <2>3, <2>4, StartStep, ModalStays
  <2>6. MemoryOK' /\ ListsOK' /\ TokensOK' /\ ops' \in 0..MaxOps /\ FlagsOK'
    BY <1>0, <2>3, FormParts
  <2> QED BY <2>5, <2>6 DEF SessionInv, PageInv
<1>7. ASSUME handleVerifyLogin2FA \/ handleSwitchLogin2FAMethod PROVE SessionInv'
  BY <1>3, <1>7 DEF handleVerifyLogin2FA, handleSwitchLogin2FAMethod
<1>4. ASSUME handleCancelLogin2FA PROVE SessionInv'
  <2>1. /\ Op /\ challenge' = None /\ cached' = FALSE
        /\ UNCHANGED <<memory, stores, loading, loginBusy, codeBusy, modal, tasks>>
    BY <1>4 DEF handleCancelLogin2FA
  <2>2. MemoryOK' /\ ListsOK' /\ TokensOK' /\ ops' \in 0..MaxOps /\ ModalOK'
    BY <1>0, <2>1, MemoryStays, ListsStay, TokensStay, OpCounted, ModalStays DEF stores, PageInv
  <2>3. FlagsOK'
    BY <1>0, <2>1, MaybeNone DEF FlagsOK, CachedForChallenge
  <2>4. TasksOK(tasks', loginBusy')
    BY <1>0, <2>1 DEF PageInv
  <2> QED BY <2>2, <2>3, <2>4 DEF SessionInv, PageInv
<1>5. ASSUME handleUnlock PROVE SessionInv'
  <2> DEFINE v == NewTask("unlock", "auth", user)
             u == [v EXCEPT !.pass = user, !.shape = shape]
  <2>1. user \in Accounts
    BY <1>0, <1>5, MaybeNone DEF handleUnlock, UnlockScreen
  <2>2. v \in TaskT /\ v.op = "unlock"
    BY <1>0, <1>h, <2>1, NewTaskTyped
  <2> HIDE DEF v
  <2>3. u \in TaskT /\ u.op \in SignIns
    BY <1>0, <2>2, <1>h DEF TaskT
  <2>4. /\ Op /\ ~loginBusy /\ loginBusy' = TRUE /\ Start(u)
        /\ UNCHANGED <<memory, stores, loading, codeBusy, challenge, cached, modal>>
    BY <1>5 DEF handleUnlock, v
  <2> HIDE DEF u
  <2> QED BY <2>3, <2>4, SubmitStep
<1>6. ASSUME handleUnlockWithRecovery PROVE SessionInv'
  <2> DEFINE v == NewTask("phrase", "wasm", user)
             u == [v EXCEPT !.shape = shape]
  <2>1. user \in Accounts
    BY <1>0, <1>6, MaybeNone DEF handleUnlockWithRecovery, UnlockScreen
  <2>2. v \in TaskT /\ v.op = "phrase"
    BY <1>0, <1>h, <2>1, NewTaskTyped
  <2> HIDE DEF v
  <2>3. u \in TaskT /\ u.op \in SignIns
    BY <1>0, <2>2, <1>h DEF TaskT
  <2>4. /\ Op /\ ~loginBusy /\ loginBusy' = TRUE /\ Start(u)
        /\ UNCHANGED <<memory, stores, loading, codeBusy, challenge, cached, modal>>
    BY <1>6 DEF handleUnlockWithRecovery, v
  <2> HIDE DEF u
  <2> QED BY <2>3, <2>4, SubmitStep
<1> QED BY <1>1, <1>2, <1>4, <1>5, <1>6, <1>7 DEF SignInForms

(* The forms that add a mailbox. *)
LEMMA AddMailboxFormsStep == ASSUME SessionInv, AddMailboxForms PROVE SessionInv'
<1>0. PageInv /\ ModalOK /\ MemoryOK /\ FlagsOK /\ joining \in Maybe /\ codeBusy \in BOOLEAN
      /\ loginBusy \in BOOLEAN /\ TasksOK(tasks, loginBusy)
  BY DEF SessionInv, PageInv, FlagsOK, ModalOK
<1>h. "add" \in Handlers /\ "auth" \in Awaits /\ "add" \notin SignIns
  BY DEF Handlers, Awaits, SignIns
<1>a. ASSUME NEW u \in TaskT, u.op = "add", Start(u), Op, joinBusy' = TRUE,
             UNCHANGED <<memory, stores, loading, loginBusy, codeBusy, challenge, cached, joining>>
      PROVE  SessionInv'
  <2>1. TasksOK(tasks', loginBusy')
    BY <1>0, <1>h, <1>a, StartStep
  <2>2. MemoryOK' /\ ListsOK' /\ TokensOK' /\ ops' \in 0..MaxOps /\ FlagsOK'
    BY <1>0, <1>a, FormParts
  <2>3. ModalOK'
    BY <1>0, <1>a DEF ModalOK
  <2> QED BY <2>1, <2>2, <2>3 DEF SessionInv, PageInv
<1>1. ASSUME NEW n \in Accounts, handleSubmit(n) PROVE SessionInv'
  <2> DEFINE v == NewTask("add", "auth", n)
             u == [v EXCEPT !.pass = n]
  <2>1. v \in TaskT /\ v.op = "add" /\ n \in Maybe
    BY <1>h, MaybeNone, NewTaskTyped
  <2> HIDE DEF v
  <2>2. u \in TaskT /\ u.op = "add"
    BY <2>1 DEF TaskT
  <2>3. /\ Start(u) /\ Op /\ joinBusy' = TRUE
        /\ UNCHANGED <<memory, stores, loading, loginBusy, codeBusy, challenge, cached, joining>>
    BY <1>1 DEF handleSubmit, v
  <2> HIDE DEF u
  <2> QED BY <2>2, <2>3, <1>a
<1>2. ASSUME handleVerify2FA PROVE SessionInv'
  <2> DEFINE v == NewTask("add", "auth", joining)
             u == [v EXCEPT !.pass = joining, !.modal = TRUE]
  <2>1. joining \in Accounts
    BY <1>0, <1>2, MaybeNone DEF handleVerify2FA
  <2>2. v \in TaskT /\ v.op = "add"
    BY <1>0, <1>h, <2>1, NewTaskTyped
  <2> HIDE DEF v
  <2>3. u \in TaskT /\ u.op = "add"
    BY <1>0, <2>2 DEF TaskT
  <2>4. /\ Start(u) /\ Op /\ joinBusy' = TRUE
        /\ UNCHANGED <<memory, stores, loading, loginBusy, codeBusy, challenge, cached, joining>>
    BY <1>2 DEF handleVerify2FA, v
  <2> HIDE DEF u
  <2> QED BY <2>3, <2>4, <1>a
<1>3. ASSUME handleClose PROVE SessionInv'
  <2>1. /\ Op /\ joining' = None /\ joinBusy' = FALSE
        /\ UNCHANGED <<memory, stores, loading, loginBusy, codeBusy, challenge, cached, tasks>>
    BY <1>3 DEF handleClose
  <2>2. MemoryOK' /\ ListsOK' /\ TokensOK' /\ ops' \in 0..MaxOps /\ FlagsOK'
    BY <1>0, <2>1, FormParts
  <2>3. ModalOK' /\ TasksOK(tasks', loginBusy')
    BY <1>0, <2>1, MaybeNone DEF ModalOK
  <2> QED BY <2>2, <2>3 DEF SessionInv, PageInv
<1> QED BY <1>1, <1>2, <1>3 DEF AddMailboxForms

(* Another account is picked from the menu (handleSwitchAccount). *)
LEMMA PickSwitchStep ==
  ASSUME SessionInv, NEW i \in DOMAIN list, handleSwitchAccount(i) PROVE SessionInv'
<1>0. PageInv /\ ModalOK /\ FlagsOK /\ TokensOK /\ list \in AccountLists /\ stored \in Keys
  BY DEF SessionInv, PageInv, ListsOK, MemoryOK
<1>1. list[i] \in ConnectedAccount
  BY <1>0 DEF AccountLists
<1>2. /\ Op /\ SwitchTo(list[i], list, stored) /\ Start(NewTask("switch", "load", list[i].id))
      /\ UNCHANGED <<stand, cookie, vault, loginBusy, codeBusy, challenge, cached, modal>>
  BY DEF handleSwitchAccount
<1>3. MemoryOK' /\ ListsOK' /\ token' \in Maybe /\ loading' = TRUE
  BY <1>0, <1>1, <1>2, SwitchStep
<1>4. list[i].id \in Maybe
  BY <1>1, EntryOf, MaybeNone
<1>5. TasksOK(tasks', loginBusy')
  BY <1>0, <1>2, <1>4, SwitchTaskTyped, StartStep
<1>6. TokensOK' /\ FlagsOK'
  BY <1>0, <1>2, <1>3 DEF TokensOK, FlagsOK, CachedForChallenge
<1>7. ModalOK' /\ ops' \in 0..MaxOps
  BY <1>0, <1>2, ModalStays, OpCounted DEF PageInv
<1> QED BY <1>3, <1>5, <1>6, <1>7 DEF SessionInv, PageInv

(* An account leaves the list read before: its neighbour is switched to,   *)
(* or only the list and the keys change.                                   *)
LEMMA LeaveStep ==
  ASSUME PageInv, NEW snap \in AccountLists, NEW n, NEW c, NEW ks \in Keys,
         \A x \in Accounts : ks[x] \in {stored[x], None}, LeaveAccount(snap, n, c, ks)
  PROVE  MemoryOK' /\ ListsOK' /\ token' \in Maybe /\ loading' \in BOOLEAN
<1> DEFINE rest == Without(snap, n)
<1>0. MemoryOK /\ TokensOK /\ FlagsOK
  BY DEF PageInv
<1>1. rest \in AccountLists
  BY WithoutKeeps
<1>2. \/ n = c /\ rest # <<>> /\ SwitchTo(rest[1], rest, ks)
      \/ list' = rest /\ durable' = rest /\ stored' = ks /\ UNCHANGED <<memory, token, loading>>
  BY DEF LeaveAccount
<1> HIDE DEF rest
<1>3. CASE rest # <<>> /\ SwitchTo(rest[1], rest, ks)
  <2>1. rest[1] \in ConnectedAccount
    BY <1>1, <1>3, FirstListed
  <2> QED BY <1>1, <1>3, <2>1, SwitchStep
<1>4. CASE list' = rest /\ durable' = rest /\ stored' = ks /\ UNCHANGED <<memory, token, loading>>
  <2>1. ListsOK' /\ token' \in Maybe /\ loading' \in BOOLEAN
    BY <1>0, <1>1, <1>4 DEF ListsOK, TokensOK, FlagsOK
  <2>2. /\ user' = user /\ shape' = shape /\ box' = box /\ key' = key /\ unlocked' = unlocked
        /\ user \in Maybe /\ shape \in Shapes /\ box \in Maybe /\ key \in Maybe
        /\ unlocked \in Maybe
    BY <1>0, <1>4 DEF memory, MemoryOK
  <2>3. key' # None => unlocked' # None /\ stored'[unlocked'] \in {key', None}
    <3> SUFFICES ASSUME key # None
        PROVE unlocked # None /\ ks[unlocked] \in {key, None}
      BY <1>4, <2>2
    <3>1. unlocked # None /\ stored[unlocked] \in {key, None}
      BY <1>0 DEF MemoryOK, MemoryMatchesStore
    <3>2. unlocked \in Accounts
      BY <3>1, <2>2, MaybeNone
    <3> QED BY <3>1, <3>2
  <2>4. MemoryOK'
    BY <1>4, <2>2, <2>3, KeyTaken
  <2> QED BY <2>1, <2>4
<1> QED BY <1>2, <1>3, <1>4

(* The switch to another account that ends a sign-out is a handler that *)
(* does not sign in, or there is none to switch to.                     *)
LEMMA SwitchTaskStep ==
  ASSUME NEW snap \in AccountLists, NEW n, NEW c
  PROVE  \/ SwitchTask(snap, n, c) = {}
         \/ \E u \in TaskT : u.op \notin SignIns /\ SwitchTask(snap, n, c) = {u}
<1> DEFINE rest == Without(snap, n)
<1>1. rest \in AccountLists
  BY WithoutKeeps
<1>2. SwitchTask(snap, n, c)
        = IF n = c /\ rest # <<>> THEN {NewTask("switch", "load", rest[1].id)} ELSE {}
  BY DEF SwitchTask
<1> HIDE DEF rest
<1>3. CASE n = c /\ rest # <<>>
  <2>1. rest[1].id \in Maybe
    BY <1>1, <1>3, FirstListed, EntryOf, MaybeNone
  <2>2. NewTask("switch", "load", rest[1].id) \in TaskT
        /\ NewTask("switch", "load", rest[1].id).op \notin SignIns
    BY <2>1, SwitchTaskTyped
  <2> QED BY <1>2, <1>3, <2>2
<1>4. CASE ~(n = c /\ rest # <<>>)
  BY <1>2, <1>4
<1> QED BY <1>3, <1>4

(* Signing out starts (handleLogout). *)
LEMMA LogoutStep ==
  ASSUME SessionInv, NEW n \in Maybe, NEW all \in BOOLEAN, handleLogout(n, all)
  PROVE  SessionInv'
<1> DEFINE cur == IF box # None THEN box ELSE user
           who == IF n # None THEN n ELSE cur
<1>0. /\ PageInv /\ ModalOK /\ FlagsOK /\ TokensOK /\ MemoryOK /\ list \in AccountLists
      /\ stored \in Keys /\ TasksOK(tasks, loginBusy) /\ loginBusy \in BOOLEAN
  BY DEF SessionInv, PageInv, ListsOK, MemoryOK, FlagsOK
<1>1. Op /\ UNCHANGED <<cookie, vault, loginBusy, codeBusy, challenge, cached, modal>>
  BY DEF handleLogout
<1>2. ModalOK' /\ ops' \in 0..MaxOps
  BY <1>0, <1>1, ModalStays, OpCounted DEF PageInv
<1>3. cur \in Maybe /\ who \in Maybe
  BY <1>0 DEF MemoryOK
<1>4. LogoutAll \/ (who # None /\ LogoutOne(who, cur))
  BY DEF handleLogout
<1> HIDE DEF cur, who
<1>5. CASE LogoutAll
  <2> DEFINE u == NewTask("logoutAll", "revoke", None)
  <2>1. /\ list' = <<>> /\ durable' = <<>> /\ stored' = [x \in Accounts |-> None]
        /\ token' = None /\ stand' = None /\ Start(u)
        /\ UNCHANGED <<memory, loading>>
    BY <1>5 DEF LogoutAll
  <2>2. u \in TaskT /\ u.op \notin SignIns
    <3>1. "logoutAll" \in Handlers /\ "revoke" \in Awaits /\ "revoke" \notin {"auth", "boxes",
            "wasm", "register"}
          /\ "logoutAll" \notin SignIns
      BY DEF Handlers, Awaits, SignIns
    <3> QED BY <3>1, MaybeNone, NewTaskTyped
  <2> HIDE DEF u
  <2>3. TasksOK(tasks', loginBusy')
    BY <1>0, <1>1, <2>1, <2>2, StartStep
  <2>4. ListsOK'
    BY <2>1, NoAccounts DEF ListsOK
  <2>5. TokensOK' /\ FlagsOK'
    BY <1>0, <1>1, <2>1, MaybeNone DEF TokensOK, FlagsOK, CachedForChallenge
  <2>6. /\ user' = user /\ shape' = shape /\ box' = box /\ key' = key /\ unlocked' = unlocked
        /\ user \in Maybe /\ shape \in Shapes /\ box \in Maybe /\ key \in Maybe
        /\ unlocked \in Maybe
    BY <1>0, <2>1 DEF memory, MemoryOK
  <2>7. stored' \in Keys /\ \A x \in Accounts : stored'[x] = None
    BY <2>1, MaybeNone DEF Keys
  <2>8. key # None => unlocked # None
    BY <1>0 DEF MemoryOK, MemoryMatchesStore
  <2>9. MemoryOK'
    BY <2>6, <2>7, <2>8, MaybeNone, KeyTaken
  <2> QED BY <1>2, <2>3, <2>4, <2>5, <2>9 DEF SessionInv, PageInv
<1>6. CASE who # None /\ LogoutOne(who, cur)
  <2> DEFINE ks == [stored EXCEPT ![who] = None]
  <2>1. who \in Accounts
    BY <1>3, <1>6, MaybeNone
  <2>2. ks \in Keys /\ \A x \in Accounts : ks[x] \in {stored[x], None}
    BY <1>0, <2>1, MaybeNone DEF Keys
  <2>3. UNCHANGED stand
    BY <1>6 DEF LogoutOne
  <2>4. \/ /\ stored' = ks
           /\ Start([NewTask("logoutOne", "revoke", who) EXCEPT !.snap = list, !.cur = cur])
           /\ UNCHANGED <<memory, list, durable, token, loading>>
        \/ /\ LeaveAccount(list, who, cur, ks)
           /\ Room /\ tasks' = tasks \cup SwitchTask(list, who, cur)
    BY <1>6 DEF LogoutOne
  <2> HIDE DEF ks
  <2>5. CASE /\ stored' = ks
             /\ Start([NewTask("logoutOne", "revoke", who) EXCEPT !.snap = list, !.cur = cur])
             /\ UNCHANGED <<memory, list, durable, token, loading>>
    <3> DEFINE v == NewTask("logoutOne", "revoke", who)
               u == [v EXCEPT !.snap = list, !.cur = cur]
    <3>1. v \in TaskT /\ v.op = "logoutOne"
      <4>1. "logoutOne" \in Handlers /\ "revoke" \in Awaits
            /\ "revoke" \notin {"auth", "boxes", "wasm", "register"}
        BY DEF Handlers, Awaits
      <4> QED BY <4>1, <1>3, NewTaskTyped
    <3>2. Start(u)
      BY <2>5
    <3> HIDE DEF v
    <3>3. u \in TaskT /\ u.op = "logoutOne"
      BY <1>0, <1>3, <3>1 DEF TaskT
    <3> HIDE DEF u
    <3>4. u.op \notin SignIns
      BY <3>3 DEF SignIns
    <3>5. TasksOK(tasks', loginBusy')
      BY <1>0, <1>1, <3>2, <3>3, <3>4, StartStep
    <3>6. ListsOK' /\ TokensOK'
      BY <1>0, <1>1, <2>3, <2>5, ListsStay, TokensStay DEF PageInv
    <3>7. FlagsOK'
      BY <1>0, <1>1, <2>5, FlagsStay DEF flags
    <3>8. /\ user' = user /\ shape' = shape /\ box' = box /\ key' = key /\ unlocked' = unlocked
          /\ user \in Maybe /\ shape \in Shapes /\ box \in Maybe /\ key \in Maybe
          /\ unlocked \in Maybe
      BY <1>0, <2>5 DEF memory, MemoryOK
    <3>9. key # None => unlocked # None /\ stored[unlocked] \in {key, None}
      BY <1>0 DEF MemoryOK, MemoryMatchesStore
    <3>10. key # None => unlocked # None /\ ks[unlocked] \in {key, None}
      BY <2>2, <3>8, <3>9, MaybeNone
    <3>11. MemoryOK'
      BY <2>2, <2>5, <3>8, <3>10, KeyTaken
    <3> QED BY <1>2, <3>5, <3>6, <3>7, <3>11 DEF SessionInv, PageInv
  <2>6. CASE /\ LeaveAccount(list, who, cur, ks)
             /\ Room /\ tasks' = tasks \cup SwitchTask(list, who, cur)
    <3>1. MemoryOK' /\ ListsOK' /\ token' \in Maybe /\ loading' \in BOOLEAN
      BY <1>0, <2>2, <2>6, LeaveStep
    <3>2. TokensOK' /\ FlagsOK'
      BY <1>0, <1>1, <2>3, <3>1 DEF TokensOK, FlagsOK, CachedForChallenge
    <3>3. TasksOK(tasks', loginBusy')
      <4>1. CASE SwitchTask(list, who, cur) = {}
        BY <1>0, <1>1, <2>6, <4>1
      <4>2. CASE \E u \in TaskT : u.op \notin SignIns /\ SwitchTask(list, who, cur) = {u}
        <5>1. PICK u \in TaskT : u.op \notin SignIns /\ SwitchTask(list, who, cur) = {u}
          BY <4>2
        <5>2. Start(u) /\ loginBusy' = loginBusy
          BY <1>1, <2>6, <5>1 DEF Start
        <5> QED BY <1>0, <5>1, <5>2, StartStep
      <4> QED BY <1>0, <4>1, <4>2, SwitchTaskStep
    <3> QED BY <1>2, <3>1, <3>2, <3>3 DEF SessionInv, PageInv
  <2> QED BY <2>4, <2>5, <2>6
<1> QED BY <1>4, <1>5, <1>6

(* Signing out of one account is answered, after the list may have changed *)
(* (LogoutOneAnswer).                                                      *)
LEMMA LogoutOneStep ==
  ASSUME PageInv, NEW t \in tasks, LogoutOneAnswer(t) PROVE PageInv'
<1>0. /\ MemoryOK /\ ListsOK /\ TokensOK /\ FlagsOK /\ TasksOK(tasks, loginBusy)
      /\ ops \in 0..MaxOps /\ loginBusy \in BOOLEAN /\ t \in TaskT /\ stored \in Keys
  BY PageParts DEF MemoryOK
<1>1. /\ LeaveAccount(t.snap, t.acc, t.cur, stored)
      /\ tasks' = (tasks \ {t}) \cup SwitchTask(t.snap, t.acc, t.cur)
      /\ UNCHANGED <<stand, cookie, vault, loginBusy, codeBusy, challenge, cached, ops>>
  BY DEF LogoutOneAnswer
<1>2. t.snap \in AccountLists
  BY <1>0, TaskFields
<1>3. MemoryOK' /\ ListsOK' /\ token' \in Maybe /\ loading' \in BOOLEAN
  BY <1>0, <1>1, <1>2, LeaveStep
<1>4. TokensOK' /\ FlagsOK' /\ ops' \in 0..MaxOps
  BY <1>0, <1>1, <1>3 DEF TokensOK, FlagsOK, CachedForChallenge
<1>5. TasksOK(tasks', loginBusy')
  <2>1. CASE SwitchTask(t.snap, t.acc, t.cur) = {}
    <3>1. TasksOK(tasks \ {t}, loginBusy)
      BY <1>0, TaskEnded
    <3> QED BY <3>1, <1>1, <2>1
  <2>2. CASE \E u \in TaskT : u.op \notin SignIns /\ SwitchTask(t.snap, t.acc, t.cur) = {u}
    <3>1. PICK u \in TaskT : u.op \notin SignIns /\ SwitchTask(t.snap, t.acc, t.cur) = {u}
      BY <2>2
    <3>2. TasksOK((tasks \ {t}) \cup {u}, loginBusy)
      BY <1>0, <3>1, TaskMoved
    <3> QED BY <1>1, <3>1, <3>2
  <2> QED BY <1>2, <2>1, <2>2, SwitchTaskStep
<1> QED BY <1>3, <1>4, <1>5 DEF PageInv

(* The answer to a mailbox being added: it is refused, asks for a code, or *)
(* the mailbox is put on top and switched to.                              *)
LEMMA AddStep ==
  ASSUME SessionInv, NEW t \in tasks, AddAnswer(t) PROVE SessionInv'
<1>0. /\ PageInv /\ ModalOK
      /\ MemoryOK /\ ListsOK /\ TokensOK /\ FlagsOK /\ TasksOK(tasks, loginBusy)
      /\ ops \in 0..MaxOps /\ loginBusy \in BOOLEAN /\ t \in TaskT /\ stored \in Keys
      /\ list \in AccountLists
  BY PageParts DEF SessionInv, MemoryOK, ListsOK
<1>1. UNCHANGED <<stand, vault, loginBusy, codeBusy, challenge, cached, ops>> /\ t.at = "auth"
  BY DEF AddAnswer
<1>2. t.acc \in Accounts /\ t.acc \in Maybe /\ None \in Maybe
  BY <1>0, <1>1, TaskFields, MaybeNone
<1>3. ops' \in 0..MaxOps
  BY <1>0, <1>1
<1>4. ASSUME Done(t), joining' \in Maybe, joinBusy' = FALSE,
             UNCHANGED <<memory, list, durable, stored, token, cookie, loading>>
      PROVE  SessionInv'
  <2>1. MemoryOK' /\ ListsOK' /\ TokensOK' /\ FlagsOK'
    BY <1>0, <1>1, <1>4, MemoryStays, ListsStay, TokensStay, FlagsStay DEF flags
  <2>2. TasksOK(tasks \ {t}, loginBusy)
    BY <1>0, TaskEnded
  <2>3. TasksOK(tasks', loginBusy')
    BY <1>1, <1>4, <2>2 DEF Done
  <2>4. ModalOK'
    BY <1>4 DEF ModalOK
  <2> QED BY <1>3, <2>1, <2>3, <2>4 DEF SessionInv, PageInv
<1>5. CASE /\ joinBusy' = FALSE /\ Done(t)
           /\ UNCHANGED <<memory, list, durable, stored, token, cookie, loading, joining>>
  <2>1. joining' \in Maybe
    BY <1>0, <1>5 DEF ModalOK
  <2> QED BY <1>4, <1>5, <2>1
<1>6. CASE /\ joining' = (IF MainScreen THEN t.acc ELSE None) /\ joinBusy' = FALSE /\ Done(t)
           /\ UNCHANGED <<memory, list, durable, stored, token, cookie, loading>>
  <2>1. joining' \in Maybe
    BY <1>2, <1>6
  <2> QED BY <1>4, <1>6, <2>1
<1>7. CASE /\ processAccountLogin(t) /\ cookie' = t.acc /\ joining' = None /\ joinBusy' = FALSE
           /\ Continue(t, NewTask("switch", "load", t.acc))
  <2>1. PICK k \in (IF t.modal /\ joining = None THEN {None} ELSE {t.acc, None}) :
          LET e == [id |-> t.acc, tok |-> t.acc, sk |-> k]
              keys == IF k # None THEN [stored EXCEPT ![t.acc] = k] ELSE stored
          IN SwitchTo(e, OnTop(list, e), keys)
    BY <1>7 DEF processAccountLogin
  <2> DEFINE e == [id |-> t.acc, tok |-> t.acc, sk |-> k]
             ks == IF k # None THEN [stored EXCEPT ![t.acc] = k] ELSE stored
  <2>2. k \in Maybe
    BY <1>2, <2>1
  <2>3. e \in ConnectedAccount
    BY <1>2, <2>2 DEF ConnectedAccount
  <2>4. ks \in Keys
    BY <1>0, <1>2, <2>2 DEF Keys
  <2>5. SwitchTo(e, OnTop(list, e), ks)
    BY <2>1
  <2> HIDE DEF e, ks
  <2>6. OnTop(list, e) \in AccountLists
    BY <1>0, <2>3, OnTopKeeps
  <2>7. MemoryOK' /\ ListsOK' /\ token' \in Maybe /\ loading' = TRUE
    BY <1>0, <2>3, <2>4, <2>5, <2>6, SwitchStep
  <2>8. TokensOK' /\ FlagsOK'
    BY <1>0, <1>1, <1>2, <1>7, <2>7 DEF TokensOK, FlagsOK, CachedForChallenge
  <2>9. TasksOK((tasks \ {t}) \cup {NewTask("switch", "load", t.acc)}, loginBusy)
    BY <1>0, <1>2, SwitchTaskTyped, TaskMoved
  <2>10. TasksOK(tasks', loginBusy')
    BY <1>1, <1>7, <2>9 DEF Continue
  <2>11. ModalOK'
    BY <1>2, <1>7 DEF ModalOK
  <2> QED BY <1>3, <2>7, <2>8, <2>10, <2>11 DEF SessionInv, PageInv
<1> QED BY <1>5, <1>6, <1>7 DEF AddAnswer

(* Any answer to any handler. *)
LEMMA AnswerStep ==
  ASSUME SessionInv, NEW t \in tasks, Answer(t) PROVE SessionInv'
<1>0. PageInv /\ ModalOK
  BY DEF SessionInv
<1>1. CASE AddAnswer(t)
  BY <1>1, AddStep
<1>2. CASE ExitAnswer(t)
  <2>1. stand \in Maybe
    BY <1>0 DEF PageInv, TokensOK
  <2> QED BY <1>0, <1>2, <2>1, MountStep DEF ExitAnswer, SessionInv
<1>3. CASE /\ \/ MeAnswer(t) \/ MailboxesAnswer(t) \/ AutoUnwrap(t) \/ LoadAnswer(t)
              \/ LoginAnswer(t) \/ VerifyAnswer(t) \/ PasskeyAnswer(t) \/ PhraseUnwrap(t)
              \/ LogoutAllAnswer(t) \/ LogoutOneAnswer(t) \/ ResendAnswer(t)
              \/ PasskeyCreated(t) \/ PasskeyRegistered(t)
           /\ KeepModal
  <2>1. PageInv'
    BY <1>0, <1>3, MeStep, MailboxesStep, UnwrapStep, LoadStep, LoginStep, VerifyStep,
       PasskeyStep, PhraseStep, LogoutAllStep, LogoutOneStep, ResendStep, CreatedStep,
       RegisteredStep
  <2>2. ModalOK'
    BY <1>0, <1>3, ModalLeft
  <2> QED BY <2>1, <2>2 DEF SessionInv
<1> QED BY <1>1, <1>2, <1>3 DEF Answer

(* The passkey vault, the other tabs, impersonation and the reload. *)
LEMMA PageOpsStep ==
  ASSUME SessionInv,
         \/ \E n \in Accounts : OpenImpersonation(n) \/ handleDeletePasskey(n)
         \/ handleExitImpersonation \/ handleEnrollPasskey \/ handleStorageChange \/ Reload
  PROVE  SessionInv'
<1>0. /\ PageInv /\ ModalOK /\ MemoryOK /\ ListsOK /\ TokensOK /\ FlagsOK
      /\ TasksOK(tasks, loginBusy) /\ ops \in 0..MaxOps /\ loginBusy \in BOOLEAN
      /\ stand \in Maybe /\ durable \in AccountLists /\ stored \in Keys /\ vault \in Vault
      /\ box \in Maybe
  BY DEF SessionInv, PageInv, ListsOK, TokensOK, MemoryOK, FlagsOK
<1>1. ASSUME NEW n \in Accounts, OpenImpersonation(n) PROVE SessionInv'
  BY <1>0, <1>1, MaybeNone, MountStep DEF OpenImpersonation, SessionInv
<1>2. ASSUME Reload PROVE SessionInv'
  BY <1>0, <1>2, MountStep DEF Reload, SessionInv
<1>3. ASSUME vault' \in Vault, Op,
             UNCHANGED <<memory, list, durable, stored, token, stand, cookie, flags, modal, tasks>>
      PROVE  SessionInv'
  <2>1. MemoryOK' /\ ListsOK' /\ FlagsOK' /\ ModalOK' /\ ops' \in 0..MaxOps
    BY <1>0, <1>3, MemoryStays, ListsStay, FlagsStay, ModalStays, OpCounted
  <2>2. TokensOK' /\ TasksOK(tasks', loginBusy')
    BY <1>0, <1>3 DEF TokensOK, flags
  <2> QED BY <2>1, <2>2 DEF SessionInv, PageInv
<1>4. ASSUME NEW n \in Accounts, handleDeletePasskey(n) PROVE SessionInv'
  <2>1. vault' \in Vault
    BY <1>0, <1>4, MaybeNone DEF handleDeletePasskey, Vault, VaultEntry, NoEntry
  <2> QED BY <1>3, <1>4, <2>1 DEF handleDeletePasskey
<1>5. ASSUME handleEnrollPasskey PROVE SessionInv'
  <2> DEFINE u == NewTask("enroll", "auth", Caller)
  <2>1. /\ Op /\ Caller # None /\ Start(u) /\ UNCHANGED <<memory, stores, flags, modal>>
    BY <1>5 DEF handleEnrollPasskey
  <2>2. Caller \in Accounts /\ Caller \in Maybe
    BY <1>0, <2>1, MaybeNone DEF Caller, TokensOK
  <2>3. u \in TaskT /\ u.op \notin SignIns
    <3>1. "enroll" \in Handlers /\ "auth" \in Awaits /\ "enroll" \notin SignIns
      BY DEF Handlers, Awaits, SignIns
    <3> QED BY <3>1, <2>2, NewTaskTyped
  <2> HIDE DEF u
  <2>4. MemoryOK' /\ ListsOK' /\ TokensOK' /\ FlagsOK' /\ ModalOK' /\ ops' \in 0..MaxOps
    BY <1>0, <2>1, MemoryStays, ListsStay, TokensStay, FlagsStay, ModalStays, OpCounted DEF stores
  <2>5. loginBusy' = loginBusy
    BY <2>1 DEF flags
  <2>6. TasksOK(tasks', loginBusy')
    BY <1>0, <2>1, <2>3, <2>5, StartStep
  <2> QED BY <2>4, <2>6 DEF SessionInv, PageInv
<1>6. ASSUME handleExitImpersonation PROVE SessionInv'
  <2> DEFINE u == NewTask("exit", "revoke", None)
  <2>1. /\ Op /\ stand' = None /\ Start(u)
        /\ UNCHANGED <<memory, list, durable, stored, token, cookie, vault, flags, modal>>
    BY <1>6 DEF handleExitImpersonation
  <2>2. u \in TaskT /\ u.op \notin SignIns
    <3>1. "exit" \in Handlers /\ "revoke" \in Awaits /\ "revoke" \notin {"auth", "boxes", "wasm",
            "register"}
          /\ "exit" \notin SignIns
      BY DEF Handlers, Awaits, SignIns
    <3> QED BY <3>1, MaybeNone, NewTaskTyped
  <2> HIDE DEF u
  <2>3. MemoryOK' /\ ListsOK' /\ FlagsOK' /\ ModalOK' /\ ops' \in 0..MaxOps
    BY <1>0, <2>1, MemoryStays, ListsStay, FlagsStay, ModalStays, OpCounted
  <2>4. loginBusy' = loginBusy
    BY <2>1 DEF flags
  <2>5. TasksOK(tasks', loginBusy')
    BY <1>0, <2>1, <2>2, <2>4, StartStep
  <2>6. TokensOK'
    BY <1>0, <2>1, MaybeNone DEF TokensOK
  <2> QED BY <2>3, <2>5, <2>6 DEF SessionInv, PageInv
<1>7. ASSUME handleStorageChange PROVE SessionInv'
  <2>1. /\ Op /\ list' = durable'
        /\ UNCHANGED <<memory, stored, token, stand, cookie, vault, flags, modal, tasks>>
    BY <1>7 DEF handleStorageChange
  <2>2. PICK n \in Accounts : \/ durable' = OnTop(durable, [id |-> n, tok |-> n, sk |-> None])
                              \/ durable' = Without(durable, n)
    BY <1>7 DEF handleStorageChange
  <2>3. [id |-> n, tok |-> n, sk |-> None] \in ConnectedAccount
    BY MaybeNone DEF ConnectedAccount
  <2>4. durable' \in AccountLists
    BY <1>0, <2>2, <2>3, OnTopKeeps, WithoutKeeps
  <2>5. ListsOK'
    BY <2>1, <2>4 DEF ListsOK
  <2>6. MemoryOK' /\ TokensOK' /\ FlagsOK' /\ ModalOK' /\ ops' \in 0..MaxOps
    BY <1>0, <2>1, MemoryStays, TokensStay, FlagsStay, ModalStays, OpCounted
  <2>7. TasksOK(tasks', loginBusy')
    BY <1>0, <2>1 DEF flags
  <2> QED BY <2>5, <2>6, <2>7 DEF SessionInv, PageInv
<1> QED BY <1>1, <1>2, <1>4, <1>5, <1>6, <1>7

(* No step of the session breaks its invariant. *)
LEMMA SessionStep == SessionInv /\ [SessionNext]_sessionVars => SessionInv'
<1> SUFFICES ASSUME SessionInv, [SessionNext]_sessionVars PROVE SessionInv'
  OBVIOUS
<1>1. CASE SignInForms
  BY <1>1, SignInFormsStep
<1>2. CASE AddMailboxForms
  BY <1>2, AddMailboxFormsStep
<1>3. CASE SwitcherMenu
  <2>1. ASSUME NEW i \in DOMAIN list, handleSwitchAccount(i) PROVE SessionInv'
    BY <2>1, PickSwitchStep
  <2>2. ASSUME NEW i \in DOMAIN list, handleLogout(list[i].id, FALSE) PROVE SessionInv'
    <3>1. list \in AccountLists
      BY DEF SessionInv, PageInv, ListsOK
    <3>2. list[i] \in ConnectedAccount
      BY <3>1 DEF AccountLists
    <3>3. list[i].id \in Maybe
      BY <3>2, EntryOf, MaybeNone
    <3> QED BY <2>2, <3>3, LogoutStep
  <2>3. ASSUME handleLogout(None, FALSE) \/ handleLogout(None, TRUE) PROVE SessionInv'
    BY <2>3, MaybeNone, LogoutStep
  <2> QED BY <1>3, <2>1, <2>2, <2>3 DEF SwitcherMenu
<1>4. CASE \/ \E n \in Accounts : OpenImpersonation(n) \/ handleDeletePasskey(n)
           \/ handleExitImpersonation \/ handleEnrollPasskey \/ handleStorageChange \/ Reload
  BY <1>4, PageOpsStep
<1>5. CASE \E t \in tasks : Answer(t)
  BY <1>5, AnswerStep
<1>6. CASE UNCHANGED sessionVars
  <2>1. UNCHANGED memory /\ UNCHANGED stores /\ UNCHANGED flags /\ UNCHANGED modal
        /\ tasks' = tasks /\ ops' = ops
    BY <1>6 DEF sessionVars
  <2>2. MemoryOK' /\ ListsOK' /\ TokensOK' /\ FlagsOK' /\ ModalOK'
    BY <2>1, MemoryStays, ListsStay, TokensStay, FlagsStay, ModalStays
       DEF SessionInv, PageInv, stores
  <2>3. TasksOK(tasks', loginBusy') /\ ops' \in 0..MaxOps
    BY <2>1 DEF SessionInv, PageInv, flags
  <2> QED BY <2>2, <2>3 DEF SessionInv, PageInv
<1> QED BY <1>1, <1>2, <1>3, <1>4, <1>5, <1>6 DEF SessionNext, UserStep

(* A tab that has just been opened, whether its first request is still     *)
(* under way or not.                                                       *)
LEMMA FreshTab ==
  ASSUME /\ user = None /\ shape = Full /\ box = None /\ key = None /\ unlocked = None
         /\ list = <<>> /\ durable = <<>>
         /\ stored = [x \in Accounts |-> None] /\ vault = [x \in Accounts |-> NoEntry]
         /\ token = None /\ stand = None /\ cookie = None
         /\ loading \in BOOLEAN /\ loginBusy = FALSE /\ codeBusy = FALSE
         /\ challenge = None /\ cached = FALSE /\ joining = None /\ joinBusy = FALSE
         /\ tasks \in {{}, {NewTask("mount", "me", None)}} /\ ops = 0
  PROVE  SessionInv
<1> DEFINE first == NewTask("mount", "me", None)
<1>1. first \in TaskT /\ first.op = "mount"
  <2>1. "mount" \in Handlers /\ "me" \in Awaits /\ "me" \notin {"auth", "boxes", "wasm", "register"}
    BY DEF Handlers, Awaits
  <2> QED BY <2>1, MaybeNone, NewTaskTyped
<1> HIDE DEF first
<1>2. TasksOK({first}, FALSE)
  <2>1. IsFiniteSet({first}) /\ Cardinality({first}) = 1
    BY FS_Singleton
  <2>2. Counted({first})
    BY <2>1, SessionAssumption DEF Counted
  <2>3. OneSignIn({first}, FALSE)
    BY <1>1 DEF OneSignIn, SignIns
  <2> QED BY <1>1, <2>2, <2>3 DEF TasksOK
<1>3. TasksOK({}, FALSE)
  BY FS_EmptySet, SessionAssumption DEF TasksOK, Counted, OneSignIn
<1>4. TasksOK(tasks, loginBusy)
  BY <1>2, <1>3 DEF first
<1>5. stored \in Keys /\ vault \in Vault /\ Full \in Shapes
  BY MaybeNone DEF Keys, Full, Shapes, Vault, VaultEntry, NoEntry
<1>6. MemoryOK
  BY <1>5, MaybeNone DEF MemoryOK, MemoryMatchesStore
<1>7. ListsOK /\ TokensOK
  BY <1>5, MaybeNone, NoAccounts DEF ListsOK, TokensOK
<1>8. FlagsOK /\ ModalOK
  BY MaybeNone DEF FlagsOK, CachedForChallenge, ModalOK
<1>9. ops \in 0..MaxOps
  BY SessionAssumption
<1> QED BY <1>4, <1>6, <1>7, <1>8, <1>9 DEF SessionInv, PageInv

(* A tab just opened satisfies it. *)
LEMMA SessionStarts == SessionInit => SessionInv
BY FreshTab DEF SessionInit

(* The invariant gives what the run checks. *)
LEMMA SessionInvImplies == SessionInv => SessionTypeOK /\ SessionConsistent
<1> SUFFICES ASSUME SessionInv PROVE SessionTypeOK /\ SessionConsistent
  OBVIOUS
<1>0. MemoryOK /\ ListsOK /\ TokensOK /\ FlagsOK /\ ModalOK /\ TasksOK(tasks, loginBusy)
      /\ ops \in 0..MaxOps
  BY DEF SessionInv, PageInv
<1>1. SessionTypeOK
  <2>1. {user, box, key, unlocked, token, stand, cookie, challenge, joining} \subseteq Maybe
    BY <1>0 DEF MemoryOK, TokensOK, FlagsOK, ModalOK
  <2>2. {loading, loginBusy, codeBusy, cached, joinBusy} \subseteq BOOLEAN
    BY <1>0 DEF FlagsOK, ModalOK
  <2>3. shape \in Shapes /\ stored \in [Accounts -> Maybe] /\ vault \in [Accounts -> VaultEntry]
    BY <1>0 DEF MemoryOK, TokensOK, Keys, Vault
  <2>4. {list, durable} \subseteq Lists
    BY <1>0, ListsBounded DEF ListsOK
  <2>5. tasks \subseteq Task
    <3>1. tasks \subseteq TaskT
      BY <1>0 DEF TasksOK
    <3>2. TaskT \subseteq Task
      BY ListsBounded DEF TaskT, Task
    <3> QED BY <3>1, <3>2
  <2>6. Cardinality(tasks) <= MaxTasks
    BY <1>0 DEF TasksOK, Counted
  <2> QED BY <1>0, <2>1, <2>2, <2>3, <2>4, <2>5, <2>6 DEF SessionTypeOK
<1>2. AccountsOnce
  BY <1>0 DEF AccountsOnce, ListsOK, AccountLists
<1>3. SingleSignIn
  <2> DEFINE S == {t \in tasks : t.op \in SignIns}
  <2>1. \A t, u \in S : t = u
    BY <1>0 DEF TasksOK, OneSignIn
  <2>2. CASE S = {}
    BY <2>2, FS_EmptySet DEF SingleSignIn
  <2>3. CASE S # {}
    <3>1. PICK t : S = {t}
      BY <2>1, <2>3
    <3> QED BY <3>1, FS_Singleton DEF SingleSignIn
  <2> QED BY <2>2, <2>3
<1>4. CachedForChallenge /\ MemoryMatchesStore
  BY <1>0 DEF FlagsOK, MemoryOK
<1> QED BY <1>1, <1>2, <1>3, <1>4 DEF SessionConsistent

-----------------------------------------------------------------------------
(* The import dialog. *)

(* What splitMbox has before the first line, and the loop over the first n *)
(* lines as a function.                                                    *)
Started == [out |-> <<>>, cur |-> <<>>]
Loop(g, lines, n) ==
  g = [i \in 0..n |-> IF i = 0 THEN Started ELSE TakeLine(g[i - 1], lines[i])]

(* The loop runs through any number of lines. *)
LEMMA LoopExists ==
  ASSUME NEW lines
  PROVE  \A n \in Nat : \E g : Loop(g, lines, n)
<1> DEFINE S == {n \in Nat : ~ \E g : Loop(g, lines, n)}
<1> SUFFICES ASSUME S # {} PROVE FALSE
  OBVIOUS
<1>1. PICK n \in S : \A k \in S : n <= k
  BY Least
<1>2. n \in Nat /\ ~ \E g : Loop(g, lines, n)
  BY <1>1
<1>3. CASE n = 0
  <2> DEFINE g == [i \in 0..0 |-> Started]
  <2>1. \A i \in 0..0 : i = 0
    OBVIOUS
  <2>2. g = [i \in 0..0 |-> IF i = 0 THEN Started ELSE TakeLine(g[i - 1], lines[i])]
    BY <2>1
  <2>3. Loop(g, lines, 0)
    BY <2>2 DEF Loop
  <2> QED BY <1>2, <1>3, <2>3
<1>4. CASE n # 0
  <2>1. n - 1 \in Nat /\ ~(n <= n - 1)
    BY <1>2, <1>4
  <2>2. \E g : Loop(g, lines, n - 1)
    BY <1>1, <2>1
  <2>3. PICK g : Loop(g, lines, n - 1)
    BY <2>2
  <2> DEFINE h == [i \in 0..n |-> IF i = n THEN TakeLine(g[n - 1], lines[n]) ELSE g[i]]
  <2>4. \A i \in 0..(n - 1) : g[i] = IF i = 0 THEN Started ELSE TakeLine(g[i - 1], lines[i])
    BY <2>3 DEF Loop
  <2>5. \A i \in 0..n : i # n => i \in 0..(n - 1)
    BY <1>2, <1>4
  <2>6. \A i \in 0..n : i # 0 => i - 1 \in 0..n /\ i - 1 # n
    BY <1>2, <1>4
  <2>7. \A i \in 0..n : h[i] = IF i = n THEN TakeLine(g[n - 1], lines[n]) ELSE g[i]
    OBVIOUS
  <2>8. \A i \in 0..n : h[i] = IF i = 0 THEN Started ELSE TakeLine(h[i - 1], lines[i])
    <3> HIDE DEF h
    <3> SUFFICES ASSUME NEW i \in 0..n
        PROVE h[i] = IF i = 0 THEN Started ELSE TakeLine(h[i - 1], lines[i])
      OBVIOUS
    <3>1. CASE i = 0
      BY <3>1, <1>4, <2>4, <2>5, <2>7
    <3>2. CASE i # 0 /\ i = n
      BY <3>2, <2>6, <2>7
    <3>3. CASE i # 0 /\ i # n
      BY <3>3, <2>4, <2>5, <2>6, <2>7
    <3> QED BY <3>1, <3>2, <3>3
  <2>9. h = [i \in 0..n |-> IF i = 0 THEN Started ELSE TakeLine(h[i - 1], lines[i])]
    BY <2>8
  <2>10. Loop(h, lines, n)
    BY <2>9 DEF Loop
  <2> QED BY <1>2, <2>10
<1> QED BY <1>3, <1>4

(* So splitMbox starts with nothing and takes the lines one by one. *)
LEMMA SplittingLoops ==
  ASSUME NEW lines \in Seq(Line)
  PROVE  /\ Splitting(lines)[0] = Started
         /\ \A n \in 1..Len(lines) :
              Splitting(lines)[n] = TakeLine(Splitting(lines)[n - 1], lines[n])
<1> DEFINE N == Len(lines)
<1>1. N \in Nat
  OBVIOUS
<1>2. \E g : Loop(g, lines, N)
  BY <1>1, LoopExists
<1>3. Splitting(lines) = CHOOSE g : Loop(g, lines, N)
  BY DEF Splitting, Loop, Started
<1>4. Loop(Splitting(lines), lines, N)
  BY <1>2, <1>3
<1> HIDE DEF N
<1>5. \A i \in 0..N : Splitting(lines)[i]
        = IF i = 0 THEN Started ELSE TakeLine(Splitting(lines)[i - 1], lines[i])
  BY <1>4 DEF Loop
<1>6. 0 \in 0..N /\ \A n \in 1..N : n \in 0..N /\ n # 0
  BY <1>1
<1> QED BY <1>5, <1>6 DEF N

(* The messages so far and the lines since have the lines of the file so   *)
(* far: as many of text, and one for each escaped.                         *)
SplitT == [out : Seq(Seq(Line)), cur : Seq(Line)]
Upto(lines, kind, n) == {k \in 1..n : lines[k] = kind}
Balanced(at, lines, n) ==
  /\ at \in SplitT
  /\ \A kind \in Line : IsFiniteSet(LinesAmong(at.out, kind))
  /\ Cardinality(LinesAmong(at.out, "text")) + Cardinality(LinesOf(at.cur, "text"))
       = Cardinality(Upto(lines, "text", n))
  /\ Cardinality(LinesAmong(at.out, "from")) + Cardinality(LinesOf(at.cur, "from"))
       >= Cardinality(Upto(lines, "esc", n))

(* The lines of one kind are finitely many. *)
LEMMA LinesFinite ==
  ASSUME NEW s \in Seq(Line), NEW kind
  PROVE  IsFiniteSet(LinesOf(s, kind)) /\ Cardinality(LinesOf(s, kind)) \in Nat
<1>1. LinesOf(s, kind) \in SUBSET (1..Len(s)) /\ Len(s) \in Nat
  BY DEF LinesOf
<1>2. IsFiniteSet(1..Len(s))
  BY <1>1, FS_Interval
<1>3. IsFiniteSet(LinesOf(s, kind))
  BY <1>1, <1>2, FS_Subset
<1> QED BY <1>3, FS_CardinalityType

(* So are those among the first of a file. *)
LEMMA UptoFinite ==
  ASSUME NEW lines, NEW kind, NEW n \in Nat
  PROVE  IsFiniteSet(Upto(lines, kind, n)) /\ Cardinality(Upto(lines, kind, n)) \in Nat
<1>1. Upto(lines, kind, n) \in SUBSET (1..n)
  BY DEF Upto
<1>2. IsFiniteSet(1..n)
  BY FS_Interval
<1>3. IsFiniteSet(Upto(lines, kind, n))
  BY <1>1, <1>2, FS_Subset
<1> QED BY <1>3, FS_CardinalityType

(* One line more, of the file and of a message. *)
LEMMA UptoNext ==
  ASSUME NEW lines, NEW kind, NEW n \in Nat, n # 0
  PROVE  Cardinality(Upto(lines, kind, n))
           = Cardinality(Upto(lines, kind, n - 1)) + (IF lines[n] = kind THEN 1 ELSE 0)
<1> DEFINE U == Upto(lines, kind, n - 1)
<1>0. n - 1 \in Nat
  OBVIOUS
<1>1. IsFiniteSet(U) /\ Cardinality(U) \in Nat
  BY <1>0, UptoFinite
<1>2. n \notin U
  BY DEF Upto
<1>3. \A k \in 1..n : k = n \/ k \in 1..(n - 1)
  OBVIOUS
<1>4. \A k \in 1..(n - 1) : k \in 1..n
  OBVIOUS
<1>5. n \in 1..n
  OBVIOUS
<1>6. CASE lines[n] = kind
  <2>1. Upto(lines, kind, n) = U \cup {n}
    BY <1>3, <1>4, <1>5, <1>6 DEF Upto
  <2>2. Cardinality(U \cup {n}) = Cardinality(U) + 1
    BY <1>1, <1>2, FS_AddElement
  <2> QED BY <1>6, <2>1, <2>2
<1>7. CASE lines[n] # kind
  <2>1. Upto(lines, kind, n) = U
    BY <1>3, <1>4, <1>5, <1>7 DEF Upto
  <2> QED BY <1>1, <1>7, <2>1
<1> QED BY <1>6, <1>7

(* One more line of a message. *)
LEMMA LinesNext ==
  ASSUME NEW s \in Seq(Line), NEW l \in Line, NEW kind
  PROVE  Cardinality(LinesOf(Append(s, l), kind))
           = Cardinality(LinesOf(s, kind)) + (IF l = kind THEN 1 ELSE 0)
<1> DEFINE U == LinesOf(s, kind)
           n == Len(s) + 1
           t == Append(s, l)
<1>1. IsFiniteSet(U) /\ Cardinality(U) \in Nat
  BY LinesFinite
<1>2. DOMAIN s = 1..Len(s) /\ Len(s) \in Nat
  OBVIOUS
<1>3. DOMAIN t = 1..n /\ t[n] = l /\ \A k \in 1..Len(s) : t[k] = s[k]
  OBVIOUS
<1> HIDE DEF t
<1>4. n \notin U
  BY <1>2 DEF LinesOf
<1>5. \A k \in 1..n : k = n \/ k \in 1..Len(s)
  BY <1>2
<1>6. \A k \in 1..Len(s) : k \in 1..n /\ k # n
  BY <1>2
<1>7. n \in 1..n
  BY <1>2
<1>8. CASE l = kind
  <2>1. LinesOf(t, kind) = U \cup {n}
    BY <1>2, <1>3, <1>5, <1>6, <1>7, <1>8 DEF LinesOf
  <2>2. Cardinality(U \cup {n}) = Cardinality(U) + 1
    BY <1>1, <1>4, FS_AddElement
  <2> QED BY <1>8, <2>1, <2>2 DEF t
<1>9. CASE l # kind
  <2>1. LinesOf(t, kind) = U
    BY <1>2, <1>3, <1>5, <1>6, <1>7, <1>9 DEF LinesOf
  <2> QED BY <1>1, <1>9, <2>1 DEF t
<1> QED BY <1>8, <1>9

(* One message more. *)
LEMMA MailsNext ==
  ASSUME NEW out \in Seq(Seq(Line)), NEW s \in Seq(Line), NEW kind,
         IsFiniteSet(LinesAmong(out, kind))
  PROVE  /\ IsFiniteSet(LinesAmong(Append(out, s), kind))
         /\ Cardinality(LinesAmong(Append(out, s), kind))
              = Cardinality(LinesAmong(out, kind)) + Cardinality(LinesOf(s, kind))
<1> DEFINE n == Len(out) + 1
           t == Append(out, s)
           S == LinesAmong(out, kind)
           T == {n} \X LinesOf(s, kind)
<1>1. DOMAIN out = 1..Len(out) /\ Len(out) \in Nat
  OBVIOUS
<1>2. DOMAIN t = 1..n /\ t[n] = s /\ \A k \in 1..Len(out) : t[k] = out[k]
  OBVIOUS
<1>3. \A k : k \in DOMAIN t <=> (k = n \/ k \in DOMAIN out)
  BY <1>1, <1>2
<1>4. n \notin DOMAIN out
  BY <1>1
<1> HIDE DEF t
<1>5. LinesAmong(t, kind) = S \cup T
  <2> HIDE DEF n
  <2>1. \A p : p \in LinesAmong(t, kind) <=> \E k \in DOMAIN t : p \in {k} \X LinesOf(t[k], kind)
    BY DEF LinesAmong
  <2>2. \A p : p \in S <=> \E k \in DOMAIN out : p \in {k} \X LinesOf(out[k], kind)
    BY DEF LinesAmong
  <2>3. \A k \in DOMAIN out : LinesOf(t[k], kind) = LinesOf(out[k], kind)
    BY <1>1, <1>2
  <2> QED BY <1>2, <1>3, <2>1, <2>2, <2>3
<1>6. S \cap T = {}
  <2>1. \A p \in S : \E k \in DOMAIN out : p \in {k} \X LinesOf(out[k], kind)
    BY DEF LinesAmong
  <2>2. \A p \in S : p[1] \in DOMAIN out
    BY <2>1
  <2>3. \A p \in T : p[1] = n
    OBVIOUS
  <2> QED BY <1>4, <2>2, <2>3
<1>7. IsFiniteSet({n}) /\ Cardinality({n}) = 1
  BY FS_Singleton
<1>8. IsFiniteSet(LinesOf(s, kind)) /\ Cardinality(LinesOf(s, kind)) \in Nat
  BY LinesFinite
<1>9. IsFiniteSet(T) /\ Cardinality(T) = 1 * Cardinality(LinesOf(s, kind))
  BY <1>7, <1>8, FS_Product
<1>10. IsFiniteSet(S \cup T) /\ Cardinality(S \cup T) = Cardinality(S) + Cardinality(T) - Cardinality(S \cap T)
  BY <1>9, FS_Union
<1>11. Cardinality(S \cap T) = 0 /\ Cardinality(S) \in Nat
  BY <1>6, FS_EmptySet, FS_CardinalityType
<1> HIDE DEF S, T
<1> QED BY <1>5, <1>8, <1>9, <1>10, <1>11 DEF t, S

(* Before the first line the books balance. *)
LEMMA StartBalanced ==
  ASSUME NEW lines PROVE Balanced(Started, lines, 0)
<1>1. Started \in SplitT /\ Started.out = <<>> /\ Started.cur = <<>>
  BY DEF Started, SplitT
<1>2. \A kind : LinesAmong(<<>>, kind) = {} /\ LinesOf(<<>>, kind) = {}
  BY DEF LinesAmong, LinesOf
<1>3. \A kind : Upto(lines, kind, 0) = {}
  BY DEF Upto
<1>4. \A kind : IsFiniteSet(LinesAmong(Started.out, kind))
  BY <1>1, <1>2, FS_EmptySet
<1>5. \A kind : Cardinality(LinesAmong(Started.out, kind)) = 0
                /\ Cardinality(LinesOf(Started.cur, kind)) = 0
  BY <1>1, <1>2, FS_EmptySet
<1>6. \A kind : Cardinality(Upto(lines, kind, 0)) = 0
  BY <1>3, FS_EmptySet
<1> QED BY <1>1, <1>4, <1>5, <1>6 DEF Balanced

(* Each line keeps them balanced: a separator ends the message before it,  *)
(* or is one of its lines; an escaped one becomes a separator in the text. *)
LEMMA LineBalanced ==
  ASSUME NEW lines \in Seq(Line), NEW n \in 1..Len(lines), NEW at, Balanced(at, lines, n - 1)
  PROVE  Balanced(TakeLine(at, lines[n]), lines, n)
<1> DEFINE l == lines[n]
<1>1. n \in Nat /\ n # 0 /\ n - 1 \in Nat /\ l \in Line
  OBVIOUS
<1>2. at.out \in Seq(Seq(Line)) /\ at.cur \in Seq(Line)
  BY DEF Balanced, SplitT
<1>3. \A kind \in Line : /\ IsFiniteSet(LinesAmong(at.out, kind))
                         /\ Cardinality(LinesAmong(at.out, kind)) \in Nat
                         /\ Cardinality(LinesOf(at.cur, kind)) \in Nat
  BY <1>2, FS_CardinalityType, LinesFinite DEF Balanced
<1>4. /\ Cardinality(LinesAmong(at.out, "text")) + Cardinality(LinesOf(at.cur, "text"))
           = Cardinality(Upto(lines, "text", n - 1))
      /\ Cardinality(LinesAmong(at.out, "from")) + Cardinality(LinesOf(at.cur, "from"))
           >= Cardinality(Upto(lines, "esc", n - 1))
  BY DEF Balanced
<1>5. /\ Cardinality(Upto(lines, "text", n))
           = Cardinality(Upto(lines, "text", n - 1)) + (IF l = "text" THEN 1 ELSE 0)
      /\ Cardinality(Upto(lines, "esc", n))
           = Cardinality(Upto(lines, "esc", n - 1)) + (IF l = "esc" THEN 1 ELSE 0)
      /\ Cardinality(Upto(lines, "text", n - 1)) \in Nat
      /\ Cardinality(Upto(lines, "esc", n - 1)) \in Nat
  BY <1>1, UptoNext, UptoFinite
<1>6. "text" \in Line /\ "from" \in Line
  BY DEF Line
<1> HIDE DEF l
<1>7. CASE l = "from" /\ at.cur # <<>>
  <2> DEFINE t == [out |-> Append(at.out, at.cur), cur |-> <<>>]
  <2>1. TakeLine(at, l) = t
    BY <1>7 DEF TakeLine
  <2>2. t \in SplitT /\ t.out = Append(at.out, at.cur) /\ t.cur = <<>>
    BY <1>2 DEF SplitT
  <2> HIDE DEF t
  <2>3. \A kind \in Line :
          /\ IsFiniteSet(LinesAmong(t.out, kind))
          /\ Cardinality(LinesAmong(t.out, kind))
               = Cardinality(LinesAmong(at.out, kind)) + Cardinality(LinesOf(at.cur, kind))
    BY <1>2, <1>3, <2>2, MailsNext
  <2>4. \A kind : Cardinality(LinesOf(t.cur, kind)) = 0
    BY <2>2, FS_EmptySet DEF LinesOf
  <2>5. Cardinality(LinesAmong(t.out, "text")) + Cardinality(LinesOf(t.cur, "text"))
          = Cardinality(Upto(lines, "text", n))
    BY <1>3, <1>4, <1>5, <1>6, <1>7, <2>3, <2>4
  <2>6. Cardinality(LinesAmong(t.out, "from")) + Cardinality(LinesOf(t.cur, "from"))
          >= Cardinality(Upto(lines, "esc", n))
    BY <1>3, <1>4, <1>5, <1>6, <1>7, <2>3, <2>4
  <2> QED BY <2>1, <2>2, <2>3, <2>5, <2>6 DEF Balanced, l
<1>8. CASE ~(l = "from" /\ at.cur # <<>>)
  <2> DEFINE u == Unescaped(l)
             t == [out |-> at.out, cur |-> Append(at.cur, u)]
  <2>1. TakeLine(at, l) = t
    BY <1>8 DEF TakeLine
  <2>2. u \in Line /\ (u = "text" <=> l = "text") /\ (l = "esc" => u = "from")
    BY <1>1 DEF Unescaped, Line
  <2> HIDE DEF u
  <2>3. t \in SplitT /\ t.out = at.out /\ t.cur = Append(at.cur, u)
    BY <1>2, <2>2 DEF SplitT
  <2> HIDE DEF t
  <2>4. \A kind \in Line : Cardinality(LinesOf(t.cur, kind))
                             = Cardinality(LinesOf(at.cur, kind)) + (IF u = kind THEN 1 ELSE 0)
    BY <1>2, <2>2, <2>3, LinesNext
  <2>5. Cardinality(LinesAmong(t.out, "text")) + Cardinality(LinesOf(t.cur, "text"))
          = Cardinality(Upto(lines, "text", n))
    <3>1. Cardinality(LinesOf(t.cur, "text"))
            = Cardinality(LinesOf(at.cur, "text")) + (IF u = "text" THEN 1 ELSE 0)
      BY <1>6, <2>4
    <3>2. (IF u = "text" THEN 1 ELSE 0) = (IF l = "text" THEN 1 ELSE 0)
          /\ (IF u = "text" THEN 1 ELSE 0) \in Nat
      BY <2>2
    <3>3. Cardinality(LinesAmong(at.out, "text")) \in Nat /\ Cardinality(LinesOf(at.cur, "text")) \in Nat
      BY <1>3, <1>6
    <3> QED BY <1>4, <1>5, <2>3, <3>1, <3>2, <3>3
  <2>6. Cardinality(LinesAmong(t.out, "from")) + Cardinality(LinesOf(t.cur, "from"))
          >= Cardinality(Upto(lines, "esc", n))
    <3>1. Cardinality(LinesOf(t.cur, "from"))
            = Cardinality(LinesOf(at.cur, "from")) + (IF u = "from" THEN 1 ELSE 0)
      BY <1>6, <2>4
    <3>2. (IF u = "from" THEN 1 ELSE 0) \in Nat
          /\ (IF u = "from" THEN 1 ELSE 0) >= (IF l = "esc" THEN 1 ELSE 0)
      BY <2>2
    <3>3. /\ Cardinality(LinesAmong(at.out, "from")) \in Nat
          /\ Cardinality(LinesOf(at.cur, "from")) \in Nat
      BY <1>3, <1>6
    <3>4. (IF l = "esc" THEN 1 ELSE 0) \in Nat
      OBVIOUS
    <3> DEFINE x == IF u = "from" THEN 1 ELSE 0
               y == IF l = "esc" THEN 1 ELSE 0
    <3>5. x \in Nat /\ y \in Nat /\ x >= y
      BY <3>2, <3>4
    <3>6. Cardinality(LinesOf(t.cur, "from")) = Cardinality(LinesOf(at.cur, "from")) + x
          /\ Cardinality(Upto(lines, "esc", n)) = Cardinality(Upto(lines, "esc", n - 1)) + y
          /\ t.out = at.out
      BY <1>5, <2>3, <3>1
    <3> HIDE DEF x, y
    <3> QED BY <1>4, <1>5, <3>3, <3>5, <3>6
  <2> QED BY <1>3, <2>1, <2>3, <2>5, <2>6 DEF Balanced, l
<1> QED BY <1>7, <1>8

(* After any number of lines. *)
LEMMA SplitBalanced ==
  ASSUME NEW lines \in Seq(Line)
  PROVE  \A n \in 0..Len(lines) : Balanced(Splitting(lines)[n], lines, n)
<1> DEFINE S == {n \in Nat : n <= Len(lines) /\ ~Balanced(Splitting(lines)[n], lines, n)}
<1>0. Len(lines) \in Nat
  OBVIOUS
<1>1. ASSUME S # {} PROVE FALSE
  <2>1. PICK n \in S : \A k \in S : n <= k
    BY <1>1, Least
  <2>2. CASE n = 0
    <3>1. Splitting(lines)[0] = Started
      BY SplittingLoops
    <3> QED BY <2>1, <2>2, <3>1, StartBalanced
  <2>3. CASE n # 0
    <3>1. n \in 1..Len(lines) /\ n - 1 \in Nat /\ n - 1 <= Len(lines) /\ ~(n <= n - 1)
      BY <1>0, <2>1, <2>3
    <3>2. Balanced(Splitting(lines)[n - 1], lines, n - 1)
      BY <2>1, <3>1
    <3>3. Splitting(lines)[n] = TakeLine(Splitting(lines)[n - 1], lines[n])
      BY <3>1, SplittingLoops
    <3>4. Balanced(TakeLine(Splitting(lines)[n - 1], lines[n]), lines, n)
      BY <3>1, <3>2, LineBalanced
    <3>5. Balanced(Splitting(lines)[n], lines, n)
      BY <3>3, <3>4
    <3> QED BY <2>1, <3>5
  <2> QED BY <2>2, <2>3
<1>2. \A n \in 0..Len(lines) : n \in Nat /\ n <= Len(lines)
  BY <1>0
<1> QED BY <1>1, <1>2

(* For every file: what splitMbox returns are messages, with as many lines *)
(* of text as the file has and one for each escaped line, wherever the     *)
(* separators and the blank lines are.                                     *)
THEOREM SplitLosesNothing ==
  ASSUME NEW lines \in Seq(Line)
  PROVE  /\ splitMbox(lines) \in Seq(Seq(Line))
         /\ Cardinality(LinesAmong(splitMbox(lines), "text")) = Cardinality(LinesOf(lines, "text"))
         /\ Cardinality(LinesAmong(splitMbox(lines), "from")) >= Cardinality(LinesOf(lines, "esc"))
<1> DEFINE end == Splitting(lines)[Len(lines)]
<1>1. Len(lines) \in 0..Len(lines)
  OBVIOUS
<1>2. Balanced(end, lines, Len(lines))
  BY <1>1, SplitBalanced
<1>3. \A kind : Upto(lines, kind, Len(lines)) = LinesOf(lines, kind)
  BY DEF Upto, LinesOf
<1>4. splitMbox(lines) = IF HasText(end.cur) THEN Append(end.out, end.cur) ELSE end.out
  BY DEF splitMbox
<1> HIDE DEF end
<1>5. end.out \in Seq(Seq(Line)) /\ end.cur \in Seq(Line)
  BY <1>2 DEF Balanced, SplitT
<1>6. "text" \in Line /\ "from" \in Line
  BY DEF Line
<1>7. \A kind \in Line : /\ IsFiniteSet(LinesAmong(end.out, kind))
                         /\ Cardinality(LinesAmong(end.out, kind)) \in Nat
                         /\ Cardinality(LinesOf(end.cur, kind)) \in Nat
  BY <1>2, <1>5, FS_CardinalityType, LinesFinite DEF Balanced
<1>8. /\ Cardinality(LinesAmong(end.out, "text")) + Cardinality(LinesOf(end.cur, "text"))
           = Cardinality(LinesOf(lines, "text"))
      /\ Cardinality(LinesAmong(end.out, "from")) + Cardinality(LinesOf(end.cur, "from"))
           >= Cardinality(LinesOf(lines, "esc"))
  BY <1>2, <1>3 DEF Balanced
<1>9. CASE HasText(end.cur)
  <2>1. \A kind \in Line : Cardinality(LinesAmong(Append(end.out, end.cur), kind))
          = Cardinality(LinesAmong(end.out, kind)) + Cardinality(LinesOf(end.cur, kind))
    BY <1>5, <1>7, MailsNext
  <2>2. splitMbox(lines) = Append(end.out, end.cur)
    BY <1>4, <1>9
  <2>3. Append(end.out, end.cur) \in Seq(Seq(Line))
    BY <1>5
  <2> QED BY <1>6, <1>8, <2>1, <2>2, <2>3
<1>10. CASE ~HasText(end.cur)
  <2>1. LinesOf(end.cur, "text") = {} /\ LinesOf(end.cur, "from") = {}
    BY <1>10 DEF HasText, LinesOf
  <2>2. Cardinality(LinesOf(end.cur, "text")) = 0 /\ Cardinality(LinesOf(end.cur, "from")) = 0
    BY <2>1, FS_EmptySet
  <2>3. splitMbox(lines) = end.out
    BY <1>4, <1>10
  <2> QED BY <1>5, <1>6, <1>7, <1>8, <2>2, <2>3
<1> QED BY <1>9, <1>10

(* Lists of items: their numbers were given, equal numbers are of equal    *)
(* messages, what is reported stored is stored.                            *)
ItemStatuses == {"pending", "importing", "imported", "duplicate", "error"}
RunT == [on : BOOLEAN, left : Seq(Item)]
KeptT == [Targets -> SUBSET Seq(Line)]
IdsUpto(its, n) == \A i \in DOMAIN its : its[i].id <= n
SameMail(xs, ys) ==
  \A i \in DOMAIN xs : \A j \in DOMAIN ys : xs[i].id = ys[j].id => xs[i].mail = ys[j].mail
Told(its, k) ==
  \A i \in DOMAIN its : its[i].status \in {"imported", "duplicate"} =>
    \E t \in Targets : its[i].mail \in k[t]
NoneImporting(its) == \A i \in DOMAIN its : its[i].status # "importing"
OnlyImporting(its, n) == \A i \in DOMAIN its : its[i].status = "importing" => its[i].id = n

ImportTyped ==
  /\ target \in Targets /\ shownImp \in BOOLEAN /\ items \in Seq(Item)
  /\ reading \in BOOLEAN /\ reads \subseteq Batch /\ run \in RunT /\ summary \in BOOLEAN
  /\ kept \in KeptT /\ nextId \in Nat /\ chosen \in 0..MaxFiles /\ moves \in 0..MaxMoves

(* The items and the run under way: the run holds what is left of a list   *)
(* that was the items', and only its first is being imported.              *)
ItemsSound(its, r, k, n) ==
  /\ IdsUpto(its, n) /\ IdsUpto(r.left, n)
  /\ SameMail(its, its) /\ SameMail(its, r.left)
  /\ r.on <=> r.left # <<>>
  /\ IF r.on THEN OnlyImporting(its, r.left[1].id) ELSE NoneImporting(its)
  /\ Told(its, k)

(* The inductive invariant of the import dialog. *)
ImportInv == ImportTyped /\ ItemsSound(items, run, kept, nextId)

(* What an item of the list is. *)
LEMMA ItemFields ==
  ASSUME NEW its \in Seq(Item), NEW i \in DOMAIN its
  PROVE  its[i] \in Item /\ its[i].id \in Nat /\ its[i].mail \in Seq(Line)
         /\ its[i].status \in ItemStatuses
<1>1. its[i] \in Item
  OBVIOUS
<1> QED BY <1>1 DEF Item, ItemStatuses

(* Marking changes the statuses only. *)
LEMMA MarkedFacts ==
  ASSUME NEW its \in Seq(Item), NEW n, NEW st \in ItemStatuses
  PROVE  /\ Marked(its, n, st) \in Seq(Item) /\ DOMAIN Marked(its, n, st) = DOMAIN its
         /\ \A i \in DOMAIN its :
              /\ Marked(its, n, st)[i].id = its[i].id
              /\ Marked(its, n, st)[i].mail = its[i].mail
              /\ its[i].id = n => Marked(its, n, st)[i].status = st
              /\ its[i].id # n => Marked(its, n, st)[i].status = its[i].status
<1> DEFINE e(i) == IF its[i].id = n THEN [its[i] EXCEPT !.status = st] ELSE its[i]
           w == Marked(its, n, st)
<1>1. w = [i \in DOMAIN its |-> e(i)]
  BY DEF Marked
<1>2. \A i \in DOMAIN its :
        /\ e(i) \in Item /\ e(i).id = its[i].id /\ e(i).mail = its[i].mail
        /\ its[i].id = n => e(i).status = st
        /\ its[i].id # n => e(i).status = its[i].status
  <2> SUFFICES ASSUME NEW i \in DOMAIN its
      PROVE /\ e(i) \in Item /\ e(i).id = its[i].id /\ e(i).mail = its[i].mail
            /\ its[i].id = n => e(i).status = st
            /\ its[i].id # n => e(i).status = its[i].status
    OBVIOUS
  <2>1. its[i] \in Item
    OBVIOUS
  <2>2. CASE its[i].id = n
    <3>1. e(i) = [its[i] EXCEPT !.status = st]
      BY <2>2
    <3>2. [its[i] EXCEPT !.status = st] \in Item
          /\ [its[i] EXCEPT !.status = st].id = its[i].id
          /\ [its[i] EXCEPT !.status = st].mail = its[i].mail
          /\ [its[i] EXCEPT !.status = st].status = st
      BY <2>1 DEF Item, ItemStatuses
    <3> QED BY <2>2, <3>1, <3>2
  <2>3. CASE its[i].id # n
    BY <2>1, <2>3
  <2> QED BY <2>2, <2>3
<1> HIDE DEF e
<1>3. DOMAIN its = 1..Len(its) /\ Len(its) \in Nat
  OBVIOUS
<1>4. w \in [1..Len(its) -> Item]
  BY <1>1, <1>2, <1>3
<1>5. w \in Seq(Item) /\ DOMAIN w = DOMAIN its
  BY <1>3, <1>4
<1>6. \A i \in DOMAIN its : w[i] = e(i)
  BY <1>1
<1> HIDE DEF w
<1> QED BY <1>2, <1>5, <1>6 DEF w

(* A list of entries of another one is as good as that one. *)
LEMMA PartKeeps ==
  ASSUME NEW xs, NEW ys, \A m \in DOMAIN ys : \E i \in DOMAIN xs : ys[m] = xs[i], NEW n, NEW k,
         NEW zs
  PROVE  /\ IdsUpto(xs, n) => IdsUpto(ys, n)
         /\ SameMail(xs, xs) => SameMail(ys, ys)
         /\ SameMail(zs, xs) => SameMail(zs, ys)
         /\ NoneImporting(xs) => NoneImporting(ys)
         /\ Told(xs, k) => Told(ys, k)
<1>1. ASSUME IdsUpto(xs, n) PROVE IdsUpto(ys, n)
  BY <1>1 DEF IdsUpto
<1>2. ASSUME SameMail(xs, xs) PROVE SameMail(ys, ys)
  <2> SUFFICES ASSUME NEW i \in DOMAIN ys, NEW j \in DOMAIN ys, ys[i].id = ys[j].id
      PROVE ys[i].mail = ys[j].mail
    BY DEF SameMail
  <2>1. PICK p \in DOMAIN xs : ys[i] = xs[p]
    OBVIOUS
  <2>2. PICK q \in DOMAIN xs : ys[j] = xs[q]
    OBVIOUS
  <2> QED BY <1>2, <2>1, <2>2 DEF SameMail
<1>3. ASSUME SameMail(zs, xs) PROVE SameMail(zs, ys)
  <2> SUFFICES ASSUME NEW i \in DOMAIN zs, NEW j \in DOMAIN ys, zs[i].id = ys[j].id
      PROVE zs[i].mail = ys[j].mail
    BY DEF SameMail
  <2>1. PICK q \in DOMAIN xs : ys[j] = xs[q]
    OBVIOUS
  <2> QED BY <1>3, <2>1 DEF SameMail
<1>4. ASSUME NoneImporting(xs) PROVE NoneImporting(ys)
  BY <1>4 DEF NoneImporting
<1>5. ASSUME Told(xs, k) PROVE Told(ys, k)
  BY <1>5 DEF Told
<1> QED BY <1>1, <1>2, <1>3, <1>4, <1>5

(* The messages of a file, and the items made of them. *)
LEMMA MailsTyped ==
  ASSUME NEW f \in Files PROVE MailsOf(f) \in Seq(Seq(Line))
<1>1. f.lines \in Seq(Line)
  BY ImportAssumption
<1> DEFINE raw == splitMbox(f.lines)
           S == {i \in DOMAIN raw : HasText(raw[i])}
<1>2. raw \in Seq(Seq(Line))
  BY <1>1, SplitLosesNothing
<1>3. MailsOf(f) = IF f.mbox THEN Filtered(raw, S) ELSE <<f.lines>>
  BY DEF MailsOf
<1>4. S \in SUBSET DOMAIN raw
  OBVIOUS
<1> HIDE DEF raw, S
<1>5. Filtered(raw, S) \in Seq(Seq(Line))
  BY <1>2, <1>4, FilteredPlaces
<1>6. <<f.lines>> \in Seq(Seq(Line))
  BY <1>1
<1> QED BY <1>3, <1>5, <1>6

(* The items made of a file are numbered in order, from the last number *)
(* on.                                                                  *)
LEMMA NewItemsTyped ==
  ASSUME NEW ms \in Seq(Seq(Line)), nextId \in Nat
  PROVE  /\ NewItems(ms) \in Seq(Item) /\ Len(NewItems(ms)) \in Nat /\ Len(NewItems(ms)) = Len(ms)
         /\ \A i \in DOMAIN NewItems(ms) : /\ i \in 1..Len(NewItems(ms))
                                           /\ NewItems(ms)[i].id = nextId + i
                                           /\ NewItems(ms)[i].status = "pending"
<1> DEFINE w == NewItems(ms)
<1>1. DOMAIN ms = 1..Len(ms) /\ Len(ms) \in Nat
  OBVIOUS
<1>2. w = [i \in DOMAIN ms |-> parseRFC822(ms[i], nextId + i)]
  BY DEF NewItems
<1>3. \A i \in DOMAIN ms : ms[i] \in Seq(Line) /\ nextId + i \in Nat
  BY <1>1
<1>4. \A i \in DOMAIN ms : /\ parseRFC822(ms[i], nextId + i) \in Item
                           /\ parseRFC822(ms[i], nextId + i).id = nextId + i
                           /\ parseRFC822(ms[i], nextId + i).status = "pending"
  BY <1>3 DEF parseRFC822, Item
<1>5. w \in [1..Len(ms) -> Item]
  BY <1>1, <1>2, <1>4
<1>6. \A i \in DOMAIN ms : w[i] = parseRFC822(ms[i], nextId + i)
  BY <1>2
<1> HIDE DEF w
<1>7. w \in Seq(Item) /\ DOMAIN w = 1..Len(ms)
  <2>1. PICK n \in Nat : n = Len(ms)
    BY <1>1
  <2>2. w \in [1..n -> Item]
    BY <1>5, <2>1
  <2>3. w \in Seq(Item) /\ DOMAIN w = 1..n
    BY <2>2
  <2> QED BY <2>1, <2>3
<1>8. Len(w) \in Nat /\ DOMAIN w = 1..Len(w) /\ DOMAIN w = DOMAIN ms /\ Len(w) = Len(ms)
  BY <1>1, <1>7
<1> QED BY <1>4, <1>6, <1>7, <1>8 DEF w

(* What a list is marked with: the same messages under the same numbers.   *)
LEMMA MarkedKeeps ==
  ASSUME NEW its \in Seq(Item), NEW n, NEW st \in ItemStatuses, NEW m, NEW zs
  PROVE  LET w == Marked(its, n, st)
         IN /\ IdsUpto(its, m) => IdsUpto(w, m)
            /\ SameMail(its, its) => SameMail(w, w)
            /\ SameMail(its, zs) => SameMail(w, zs)
<1> DEFINE w == Marked(its, n, st)
<1>1. /\ DOMAIN w = DOMAIN its
      /\ \A i \in DOMAIN its : w[i].id = its[i].id /\ w[i].mail = its[i].mail
  BY MarkedFacts
<1> HIDE DEF w
<1>2. ASSUME IdsUpto(its, m) PROVE IdsUpto(w, m)
  BY <1>1, <1>2 DEF IdsUpto
<1>3. ASSUME SameMail(its, its) PROVE SameMail(w, w)
  BY <1>1, <1>3 DEF SameMail
<1>4. ASSUME SameMail(its, zs) PROVE SameMail(w, zs)
  BY <1>1, <1>4 DEF SameMail
<1> QED BY <1>2, <1>3, <1>4 DEF w

(* The item under way gets its answer: none is "importing" then, and what  *)
(* is reported stored is, the item's own message included.                 *)
LEMMA ItemAnswered ==
  ASSUME NEW its \in Seq(Item), NEW it, NEW k, NEW k2, NEW st \in {"imported", "duplicate",
         "error"},
         OnlyImporting(its, it.id), Told(its, k), \A t \in Targets : k[t] \subseteq k2[t],
         \A i \in DOMAIN its : its[i].id = it.id => its[i].mail = it.mail,
         st # "error" => \E t \in Targets : it.mail \in k2[t]
  PROVE  NoneImporting(Marked(its, it.id, st)) /\ Told(Marked(its, it.id, st), k2)
<1> DEFINE w == Marked(its, it.id, st)
<1>1. st \in ItemStatuses
  BY DEF ItemStatuses
<1>2. /\ DOMAIN w = DOMAIN its
      /\ \A i \in DOMAIN its :
           /\ w[i].id = its[i].id /\ w[i].mail = its[i].mail
           /\ its[i].id = it.id => w[i].status = st
           /\ its[i].id # it.id => w[i].status = its[i].status
  BY <1>1, MarkedFacts
<1> HIDE DEF w
<1>3. NoneImporting(w)
  BY <1>2 DEF NoneImporting, OnlyImporting
<1>4. Told(w, k2)
  <2> SUFFICES ASSUME NEW i \in DOMAIN w, w[i].status \in {"imported", "duplicate"}
      PROVE \E t \in Targets : w[i].mail \in k2[t]
    BY DEF Told
  <2>1. CASE its[i].id = it.id
    BY <1>2, <2>1
  <2>2. CASE its[i].id # it.id
    <3>1. \E t \in Targets : its[i].mail \in k[t]
      BY <1>2, <2>2 DEF Told
    <3> QED BY <1>2, <3>1
  <2> QED BY <2>1, <2>2
<1> QED BY <1>3, <1>4 DEF w

(* The next item is taken up: it is the only one under way.                *)
LEMMA TakenUp ==
  ASSUME NEW its \in Seq(Item), NEW n, NEW k, NoneImporting(its), Told(its, k)
  PROVE  OnlyImporting(Marked(its, n, "importing"), n) /\ Told(Marked(its, n, "importing"), k)
<1> DEFINE w == Marked(its, n, "importing")
<1>1. "importing" \in ItemStatuses
  BY DEF ItemStatuses
<1>2. /\ DOMAIN w = DOMAIN its
      /\ \A i \in DOMAIN its :
           /\ w[i].id = its[i].id /\ w[i].mail = its[i].mail
           /\ its[i].id = n => w[i].status = "importing"
           /\ its[i].id # n => w[i].status = its[i].status
  BY <1>1, MarkedFacts
<1> HIDE DEF w
<1>3. OnlyImporting(w, n)
  BY <1>2 DEF NoneImporting, OnlyImporting
<1>4. Told(w, k)
  BY <1>2 DEF Told
<1> QED BY <1>3, <1>4 DEF w

(* What is left of the run after its first item. *)
LEMMA RestOf ==
  ASSUME NEW left \in Seq(Item), left # <<>>
  PROVE  /\ Head(left) = left[1] /\ 1 \in DOMAIN left /\ left[1] \in Item
         /\ Tail(left) \in Seq(Item)
         /\ \A m \in DOMAIN Tail(left) : \E i \in DOMAIN left : Tail(left)[m] = left[i]
<1>1. Len(left) \in Nat /\ Len(left) >= 1 /\ DOMAIN left = 1..Len(left)
  OBVIOUS
<1>2. Head(left) = left[1] /\ 1 \in DOMAIN left /\ left[1] \in Item
  BY <1>1
<1>3. Tail(left) \in Seq(Item)
  OBVIOUS
<1>4. ASSUME NEW m \in DOMAIN Tail(left)
      PROVE  \E i \in DOMAIN left : Tail(left)[m] = left[i]
  <2>1. m \in 1..(Len(left) - 1) /\ Tail(left)[m] = left[m + 1]
    BY <1>1
  <2>2. m + 1 \in DOMAIN left
    BY <1>1, <2>1
  <2> QED BY <2>1, <2>2
<1> QED BY <1>2, <1>3, <1>4

(* What is left to import, and the items when the first of it is answered. *)
RunOf(rest) == [on |-> rest # <<>>, left |-> rest]
AfterItem(its, left, st) ==
  LET w == Marked(its, left[1].id, st)
  IN IF Tail(left) = <<>> THEN w ELSE Marked(w, Head(Tail(left)).id, "importing")

(* The run goes on to its next item, or ends. *)
LEMMA Advance ==
  ASSUME NEW its \in Seq(Item), NEW r \in RunT, NEW k, NEW k2, NEW n, NEW st \in {"imported",
         "duplicate", "error"},
         ItemsSound(its, r, k, n), r.on, \A t \in Targets : k[t] \subseteq k2[t],
         st # "error" => \E t \in Targets : r.left[1].mail \in k2[t]
  PROVE  /\ AfterItem(its, r.left, st) \in Seq(Item) /\ RunOf(Tail(r.left)) \in RunT
         /\ ItemsSound(AfterItem(its, r.left, st), RunOf(Tail(r.left)), k2, n)
<1> DEFINE w == Marked(its, r.left[1].id, st)
           rest == Tail(r.left)
           r2 == RunOf(rest)
           its2 == AfterItem(its, r.left, st)
<1>1. r.left \in Seq(Item) /\ r.left # <<>>
  BY DEF RunT, ItemsSound
<1>2. /\ 1 \in DOMAIN r.left /\ r.left[1] \in Item /\ rest \in Seq(Item)
      /\ \A m \in DOMAIN rest : \E i \in DOMAIN r.left : rest[m] = r.left[i]
  BY <1>1, RestOf
<1>3. st \in ItemStatuses /\ "importing" \in ItemStatuses
  BY DEF ItemStatuses
<1>4. /\ IdsUpto(its, n) /\ IdsUpto(r.left, n) /\ SameMail(its, its) /\ SameMail(its, r.left)
      /\ OnlyImporting(its, r.left[1].id) /\ Told(its, k)
  BY DEF ItemsSound
<1>5. IdsUpto(rest, n) /\ SameMail(its, rest)
  BY <1>2, <1>4, PartKeeps
<1>6. \A i \in DOMAIN its : its[i].id = r.left[1].id => its[i].mail = r.left[1].mail
  BY <1>2, <1>4 DEF SameMail
<1>7. w \in Seq(Item)
  BY <1>3, MarkedFacts
<1>8. IdsUpto(w, n) /\ SameMail(w, w) /\ SameMail(w, rest)
  BY <1>3, <1>4, <1>5, MarkedKeeps
<1>9. NoneImporting(w) /\ Told(w, k2)
  BY <1>4, <1>6, ItemAnswered
<1>10. r2 \in RunT /\ r2.left = rest /\ (r2.on <=> rest # <<>>)
  BY <1>2 DEF RunT, RunOf
<1>11. its2 = IF rest = <<>> THEN w ELSE Marked(w, Head(rest).id, "importing")
  BY DEF AfterItem
<1> SUFFICES its2 \in Seq(Item) /\ r2 \in RunT /\ ItemsSound(its2, r2, k2, n)
  OBVIOUS
<1> HIDE DEF w, rest, r2, its2
<1>12. CASE rest = <<>>
  <2>1. its2 = w /\ ~r2.on
    BY <1>10, <1>11, <1>12
  <2> QED BY <1>5, <1>7, <1>8, <1>9, <1>10, <2>1, <1>12 DEF ItemsSound
<1>13. CASE rest # <<>>
  <2> DEFINE v == Marked(w, rest[1].id, "importing")
  <2>1. its2 = v /\ r2.on
    BY <1>2, <1>10, <1>11, <1>13, RestOf
  <2>2. v \in Seq(Item)
    BY <1>3, <1>7, MarkedFacts
  <2>3. IdsUpto(v, n) /\ SameMail(v, v) /\ SameMail(v, rest)
    BY <1>3, <1>7, <1>8, MarkedKeeps
  <2>4. OnlyImporting(v, rest[1].id) /\ Told(v, k2)
    BY <1>7, <1>9, TakenUp
  <2> HIDE DEF v
  <2> QED BY <1>5, <1>10, <2>1, <2>2, <2>3, <2>4, <1>13 DEF ItemsSound
<1> QED BY <1>12, <1>13

(* An upload is answered. *)
LEMMA AnswerKeeps ==
  ASSUME ImportInv, ImportAnswer PROVE ImportInv'
<1> USE DEF ImportInv
<1> DEFINE it == Head(run.left)
           added == [kept EXCEPT ![target] = @ \cup {it.mail}]
           rest == Tail(run.left)
<1>1. /\ target \in Targets /\ items \in Seq(Item) /\ run \in RunT /\ kept \in KeptT
      /\ ItemsSound(items, run, kept, nextId)
  BY DEF ImportTyped
<1>2. run.on /\ UNCHANGED <<target, shownImp, reading, reads, nextId, chosen, moves>>
  BY DEF ImportAnswer
<1>3. run.left \in Seq(Item) /\ run.left # <<>>
  BY <1>1, <1>2 DEF RunT, ItemsSound
<1>4. it = run.left[1] /\ it \in Item
  BY <1>3, RestOf
<1>5. it.mail \in Seq(Line)
  BY <1>4 DEF Item
<1>6. added \in KeptT /\ it.mail \in added[target] /\ \A t \in Targets : kept[t] \subseteq added[t]
  <2> HIDE DEF it
  <2> QED BY <1>1, <1>5 DEF KeptT
<1>7. PICK st \in {"imported", "duplicate", "error"} :
        /\ kept' = kept \/ kept' = added
        /\ st # "error" => it.mail \in kept'[target]
        /\ NextItem(Marked(items, it.id, st))
  <2> HIDE DEF added
  <2>1. \/ kept' = added /\ it.mail \notin kept[target] /\ NextItem(Marked(items, it.id, "imported"))
        \/ kept' = kept /\ it.mail \in kept[target] /\ NextItem(Marked(items, it.id, "duplicate"))
        \/ kept' \in {kept, added} /\ NextItem(Marked(items, it.id, "error"))
    BY DEF ImportAnswer, added
  <2> HIDE DEF it
  <2>2. CASE kept' = added /\ NextItem(Marked(items, it.id, "imported"))
    BY <1>6, <2>2
  <2>3. CASE kept' = kept /\ it.mail \in kept[target] /\ NextItem(Marked(items, it.id, "duplicate"))
    BY <2>3
  <2>4. CASE kept' \in {kept, added} /\ NextItem(Marked(items, it.id, "error"))
    BY <2>4
  <2> QED BY <2>1, <2>2, <2>3, <2>4
<1>8. kept' \in KeptT /\ \A t \in Targets : kept[t] \subseteq kept'[t]
  <2> HIDE DEF added, it
  <2> QED BY <1>1, <1>6, <1>7
<1>9. /\ run' = [on |-> rest # <<>>, left |-> rest] /\ summary' \in BOOLEAN
      /\ items' = IF rest = <<>> THEN Marked(items, it.id, st)
                  ELSE Marked(Marked(items, it.id, st), Head(rest).id, "importing")
  <2> HIDE DEF it
  <2> QED BY <1>7 DEF NextItem
<1>10. st # "error" => \E t \in Targets : run.left[1].mail \in kept'[t]
  BY <1>1, <1>4, <1>7
<1> HIDE DEF it, added
<1>11. items' = AfterItem(items, run.left, st) /\ run' = RunOf(Tail(run.left))
  BY <1>4, <1>9 DEF AfterItem, RunOf
<1> HIDE DEF rest
<1>12. run.on /\ \A t \in Targets : kept[t] \subseteq kept'[t]
  BY <1>2, <1>8
<1>13. /\ AfterItem(items, run.left, st) \in Seq(Item) /\ RunOf(Tail(run.left)) \in RunT
       /\ ItemsSound(AfterItem(items, run.left, st), RunOf(Tail(run.left)), kept', nextId)
  BY <1>1, <1>10, <1>12, Advance
<1>14. items' \in Seq(Item) /\ run' \in RunT /\ ItemsSound(items', run', kept', nextId)
  BY <1>11, <1>13
<1> QED BY <1>2, <1>8, <1>9, <1>14 DEF ImportTyped

(* An import starts on all items, the ones of an earlier import included. *)
LEMMA StartKeeps ==
  ASSUME ImportInv, startImport PROVE ImportInv'
<1> USE DEF ImportInv
<1>1. /\ items \in Seq(Item) /\ run \in RunT /\ ItemsSound(items, run, kept, nextId)
      /\ moves \in 0..MaxMoves /\ MaxMoves \in Nat
  BY ImportAssumption DEF ImportTyped
<1>2. /\ items # <<>> /\ ~run.on /\ run' = [on |-> TRUE, left |-> items]
      /\ items' = Marked(items, Head(items).id, "importing")
      /\ UNCHANGED <<target, shownImp, reading, reads, summary, kept, nextId, chosen>>
      /\ moves < MaxMoves /\ moves' = moves + 1
  BY DEF startImport, Move
<1>3. moves' \in 0..MaxMoves
  BY <1>1, <1>2
<1>4. run' \in RunT /\ run'.on /\ run'.left = items
  BY <1>1, <1>2 DEF RunT
<1>5. items' = Marked(items, items[1].id, "importing")
  BY <1>1, <1>2, RestOf
<1>6. /\ IdsUpto(items, nextId) /\ SameMail(items, items) /\ NoneImporting(items) /\ Told(items, kept)
  BY <1>1, <1>2 DEF ItemsSound
<1>7. "importing" \in ItemStatuses
  BY DEF ItemStatuses
<1>8. items' \in Seq(Item)
  BY <1>1, <1>5, <1>7, MarkedFacts
<1>9. IdsUpto(items', nextId) /\ SameMail(items', items') /\ SameMail(items', items)
  BY <1>1, <1>5, <1>6, <1>7, MarkedKeeps
<1>10. OnlyImporting(items', items[1].id) /\ Told(items', kept)
  BY <1>1, <1>5, <1>6, TakenUp
<1>11. ItemsSound(items', run', kept, nextId)
  BY <1>2, <1>4, <1>6, <1>9, <1>10 DEF ItemsSound
<1> QED BY <1>2, <1>3, <1>4, <1>8, <1>11 DEF ImportTyped

(* Every entry of two lists put together is one of the first or of the     *)
(* second.                                                                 *)
LEMMA Joined ==
  ASSUME NEW xs \in Seq(Item), NEW ys \in Seq(Item)
  PROVE  /\ xs \o ys \in Seq(Item)
         /\ \A i \in DOMAIN (xs \o ys) : \/ \E p \in DOMAIN xs : (xs \o ys)[i] = xs[p]
                                         \/ \E q \in DOMAIN ys : (xs \o ys)[i] = ys[q]
<1>1. xs \o ys \in Seq(Item)
  OBVIOUS
<1>2. /\ Len(xs) \in Nat /\ Len(ys) \in Nat /\ DOMAIN xs = 1..Len(xs) /\ DOMAIN ys = 1..Len(ys)
      /\ DOMAIN (xs \o ys) = 1..(Len(xs) + Len(ys))
  OBVIOUS
<1>3. ASSUME NEW i \in DOMAIN (xs \o ys)
      PROVE  \/ \E p \in DOMAIN xs : (xs \o ys)[i] = xs[p]
             \/ \E q \in DOMAIN ys : (xs \o ys)[i] = ys[q]
  <2>1. i \in 1..(Len(xs) + Len(ys))
    BY <1>2, <1>3
  <2>2. CASE i <= Len(xs)
    <3>1. i \in DOMAIN xs /\ (xs \o ys)[i] = xs[i]
      BY <1>2, <2>1, <2>2
    <3> QED BY <3>1
  <2>3. CASE ~(i <= Len(xs))
    <3>1. i - Len(xs) \in DOMAIN ys /\ (xs \o ys)[i] = ys[i - Len(xs)]
      BY <1>2, <2>1, <2>3
    <3> QED BY <3>1
  <2> QED BY <2>2, <2>3
<1> QED BY <1>1, <1>3

(* The items of a file that was read are put behind the others, under      *)
(* numbers that none has: nothing is mistaken for another message, even    *)
(* while an import runs.                                                   *)
LEMMA ItemsAdded ==
  ASSUME NEW its \in Seq(Item), NEW new \in Seq(Item), NEW r \in RunT, NEW k, NEW n \in Nat,
         ItemsSound(its, r, k, n),
         \A i \in DOMAIN new : /\ i \in 1..Len(new) /\ new[i].id = n + i
                               /\ new[i].status = "pending"
  PROVE  its \o new \in Seq(Item) /\ ItemsSound(its \o new, r, k, n + Len(new))
<1> DEFINE w == its \o new
           m == n + Len(new)
<1>1. /\ w \in Seq(Item)
      /\ \A i \in DOMAIN w : (\E p \in DOMAIN its : w[i] = its[p]) \/ (\E q \in DOMAIN new : w[i] = new[q])
  BY Joined
<1>2. m \in Nat /\ n <= m /\ Len(new) \in Nat
  OBVIOUS
<1>3. /\ IdsUpto(its, n) /\ IdsUpto(r.left, n) /\ SameMail(its, its) /\ SameMail(its, r.left)
      /\ (r.on <=> r.left # <<>>) /\ Told(its, k)
      /\ IF r.on THEN OnlyImporting(its, r.left[1].id) ELSE NoneImporting(its)
  BY DEF ItemsSound
<1>4. r.left \in Seq(Item)
  BY DEF RunT
<1>5. \A p \in DOMAIN its : its[p].id \in Nat /\ its[p].id <= n
  BY <1>3, ItemFields DEF IdsUpto
<1>6. \A p \in DOMAIN r.left : r.left[p].id \in Nat /\ r.left[p].id <= n
  BY <1>3, <1>4, ItemFields DEF IdsUpto
<1>7. \A q \in DOMAIN new : /\ new[q].id \in Nat /\ new[q].id > n /\ new[q].id <= m
                            /\ new[q].status = "pending"
  BY <1>2
<1>8. \A p, q \in DOMAIN new : new[p].id = new[q].id => p = q
  BY <1>2
<1> HIDE DEF w, m
<1>9. IdsUpto(w, m)
  BY <1>1, <1>2, <1>5, <1>7 DEF IdsUpto
<1>10. IdsUpto(r.left, m)
  BY <1>2, <1>6 DEF IdsUpto
<1>11. SameMail(w, w)
  <2> SUFFICES ASSUME NEW i \in DOMAIN w, NEW j \in DOMAIN w, w[i].id = w[j].id
      PROVE w[i].mail = w[j].mail
    BY DEF SameMail
  <2>1. CASE \E p \in DOMAIN its : w[i] = its[p]
    <3>1. PICK p \in DOMAIN its : w[i] = its[p]
      BY <2>1
    <3>2. PICK q \in DOMAIN its : w[j] = its[q]
      BY <1>1, <1>2, <1>5, <1>7, <3>1
    <3> QED BY <1>3, <3>1, <3>2 DEF SameMail
  <2>2. CASE \E q \in DOMAIN new : w[i] = new[q]
    <3>1. PICK p \in DOMAIN new : w[i] = new[p]
      BY <2>2
    <3>2. w[j].id \in Nat /\ w[j].id > n
      BY <1>7, <3>1
    <3>3. ~ \E q \in DOMAIN its : w[j] = its[q]
      BY <1>5, <3>2
    <3>4. PICK q \in DOMAIN new : w[j] = new[q]
      BY <1>1, <3>3
    <3> QED BY <1>8, <3>1, <3>4
  <2> QED BY <1>1, <2>1, <2>2
<1>12. SameMail(w, r.left)
  <2> SUFFICES ASSUME NEW i \in DOMAIN w, NEW j \in DOMAIN r.left, w[i].id = r.left[j].id
      PROVE w[i].mail = r.left[j].mail
    BY DEF SameMail
  <2>1. PICK p \in DOMAIN its : w[i] = its[p]
    BY <1>1, <1>2, <1>6, <1>7
  <2> QED BY <1>3, <2>1 DEF SameMail
<1>13. IF r.on THEN OnlyImporting(w, r.left[1].id) ELSE NoneImporting(w)
  <2>1. CASE r.on
    BY <1>1, <1>3, <1>7, <2>1 DEF OnlyImporting
  <2>2. CASE ~r.on
    BY <1>1, <1>3, <1>7, <2>2 DEF NoneImporting
  <2> QED BY <2>1, <2>2
<1>14. Told(w, k)
  BY <1>1, <1>3, <1>7 DEF Told
<1>15. w \in Seq(Item) /\ ItemsSound(w, r, k, m)
  BY <1>1, <1>3, <1>9, <1>10, <1>11, <1>12, <1>13, <1>14 DEF ItemsSound
<1> QED BY <1>15 DEF w, m

(* A batch of files, and the messages it has after one more of them. *)
LEMMA BatchFields ==
  ASSUME ImportTyped, NEW w \in reads
  PROVE  /\ w \in Batch /\ w.no \in Nat /\ w.left \in Seq(Files) /\ w.mails \in Seq(Seq(Line))
         /\ Len(w.left) > 0 => WithNext(w) \in Seq(Seq(Line)) /\ Len(WithNext(w)) \in Nat
<1>1. w \in Batch /\ w.no \in Nat /\ w.left \in Seq(Files) /\ w.mails \in Seq(Seq(Line))
  BY DEF ImportTyped, Batch
<1>2. ASSUME Len(w.left) > 0 PROVE WithNext(w) \in Seq(Seq(Line)) /\ Len(WithNext(w)) \in Nat
  <2>1. Head(w.left) \in Files
    BY <1>1, <1>2
  <2>2. MailsOf(Head(w.left)) \in Seq(Seq(Line))
    BY <2>1, MailsTyped
  <2> DEFINE x == MailsOf(Head(w.left))
             y == w.mails
  <2> HIDE DEF x, y
  <2>3. x \in Seq(Seq(Line)) /\ y \in Seq(Seq(Line))
    BY <1>1, <2>2 DEF x, y
  <2>4. y \o x \in Seq(Seq(Line)) /\ Len(y \o x) \in Nat
    BY <2>3
  <2> QED BY <2>4 DEF WithNext, x, y
<1> QED BY <1>1, <1>2

(* Files are chosen. *)
LEMMA FilesChosen ==
  ASSUME ImportInv, NEW fs \in Seq(Files), handleFiles(fs)
  PROVE  ImportInv'
<1>1. /\ chosen + Len(fs) <= MaxFiles /\ chosen' = chosen + Len(fs) /\ reading' = TRUE
      /\ reads' = reads \cup {[no |-> chosen, left |-> fs, mails |-> <<>>]}
      /\ UNCHANGED <<items, nextId, moves, target, shownImp, run, summary, kept>>
  BY DEF handleFiles, OnlyItems
<1>2. chosen' \in 0..MaxFiles /\ chosen \in Nat
  BY <1>1, ImportAssumption DEF ImportInv, ImportTyped
<1>3. <<>> \in Seq(Seq(Line))
  OBVIOUS
<1>4. [no |-> chosen, left |-> fs, mails |-> <<>>] \in Batch
  BY <1>2, <1>3 DEF Batch
<1>5. reads' \subseteq Batch
  BY <1>1, <1>4 DEF ImportInv, ImportTyped
<1> QED BY <1>1, <1>2, <1>5 DEF ImportInv, ImportTyped

(* A file is read, and another follows it. *)
LEMMA FileKeeps ==
  ASSUME ImportInv, NEW w \in reads, FileRead(w)
  PROVE  ImportInv'
<1> DEFINE x == [w EXCEPT !.left = Tail(@), !.mails = WithNext(w)]
<1>1. /\ Len(w.left) > 1 /\ reads' = (reads \ {w}) \cup {x}
      /\ UNCHANGED <<items, nextId, reading, chosen, moves, target, shownImp, run, summary, kept>>
  BY DEF FileRead, OnlyItems
<1>2. w \in Batch /\ w.left \in Seq(Files) /\ Len(w.left) > 0 /\ w.left # <<>>
  BY <1>1, BatchFields DEF ImportInv
<1>3. Tail(w.left) \in Seq(Files) /\ WithNext(w) \in Seq(Seq(Line))
  BY <1>2, BatchFields DEF ImportInv
<1>4. x \in Batch
  BY <1>2, <1>3 DEF Batch
<1> HIDE DEF x
<1>5. reads' \subseteq Batch
  BY <1>1, <1>4 DEF ImportInv, ImportTyped
<1> QED BY <1>1, <1>5 DEF ImportInv, ImportTyped

(* The last file is read, or one of them fails. *)
LEMMA FilesKeep ==
  ASSUME ImportInv, NEW w \in reads, FilesRead(w)
  PROVE  ImportInv'
<1> DEFINE ms == WithNext(w)
           new == NewItems(ms)
<1>1. /\ reads' = reads \ {w} /\ reading' = FALSE
      /\ \/ Len(w.left) = 1 /\ items' = items \o new /\ nextId' = nextId + Len(ms)
         \/ UNCHANGED <<items, nextId>>
      /\ UNCHANGED <<chosen, moves, target, shownImp, run, summary, kept>>
  BY DEF FilesRead, OnlyItems
<1>2. /\ items \in Seq(Item) /\ run \in RunT /\ nextId \in Nat
      /\ ItemsSound(items, run, kept, nextId)
  BY DEF ImportInv, ImportTyped
<1>3. items' \in Seq(Item) /\ nextId' \in Nat /\ ItemsSound(items', run, kept, nextId')
  <2>1. CASE UNCHANGED <<items, nextId>>
    BY <1>2, <2>1
  <2>2. CASE Len(w.left) = 1 /\ items' = items \o new /\ nextId' = nextId + Len(ms)
    <3>1. Len(w.left) > 0
      BY <2>2
    <3>2. ms \in Seq(Seq(Line)) /\ Len(ms) \in Nat
      BY <3>1, BatchFields DEF ImportInv
    <3> HIDE DEF ms
    <3>3. /\ new \in Seq(Item) /\ Len(new) \in Nat /\ Len(new) = Len(ms)
          /\ \A i \in DOMAIN new : /\ i \in 1..Len(new) /\ new[i].id = nextId + i
                                   /\ new[i].status = "pending"
      BY <1>2, <3>2, NewItemsTyped
    <3> HIDE DEF new
    <3>4. items \o new \in Seq(Item) /\ ItemsSound(items \o new, run, kept, nextId + Len(new))
      BY <1>2, <3>3, ItemsAdded
    <3> QED BY <1>2, <2>2, <3>2, <3>3, <3>4
  <2> QED BY <1>1, <2>1, <2>2
<1>4. reads' \subseteq Batch
  BY <1>1 DEF ImportInv, ImportTyped
<1> QED BY <1>1, <1>3, <1>4 DEF ImportInv, ImportTyped

(* Entries are taken off the list, all of it or the one of a number. *)
LEMMA ListKeeps ==
  ASSUME ImportInv, ItemList PROVE ImportInv'
<1> USE DEF ImportInv
<1>1. /\ items \in Seq(Item) /\ run \in RunT /\ ItemsSound(items, run, kept, nextId)
      /\ moves \in 0..MaxMoves /\ MaxMoves \in Nat
  BY ImportAssumption DEF ImportTyped
<1>2. /\ moves < MaxMoves /\ moves' = moves + 1 /\ ~run.on
      /\ UNCHANGED <<target, shownImp, reading, reads, run, kept, nextId, chosen>>
      /\ summary' \in BOOLEAN
  BY DEF ItemList, clearAll, removeItem, Move, OnlyItems, ImportTyped
<1>3. moves' \in 0..MaxMoves
  BY <1>1, <1>2
<1>4. items' \in Seq(Item) /\ \A m \in DOMAIN items' : \E i \in DOMAIN items : items'[m] = items[i]
  <2>1. CASE clearAll
    <3>1. items' = <<>>
      BY <2>1 DEF clearAll
    <3> QED BY <3>1
  <2>2. CASE \E i \in DOMAIN items : removeItem(i)
    <3>1. PICK i \in DOMAIN items :
            items' = Filtered(items, {j \in DOMAIN items : items[j].id # items[i].id})
      BY <2>2 DEF removeItem
    <3> DEFINE S == {j \in DOMAIN items : items[j].id # items[i].id}
    <3>2. S \in SUBSET DOMAIN items /\ items' = Filtered(items, S)
      BY <3>1
    <3> HIDE DEF S
    <3>3. /\ Filtered(items, S) \in Seq(Item)
          /\ \E p \in [DOMAIN Filtered(items, S) -> S] :
               \A n \in DOMAIN Filtered(items, S) : Filtered(items, S)[n] = items[p[n]]
      BY <1>1, <3>2, FilteredPlaces
    <3>4. PICK p \in [DOMAIN items' -> S] : \A n \in DOMAIN items' : items'[n] = items[p[n]]
      BY <3>2, <3>3
    <3> QED BY <3>2, <3>3, <3>4
  <2> QED BY <2>1, <2>2 DEF ItemList
<1>5. /\ IdsUpto(items, nextId) /\ IdsUpto(run.left, nextId) /\ SameMail(items, items)
      /\ (run.on <=> run.left # <<>>) /\ NoneImporting(items) /\ Told(items, kept)
  BY <1>1, <1>2 DEF ItemsSound
<1>6. IdsUpto(items', nextId) /\ SameMail(items', items') /\ NoneImporting(items') /\ Told(items', kept)
  BY <1>4, <1>5, PartKeeps
<1>7. run.left = <<>> /\ SameMail(items', run.left)
  BY <1>2, <1>5 DEF SameMail
<1>8. ItemsSound(items', run, kept, nextId)
  BY <1>2, <1>5, <1>6, <1>7 DEF ItemsSound
<1> QED BY <1>2, <1>3, <1>4, <1>8 DEF ImportTyped

(* The dialog is closed, opened again empty, or gets another mailbox. *)
LEMMA DialogKeeps ==
  ASSUME ImportInv, ReopenImport \/ \E t \in Targets : SwitchTarget(t) PROVE ImportInv'
<1> USE DEF ImportInv
<1>1. /\ items \in Seq(Item) /\ run \in RunT /\ ItemsSound(items, run, kept, nextId)
      /\ moves \in 0..MaxMoves /\ MaxMoves \in Nat /\ target \in Targets
      /\ shownImp \in BOOLEAN /\ reading \in BOOLEAN /\ summary \in BOOLEAN
  BY ImportAssumption DEF ImportTyped
<1>2. /\ moves < MaxMoves /\ moves' = moves + 1
      /\ UNCHANGED <<reads, run, kept, nextId, chosen>>
  BY DEF ReopenImport, SwitchTarget, Move
<1>3. moves' \in 0..MaxMoves
  BY <1>1, <1>2
<1>4. CASE \E t \in Targets : SwitchTarget(t)
  <2>1. target' \in Targets /\ UNCHANGED <<shownImp, items, reading, summary>>
    BY <1>4 DEF SwitchTarget
  <2> QED BY <1>1, <1>2, <1>3, <2>1 DEF ImportTyped
<1>5. CASE ReopenImport
  <2>1. /\ ~run.on /\ target' = target /\ shownImp' \in BOOLEAN
        /\ (items' = <<>> \/ items' = items) /\ reading' \in BOOLEAN /\ summary' \in BOOLEAN
    BY <1>1, <1>5 DEF ReopenImport
  <2>2. items' \in Seq(Item) /\ ItemsSound(items', run, kept, nextId)
    <3>1. CASE items' = items
      BY <1>1, <3>1
    <3>2. CASE items' = <<>>
      <4>1. /\ IdsUpto(<<>>, nextId) /\ SameMail(<<>>, <<>>) /\ SameMail(<<>>, run.left)
            /\ NoneImporting(<<>>) /\ Told(<<>>, kept)
        BY DEF IdsUpto, SameMail, NoneImporting, Told
      <4>2. IdsUpto(run.left, nextId) /\ (run.on <=> run.left # <<>>)
        BY <1>1 DEF ItemsSound
      <4> QED BY <2>1, <3>2, <4>1, <4>2 DEF ItemsSound
    <3> QED BY <2>1, <3>1, <3>2
  <2> QED BY <1>1, <1>2, <1>3, <2>1, <2>2 DEF ImportTyped
<1> QED BY <1>4, <1>5

(* No step of the dialog breaks its invariant. *)
LEMMA ImportStep ==
  ASSUME ImportInv, [ImportNext]_importVars PROVE ImportInv'
<1>1. CASE UNCHANGED importVars
  BY <1>1 DEF importVars, ImportInv, ImportTyped
<1>2. CASE DropZone
  <2>1. PICK n \in 1..MaxFiles : \E fs \in [1..n -> Files] : handleFiles(fs)
    BY <1>2 DEF DropZone
  <2>2. n \in Nat
    BY ImportAssumption
  <2>3. PICK fs \in [1..n -> Files] : handleFiles(fs)
    BY <2>1
  <2>4. fs \in Seq(Files)
    BY <2>2
  <2> QED BY <2>3, <2>4, FilesChosen
<1>3. CASE ItemList
  BY <1>3, ListKeeps
<1>4. CASE ImportButtons
  BY <1>4, StartKeeps, DialogKeeps DEF ImportButtons
<1>5. CASE \E w \in reads : FileRead(w) \/ FilesRead(w)
  BY <1>5, FileKeeps, FilesKeep
<1>6. CASE ImportAnswer
  BY <1>6, AnswerKeeps
<1>7. CASE \E t \in Targets : SwitchTarget(t)
  BY <1>7, DialogKeeps
<1> QED BY <1>1, <1>2, <1>3, <1>4, <1>5, <1>6, <1>7 DEF ImportNext

(* An empty dialog satisfies the invariant. *)
LEMMA ImportStarts ==
  ASSUME ImportInit PROVE ImportInv
<1>1. /\ items = <<>> /\ run = [on |-> FALSE, left |-> <<>>] /\ run.left = <<>> /\ ~run.on
  BY DEF ImportInit
<1>2. /\ IdsUpto(<<>>, nextId) /\ SameMail(<<>>, <<>>) /\ NoneImporting(<<>>) /\ Told(<<>>, kept)
  BY DEF IdsUpto, SameMail, NoneImporting, Told
<1>3. ItemsSound(items, run, kept, nextId)
  BY <1>1, <1>2 DEF ItemsSound
<1>4. run \in RunT /\ items \in Seq(Item)
  BY <1>1 DEF RunT
<1>5. kept \in KeptT
  BY DEF ImportInit, KeptT
<1>6. /\ target \in Targets /\ shownImp = TRUE /\ reading = FALSE /\ reads = {} /\ summary = FALSE
      /\ nextId = 0 /\ chosen = 0 /\ moves = 0
  BY DEF ImportInit
<1>7. chosen \in 0..MaxFiles /\ moves \in 0..MaxMoves /\ nextId \in Nat
  BY <1>6, ImportAssumption
<1>8. ImportTyped
  BY <1>4, <1>5, <1>6, <1>7 DEF ImportTyped
<1> QED BY <1>8, <1>3, <1>6 DEF ImportInv

(* The invariant gives what the run checks; the splitting is right for     *)
(* every file, so for the ones being read.                                 *)
LEMMA ImportInvImplies ==
  ASSUME ImportInv PROVE ImportTypeOK /\ ImportTruthful
<1>1. ImportTypeOK
  BY DEF ImportInv, ImportTyped, ImportTypeOK, RunT, KeptT
<1>2. SplitKeepsLines
  <2> SUFFICES ASSUME NEW w \in reads, NEW i \in DOMAIN w.left
      PROVE LET lines == w.left[i].lines
                out == splitMbox(lines)
            IN /\ Cardinality(LinesAmong(out, "text")) = Cardinality(LinesOf(lines, "text"))
               /\ Cardinality(LinesAmong(out, "from")) >= Cardinality(LinesOf(lines, "esc"))
    BY DEF SplitKeepsLines
  <2>1. w.left \in Seq(Files)
    BY BatchFields DEF ImportInv
  <2>2. w.left[i].lines \in Seq(Line)
    BY <2>1, ImportAssumption
  <2> QED BY <2>2, SplitLosesNothing
<1>3. ImportTellsTruth
  <2> SUFFICES ASSUME NEW i \in DOMAIN items
      PROVE /\ items[i].status \in {"imported",
                                    "duplicate"} => \E t \in Targets : items[i].mail \in kept[t]
            /\ items[i].status = "importing" => run.on
    BY DEF ImportTellsTruth
  <2>1. Told(items, kept) /\ (IF run.on THEN TRUE ELSE NoneImporting(items))
    BY DEF ImportInv, ItemsSound
  <2>2. items[i].status \in {"imported",
                             "duplicate"} => \E t \in Targets : items[i].mail \in kept[t]
    BY <2>1 DEF Told
  <2>3. items[i].status = "importing" => run.on
    BY <2>1 DEF NoneImporting
  <2> QED BY <2>2, <2>3
<1> QED BY <1>1, <1>2, <1>3 DEF ImportTruthful

-----------------------------------------------------------------------------
(* The application: each behaviour is one of each part, of which all but   *)
(* one rest.                                                               *)

(* For any drafts, files, edits and other devices: a save the server would *)
(* accept was made from the row as it is now (handleSaveDraft), and an     *)
(* attachment taken off a form has no row any more and is in no message    *)
(* that was accepted (removeComposeAttachment).                            *)
THEOREM DraftsKept == ComposeSpec => [](NoLostDraftUpdate /\ RemovedNeverSent)
<1>1. ComposeInv => NoLostDraftUpdate /\ RemovedNeverSent
  BY ComposeInvImplies
<1> QED BY <1>1, ComposeInitInv, ComposeStep, PTL DEF ComposeSpec

(* For any contacts, mailboxes and other devices: a save of a contact that *)
(* the server would accept was made from the row as it is now              *)
(* (handleSaveContact).                                                    *)
THEOREM ContactsKept == AddressBookSpec => []NoLostContactUpdate
<1>1. AddressBookInv => NoLostContactUpdate
  BY AddressBookInvImplies
<1> QED BY <1>1, BookInit, BookStep, PTL DEF AddressBookSpec

(* For any items, pages and requests: a filter or an address rule that was *)
(* deleted does not return to the list it was deleted from, in whatever    *)
(* order the answers come (handleDeleteFilter, loadFilters).               *)
THEOREM FiltersStayDeleted == MailSettingsSpec => []NoGhostFilter
<1>1. SettingsInv => NoGhostFilter
  BY SettingsInvImplies
<1> QED BY <1>1, SettingsStart, SettingsStep, PTL DEF MailSettingsSpec

(* For any messages, mailboxes, folders, labels and waiting requests: the  *)
(* pane shows the message opened last, whatever order the answers come in, *)
(* what is quoted or edited was decrypted, and the badges of the sidebar   *)
(* count what their views list (openMessage, decryptMessage, Sidebar).     *)
THEOREM ViewKept == MailViewSpec => [](MailViewTypeOK /\ ViewConsistent)
<1> QED BY ViewInit, ViewStep, ViewInvImplies, PTL DEF MailViewSpec

(* For any accounts, tabs of forms and waiting handlers: at most one       *)
(* handler signs in, the key in memory is the one stored for the mailbox   *)
(* that is open, a pending second factor has the password it was asked     *)
(* with, and no account is listed twice (handleLogin, handleLogout,        *)
(* handleSwitchAccount).                                                   *)
THEOREM SessionKept == SessionSpec => [](SessionTypeOK /\ SessionConsistent)
<1> QED BY SessionStarts, SessionStep, SessionInvImplies, PTL DEF SessionSpec

(* For any files, of any length, and any mailboxes: the messages of a file *)
(* have its lines, and what is reported as stored is (splitMbox,           *)
(* startImport).                                                           *)
THEOREM ImportKept == ImportSpec => [](ImportTypeOK /\ ImportTruthful)
<1>1. ImportInit => ImportInv
  BY ImportStarts
<1>2. ImportInv /\ [ImportNext]_importVars => ImportInv'
  BY ImportStep
<1>3. ImportInv => ImportTypeOK /\ ImportTruthful
  BY ImportInvImplies
<1> QED BY <1>1, <1>2, <1>3, PTL DEF ImportSpec

(* A behaviour of the application is a behaviour of each part. *)
LEMMA PartsRun ==
  Init /\ [][Next]_webVars
    => ComposeSpec /\ AddressBookSpec /\ MailSettingsSpec /\ MailViewSpec /\ ImportSpec
<1>1. Init => ComposeInit /\ AddressBookInit /\ MailSettingsInit /\ MailViewInit /\ ImportInit
  BY DEF Init
<1>2. [Next]_webVars => [ComposeNext]_composeVars
  BY DEF Next, webVars
<1>3. [Next]_webVars => [AddressBookNext]_bookVars
  BY DEF Next, webVars
<1>4. [Next]_webVars => [MailSettingsNext]_settingsVars
  BY DEF Next, webVars
<1>5. [Next]_webVars => [MailViewNext]_viewVars
  BY DEF Next, webVars
<1>6. [Next]_webVars => [ImportNext]_importVars
  BY DEF Next, webVars
<1> QED
  BY <1>1, <1>2, <1>3, <1>4, <1>5, <1>6, PTL
  DEF ComposeSpec, AddressBookSpec, MailSettingsSpec, MailViewSpec, ImportSpec

(* The session of the application, which may also begin at rest. *)
LEMMA SessionRuns == Init /\ [][Next]_webVars => []SessionInv
<1>1. Init => SessionInv
  <2> SUFFICES ASSUME Init PROVE SessionInv
    OBVIOUS
  <2>1. CASE SessionInit
    BY <2>1, SessionStarts
  <2>2. CASE SessionAtRest
    BY <2>2, FreshTab DEF SessionAtRest
  <2> QED BY <2>1, <2>2 DEF Init
<1>2. [Next]_webVars => [SessionNext]_sessionVars
  BY DEF Next, webVars
<1> QED BY <1>1, <1>2, SessionStep, PTL

(* No update of a draft or of a contact is lost, in every behaviour of the *)
(* application (handleSaveDraft, handleSaveContact).                       *)
THEOREM UpdatesKept == FairSpec => []NoLostUpdate
<1>1. NoLostDraftUpdate /\ NoLostContactUpdate => NoLostUpdate
  BY DEF NoLostUpdate
<1> QED BY <1>1, PartsRun, DraftsKept, ContactsKept, PTL DEF FairSpec

(* In every behaviour of the application no message takes an attachment    *)
(* that was taken off a form (removeComposeAttachment), and no list shows  *)
(* a filter or a rule that was deleted from it (handleDeleteFilter).       *)
THEOREM RemovalsKept == FairSpec => []RemovedStaysRemoved
<1>1. RemovedNeverSent /\ NoGhostFilter => RemovedStaysRemoved
  BY DEF RemovedStaysRemoved
<1> QED BY <1>1, PartsRun, DraftsKept, FiltersStayDeleted, PTL DEF FairSpec

(* The mailbox on screen stays consistent in every behaviour of the        *)
(* application: the message opened last is the one shown, and the badges   *)
(* agree with the lists (openMessage, Sidebar).                            *)
THEOREM ScreenAgrees == FairSpec => []ViewConsistent
<1> QED BY PartsRun, ViewKept, PTL DEF FairSpec

(* The session stays consistent in every behaviour of the application      *)
(* (handleLogin, handleLogout, handleSwitchAccount).                       *)
THEOREM SignInsAgree == FairSpec => []SessionConsistent
<1> QED BY SessionRuns, SessionInvImplies, PTL DEF FairSpec

(* The import dialog loses no line and tells the truth in every behaviour  *)
(* of the application (splitMbox, startImport).                            *)
THEOREM ImportsTold == FairSpec => []ImportTruthful
<1> QED BY PartsRun, ImportKept, PTL DEF FairSpec

(* The state of every part is well formed in every behaviour of the        *)
(* application: each handler that waits finds what it needs when it goes   *)
(* on.                                                                     *)
THEOREM WebmailTyped == FairSpec => []WebmailTypeOK
<1>1. ComposeSpec => []ComposeTypeOK
  <2>1. ComposeInv => ComposeTypeOK
    BY ComposeInvImplies
  <2> QED BY <2>1, ComposeInitInv, ComposeStep, PTL DEF ComposeSpec
<1>2. AddressBookSpec => []AddressBookTypeOK
  <2>1. AddressBookInv => AddressBookTypeOK
    BY AddressBookInvImplies
  <2> QED BY <2>1, BookInit, BookStep, PTL DEF AddressBookSpec
<1>3. MailSettingsSpec => []MailSettingsTypeOK
  <2>1. SettingsInv => MailSettingsTypeOK
    BY SettingsInvImplies
  <2> QED BY <2>1, SettingsStart, SettingsStep, PTL DEF MailSettingsSpec
<1>4. SessionTypeOK /\ MailViewTypeOK /\ ComposeTypeOK
        /\ AddressBookTypeOK /\ ImportTypeOK /\ MailSettingsTypeOK => WebmailTypeOK
  BY DEF WebmailTypeOK
<1> QED
  BY <1>1, <1>2, <1>3, <1>4, PartsRun, SessionRuns, SessionInvImplies, ViewKept, ImportKept, PTL
  DEF FairSpec
=============================================================================
