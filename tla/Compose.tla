------------------------------ MODULE Compose ------------------------------
(***************************************************************************)
(* Writing mail: the compose form of apps/webmail/src/App.tsx and          *)
(* components/ComposeDrawer.tsx, its attachments, its drafts and sending.  *)
(* There is one form; handlers that wait for the server read part of it    *)
(* before and part of it after the wait, and clear it when they end.       *)
(* Recipient, subject and body are one numbered text, 0 when empty; the    *)
(* HTML the editor makes of a body has its number. The crypto module is    *)
(* loaded by the time anything is composed (loading the mailbox imports    *)
(* it), so encrypting is not a wait.                                       *)
(***************************************************************************)
EXTENDS Naturals, FiniteSets

CONSTANTS
  DraftIds,  \* ids of drafts
  FileIds,   \* ids of attachments
  Absent,    \* null
  MaxText,   \* bound on texts written
  MaxJobs,   \* bound on handlers waiting at once
  MaxEdits   \* bound on what the user and other devices do

ASSUME ComposeAssumption ==
  /\ Absent \notin DraftIds \cup FileIds
  /\ Absent \notin [ver : Nat, text : Nat]   \* null is no row
  /\ MaxText \in Nat \ {0} /\ MaxJobs \in Nat /\ MaxEdits \in Nat

VARIABLES
  form,     \* the compose signals
  status,   \* composeStatus: "" is null
  canSeal,  \* the mailbox key is in memory and opens the selected mailbox
  pane,     \* the draft open in the reading pane, with its plaintext
  entries,  \* the drafts of the message list
  rows,     \* the server's drafts; a deleted one has version 0
  files,    \* the server's attachments
  dropped,  \* attachments removeComposeAttachment has taken off a form
  outbox,   \* what the outbound API has accepted
  jobs,     \* handlers waiting at an await
  texts,    \* texts written so far
  edits     \* operations so far

composeVars == <<form, status, canSeal, pane, entries, rows, files, dropped, outbox, jobs, texts, edits>>

Texts == 0..MaxText
Base == [id : DraftIds, ver : Nat, base : Texts]
EmptyForm == [open |-> FALSE, text |-> 0, html |-> 0, draft |-> Absent, atts |-> {}, later |-> FALSE]
NoJob == [op |-> "send", at |-> "go", text |-> 0, html |-> 0, draft |-> Absent,
          file |-> Absent, atts |-> {}, later |-> FALSE]
Statuses == {"", "busy", "sent"}

ComposeTypeOK ==
  /\ form \in [open : BOOLEAN, text : Texts, html : Texts, draft : Base \cup {Absent},
               atts : SUBSET FileIds, later : BOOLEAN]
  /\ status \in Statuses
  /\ canSeal \in BOOLEAN
  /\ pane \in Base \cup {Absent}
  /\ \A d \in DraftIds : entries[d] \in [ver : Nat, text : Texts, trash : BOOLEAN] \cup {Absent}
  /\ \A d \in DraftIds : rows[d] \in [ver : Nat, text : Texts] \cup {Absent}
  /\ files \in [FileIds -> {"none", "stored", "linked", "deleted"}]
  /\ dropped \subseteq FileIds
  /\ outbox \subseteq [text : Texts, html : Texts, atts : SUBSET FileIds, later : BOOLEAN]
  /\ jobs \subseteq [op : {"send", "save", "create", "upload", "remove", "delete"},
                     at : {"go", "track", "post", "row", "reload"}, text : Texts,
                     html : Texts, draft : Base \cup {Absent},
                     file : FileIds \cup {Absent}, atts : SUBSET FileIds, later : BOOLEAN]
  /\ texts \in Texts /\ edits \in 0..MaxEdits

(* One draft is on the server and in the list. *)
ComposeInit ==
  LET first == CHOOSE d \in DraftIds : TRUE
  IN /\ form = EmptyForm /\ status = "" /\ canSeal = TRUE /\ pane = Absent
     /\ entries = [d \in DraftIds |-> IF d = first THEN [ver |-> 1, text |-> 1, trash |-> FALSE] ELSE Absent]
     /\ rows = [d \in DraftIds |-> IF d = first THEN [ver |-> 1, text |-> 1] ELSE Absent]
     /\ files = [f \in FileIds |-> "none"]
     /\ dropped = {} /\ outbox = {} /\ jobs = {}
     /\ texts = 1 /\ edits = 0

----------------------------------------------------------------------------
Edit == edits < MaxEdits /\ edits' = edits + 1
StartJob(j) == Cardinality(jobs) < MaxJobs /\ jobs' = jobs \cup {j}
EndJob(j) == jobs' = jobs \ {j}
clearComposeForm(open) == form' = [EmptyForm EXCEPT !.open = open]

OnlyForm == UNCHANGED <<canSeal, pane, entries, rows, files, dropped, outbox>>

(* The compose button: attachments and draft are reset, the text is what   *)
(* the form was left with.                                                 *)
OpenCompose ==
  /\ Edit
  /\ form' = [form EXCEPT !.open = TRUE, !.atts = {}, !.draft = Absent]
  /\ UNCHANGED <<status, jobs, texts>> /\ OnlyForm

TypeText ==
  /\ Edit /\ form.open /\ texts < MaxText
  /\ texts' = texts + 1
  /\ form' = [form EXCEPT !.text = texts + 1, !.html = texts + 1]
  /\ UNCHANGED <<status, jobs>> /\ OnlyForm
PickSchedule ==
  /\ Edit /\ form.open
  /\ form' = [form EXCEPT !.later = ~@]
  /\ UNCHANGED <<status, jobs, texts>> /\ OnlyForm

(* startReply and startForward fill the form with the quoted plaintext;    *)
(* they and startEditDraft leave the HTML of what was written before.      *)
QuoteMessage ==
  /\ Edit /\ texts < MaxText
  /\ texts' = texts + 1
  /\ form' = [EmptyForm EXCEPT !.open = TRUE, !.text = texts + 1, !.html = form.html]
  /\ UNCHANGED <<status, jobs>> /\ OnlyForm

(* openMessage on a draft of the list (MailView) decrypts that entry. *)
IdOnly(d) ==
  /\ Edit /\ canSeal
  /\ entries[d] # Absent /\ ~entries[d].trash
  /\ pane' = [id |-> d, base |-> entries[d].text]
  /\ UNCHANGED <<form, status, canSeal, entries, rows, files, dropped, outbox, jobs, texts>>
OpenDraft(d) ==
  /\ Edit /\ canSeal
  /\ entries[d] # Absent /\ ~entries[d].trash
  /\ pane' = [id |-> d, ver |-> entries[d].ver, base |-> entries[d].text]
  /\ UNCHANGED <<form, status, canSeal, entries, rows, files, dropped, outbox, jobs, texts>>

(* The version goes with the plaintext the pane shows, not with the list's *)
(* entry of now.                                                           *)
ListVersion ==
  /\ Edit /\ pane # Absent /\ entries[pane.id] # Absent
  /\ form' = [EmptyForm EXCEPT !.open = TRUE, !.text = pane.base, !.html = form.html,
                               !.draft = [pane EXCEPT !.ver = entries[pane.id].ver]]
  /\ UNCHANGED <<status, jobs, texts>> /\ OnlyForm
startEditDraft ==
  /\ Edit /\ pane # Absent
  /\ form' = [EmptyForm EXCEPT !.open = TRUE, !.text = pane.base, !.html = form.html,
                               !.draft = pane]
  /\ UNCHANGED <<status, jobs, texts>> /\ OnlyForm

CloseDrawer ==
  /\ Edit /\ form.open
  /\ clearComposeForm(FALSE)
  /\ status' = ""
  /\ UNCHANGED <<jobs, texts>> /\ OnlyForm

----------------------------------------------------------------------------
(* Attachments.                                                            *)

(* Refused without the key, and above 40 MB. *)
handleAttachmentSelected(f) ==
  /\ Edit /\ form.open
  /\ IF canSeal
       THEN \/ /\ files[f] = "none" /\ \A j \in jobs : j.file # f
               /\ status' = "busy"
               /\ StartJob([NoJob EXCEPT !.op = "upload", !.file = f])
            \/ UNCHANGED <<status, jobs>>      \* too large
       ELSE status' = "" /\ UNCHANGED jobs
  /\ UNCHANGED <<form, texts>> /\ OnlyForm

(* The upload joins the form of now, whichever that is. *)
StatusStays(j) ==
  /\ j.op = "upload"
  /\ \/ /\ files' = [files EXCEPT ![j.file] = "stored"]
        /\ form' = [form EXCEPT !.atts = @ \cup {j.file}]
        /\ status' = ""
     \/ UNCHANGED <<files, form, status>>
  /\ EndJob(j)
  /\ UNCHANGED <<canSeal, pane, entries, rows, dropped, outbox, texts, edits>>
UploadAnswer(j) ==
  /\ j.op = "upload"
  /\ \/ /\ files' = [files EXCEPT ![j.file] = "stored"]
        /\ form' = [form EXCEPT !.atts = @ \cup {j.file}]
     \/ UNCHANGED <<files, form>>
  /\ status' = ""
  /\ EndJob(j)
  /\ UNCHANGED <<canSeal, pane, entries, rows, dropped, outbox, texts, edits>>

removeComposeAttachment(f) ==
  /\ Edit /\ form.open /\ f \in form.atts
  /\ StartJob([NoJob EXCEPT !.op = "remove", !.file = f])
  /\ UNCHANGED <<form, status, texts>> /\ OnlyForm

(* DELETE: the server refuses a row that is gone or linked to a message,   *)
(* and has the worker erase the object (Attachments says what may go wrong *)
(* there) before it comes back for the row.                                *)
DeleteObject(j) ==
  /\ j.op = "remove" /\ j.at = "go"
  /\ \/ /\ files[j.file] = "stored"
        /\ jobs' = (jobs \ {j}) \cup {[j EXCEPT !.at = "row"]}
     \/ EndJob(j)
  /\ UNCHANGED <<form, status, canSeal, pane, entries, rows, files, dropped, outbox, texts, edits>>

(* The row goes unless a message has been given it meanwhile (409) or the  *)
(* statement fails. The item leaves the form only with the 204.            *)
OffTheFormAnyway(j) ==
  /\ j.op = "remove" /\ j.at = "row"
  /\ \/ files[j.file] = "stored" /\ files' = [files EXCEPT ![j.file] = "deleted"]
     \/ UNCHANGED files
  /\ form' = [form EXCEPT !.atts = @ \ {j.file}]
  /\ dropped' = dropped \cup {j.file}
  /\ EndJob(j)
  /\ UNCHANGED <<status, canSeal, pane, entries, rows, outbox, texts, edits>>
RemoveAnswer(j) ==
  /\ j.op = "remove" /\ j.at = "row"
  /\ \/ /\ files[j.file] = "stored"
        /\ files' = [files EXCEPT ![j.file] = "deleted"]
        /\ \/ /\ form' = [form EXCEPT !.atts = @ \ {j.file}]
              /\ dropped' = dropped \cup {j.file}
           \/ UNCHANGED <<form, dropped>>      \* the answer is lost
     \/ UNCHANGED <<files, form, dropped>>
  /\ EndJob(j)
  /\ UNCHANGED <<status, canSeal, pane, entries, rows, outbox, texts, edits>>

----------------------------------------------------------------------------
(* Sending.                                                                *)

(* The send button is disabled while there is any status. *)
handleSend ==
  /\ Edit /\ form.open /\ form.text # 0 /\ status = ""
  /\ status' = "busy"
  /\ StartJob([NoJob EXCEPT !.text = form.text])
  /\ UNCHANGED <<form, texts>> /\ OnlyForm

(* The key and a reservation have come. The plain text was read at the     *)
(* click; its HTML alternative is read now, and so is whether opens are    *)
(* tracked, which is one more request. Attachments and schedule are read   *)
(* last.                                                                   *)
Built(j, html) == [j EXCEPT !.at = "post", !.html = html, !.atts = form.atts, !.later = form.later]
SendPrepared(j) ==
  /\ j.op = "send" /\ j.at = "go"
  /\ \/ /\ \E k \in {Built(j, form.html), [j EXCEPT !.at = "track", !.html = form.html]} :
             jobs' = (jobs \ {j}) \cup {k}
        /\ UNCHANGED status
     \/ EndJob(j) /\ status' = ""
  /\ UNCHANGED <<form, canSeal, pane, entries, rows, files, dropped, outbox, texts, edits>>
TrackAnswer(j) ==
  /\ j.op = "send" /\ j.at = "track"
  /\ jobs' = (jobs \ {j}) \cup {Built(j, j.html)}
  /\ UNCHANGED <<form, status, canSeal, pane, entries, rows, files, dropped, outbox, texts, edits>>

(* sendOutbound or scheduleOutbound: accepted with every attachment or     *)
(* refused; an accepted request whose answer is lost shows an error.       *)
SendAnswer(j) ==
  /\ j.op = "send" /\ j.at = "post"
  /\ EndJob(j)
  /\ \/ /\ \A f \in j.atts : files[f] = "stored"
        /\ outbox' = outbox \cup {[text |-> j.text, html |-> j.html, atts |-> j.atts, later |-> j.later]}
        /\ files' = [f \in FileIds |-> IF f \in j.atts THEN "linked" ELSE files[f]]
        /\ \/ clearComposeForm(FALSE) /\ status' = "sent"
           \/ status' = "" /\ UNCHANGED form
     \/ status' = "" /\ UNCHANGED <<form, files, outbox>>
  /\ UNCHANGED <<canSeal, pane, entries, rows, dropped, texts, edits>>

----------------------------------------------------------------------------
(* Drafts.                                                                 *)

handleSaveDraft ==
  /\ Edit /\ form.open
  /\ IF canSeal
       THEN /\ status' = "busy"
            /\ StartJob([NoJob EXCEPT !.op = IF form.draft = Absent THEN "create" ELSE "save",
                                      !.text = form.text, !.draft = form.draft])
       ELSE status' = "" /\ UNCHANGED jobs
  /\ UNCHANGED <<form, texts>> /\ OnlyForm

(* PUT with the version that was edited: another version is a conflict,    *)
(* which reloads the mailbox and keeps the form.                           *)
Stored(d) == rows[d] # Absent /\ rows[d].ver > 0
Accepted(j) == Stored(j.draft.id) /\ rows[j.draft.id].ver = j.draft.ver
SaveDraftAnswer(j) ==
  /\ j.op = "save" /\ j.at = "go"
  /\ LET d == j.draft.id
         next == [ver |-> j.draft.ver + 1, text |-> j.text]
     IN \/ /\ Accepted(j)
           /\ rows' = [rows EXCEPT ![d] = next]
           /\ status' = ""
           /\ EndJob(j)
           /\ \/ /\ entries' = IF entries[d] = Absent THEN entries
                               ELSE [entries EXCEPT ![d].ver = next.ver, ![d].text = next.text]
                 /\ clearComposeForm(FALSE)
              \/ UNCHANGED <<entries, form>>     \* the answer is lost
        \/ /\ ~Accepted(j) /\ Stored(d)
           /\ jobs' = (jobs \ {j}) \cup {[j EXCEPT !.at = "reload"]}
           /\ UNCHANGED <<rows, entries, form, status>>
        \/ EndJob(j) /\ status' = "" /\ UNCHANGED <<rows, entries, form>>
  /\ UNCHANGED <<canSeal, pane, files, dropped, outbox, texts, edits>>

Reloaded ==
  entries' = [d \in DraftIds |-> IF ~Stored(d) THEN Absent
                                 ELSE [ver |-> rows[d].ver, text |-> rows[d].text, trash |-> FALSE]]
ReloadAnswer(j) ==
  /\ j.at = "reload"
  /\ Reloaded \/ UNCHANGED entries
  /\ status' = ""
  /\ EndJob(j)
  /\ UNCHANGED <<form, canSeal, pane, rows, files, dropped, outbox, texts, edits>>

(* A new draft: the drawer closes, the form keeps its text. *)
CreateDraftAnswer(j) ==
  /\ j.op = "create"
  /\ \/ \E d \in DraftIds :
          /\ rows[d] = Absent
          /\ rows' = [rows EXCEPT ![d] = [ver |-> 1, text |-> j.text]]
          /\ \/ /\ entries' = [entries EXCEPT ![d] = [ver |-> 1, text |-> j.text, trash |-> FALSE]]
                /\ form' = [form EXCEPT !.open = FALSE]
             \/ UNCHANGED <<entries, form>>
     \/ UNCHANGED <<rows, entries, form>>
  /\ status' = ""
  /\ EndJob(j)
  /\ UNCHANGED <<canSeal, pane, files, dropped, outbox, texts, edits>>

(* The trash button of an open draft. A failed request is only logged. *)
handleDeleteMessage ==
  /\ Edit /\ pane # Absent
  /\ StartJob([NoJob EXCEPT !.op = "delete", !.draft = pane])
  /\ UNCHANGED <<form, status, texts>> /\ OnlyForm
DeleteDraftAnswer(j) ==
  /\ j.op = "delete"
  /\ LET d == j.draft.id
     IN /\ rows' \in {rows, [rows EXCEPT ![d].ver = 0]}
        /\ IF form.draft # Absent /\ form.draft.id = d THEN clearComposeForm(FALSE) ELSE UNCHANGED form
        /\ entries' = IF entries[d] = Absent THEN entries ELSE [entries EXCEPT ![d].trash = TRUE]
  /\ pane' = Absent
  /\ EndJob(j)
  /\ UNCHANGED <<status, canSeal, files, dropped, outbox, texts, edits>>

----------------------------------------------------------------------------
(* The rest of the system.                                                 *)

(* The owner edits a draft on another device. *)
OtherDevice(d) ==
  /\ Edit /\ texts < MaxText /\ Stored(d)
  /\ texts' = texts + 1
  /\ rows' = [rows EXCEPT ![d] = [ver |-> @.ver + 1, text |-> texts + 1]]
  /\ UNCHANGED <<form, status, canSeal, pane, entries, files, dropped, outbox, jobs>>

(* loadMailboxData from anywhere else (MailView). *)
Refresh ==
  /\ Edit /\ Reloaded
  /\ UNCHANGED <<form, status, canSeal, pane, rows, files, dropped, outbox, jobs, texts>>

(* lockMailbox and the rest of a full sign-out; and unlocking again. *)
SignOut ==
  /\ Edit /\ canSeal
  /\ canSeal' = FALSE /\ pane' = Absent
  /\ clearComposeForm(FALSE)
  /\ entries' = [d \in DraftIds |-> Absent]
  /\ UNCHANGED <<status, rows, files, dropped, outbox, jobs, texts>>
SignInAgain ==
  /\ Edit /\ ~canSeal
  /\ canSeal' = TRUE /\ Reloaded
  /\ UNCHANGED <<form, status, pane, rows, files, dropped, outbox, jobs, texts>>

----------------------------------------------------------------------------
(* ComposeDrawer: its fields, and the bar of buttons below them. *)
DrawerFields == TypeText \/ \E f \in FileIds : removeComposeAttachment(f)
DrawerButtons ==
  \/ handleSend \/ handleSaveDraft \/ PickSchedule \/ CloseDrawer
  \/ \E f \in FileIds : handleAttachmentSelected(f)
(* ReadingPane: the buttons of an open draft, and of any other message. *)
DraftBar == startEditDraft \/ handleDeleteMessage

FormStep ==
  \/ OpenCompose \/ QuoteMessage \/ DraftBar
  \/ DrawerFields \/ DrawerButtons
  \/ (\E d \in DraftIds : OpenDraft(d) \/ OtherDevice(d))
  \/ Refresh \/ SignOut \/ SignInAgain

JobStep(j) ==
  \/ UploadAnswer(j) \/ DeleteObject(j) \/ RemoveAnswer(j)
  \/ SendPrepared(j) \/ TrackAnswer(j) \/ SendAnswer(j)
  \/ SaveDraftAnswer(j) \/ ReloadAnswer(j) \/ CreateDraftAnswer(j)
  \/ DeleteDraftAnswer(j)

ComposeNext == FormStep \/ \E j \in jobs : JobStep(j)
ComposeSpec == ComposeInit /\ [][ComposeNext]_composeVars

(* Every request is answered or fails in the end, so a waiting handler     *)
(* always resumes.                                                         *)
ComposeFairness == WF_composeVars(\E j \in jobs : JobStep(j))

----------------------------------------------------------------------------
(* No edit of a draft is lost to another one: a save that the server would *)
(* accept was started from the very text it replaces, whatever was saved,  *)
(* reloaded or edited on another device since (editingDraft.version).      *)
NoLostDraftUpdate ==
  \A b \in ({form.draft} \cup {j.draft : j \in {k \in jobs : k.op = "save"}}) \ {Absent} :
    (rows[b.id] # Absent /\ rows[b.id].ver = b.ver) => b.base = rows[b.id].text

(* An attachment taken off a form has no row on the server any more and    *)
(* goes out with no message, through failed and lost deletions and sends   *)
(* that race them (removeComposeAttachment). Its bytes are another matter: *)
(* Attachments.NoBlobLeft.                                                 *)
RemovedNeverSent ==
  \A f \in dropped : files[f] = "deleted" /\ \A m \in outbox : f \notin m.atts

(* The status "busy" of the form, raised while something is under way, is  *)
(* always lifted, on every path of the handlers that raise it. (What a     *)
(* send leaves, "sent", stays until the drawer is closed.)                 *)
BusyEnds == status = "busy" ~> status # "busy"
=============================================================================
