------------------------------ MODULE MailView ------------------------------
(***************************************************************************)
(* The mailbox on screen: apps/webmail/src/App.tsx (message list, reading  *)
(* pane, folders, labels, search, loading) with components/Sidebar,        *)
(* MessageList, MessageRow, InboxToolbar, ReadingPane and the folder and   *)
(* label dialogs. Local changes are made at once and sent to the server    *)
(* without waiting; loading, opening, searching and saving a folder or a   *)
(* label wait for answers, which may come in any order.                    *)
(* A message is named by its id. Its subject, dates and size are left out; *)
(* sorting and paging only decide which neighbour is opened next.          *)
(***************************************************************************)
EXTENDS Naturals, FiniteSets

CONSTANTS
  Boxes,      \* the mailboxes of this browser
  Mail,       \* message ids
  DraftMail,  \* those that are drafts
  HomeOf,     \* the mailbox each message belongs to
  CustomIds,  \* ids of custom folders
  LabelIds,   \* ids of labels
  Nil,        \* null
  MaxWaits,   \* bound on handlers waiting at once
  MaxActs     \* bound on what the user starts

ASSUME MailViewAssumption ==
  /\ DraftMail \subseteq Mail
  /\ HomeOf \in [Mail -> Boxes]
  /\ Nil \notin Mail \cup Boxes \cup CustomIds \cup LabelIds
  /\ MaxWaits \in Nat /\ MaxActs \in Nat

VARIABLES
  mbox,       \* selectedMailbox
  open4,      \* unlockedBoxId: the mailbox the key in memory opens
  msgs,       \* messages, by id
  sel,        \* selectedMsg: a copy of the entry it was opened from
  picked,     \* selectedIds
  undo,       \* undoAction
  view,       \* currentFolder, activeCustomFolder, activeLabel
  cfs,        \* customFolders, by id only
  lbls,       \* labels
  content,    \* decryptedContent, quote and edit plaintext, attachments
  decrypting, \* isDecrypting
  found,      \* searchQuery, serverMatchedMsgIds
  seqNo,      \* currentDecryptSeq
  waits,      \* handlers waiting at an await
  calls,      \* requests sent without waiting
  srv,        \* the server's rows: messages, folders, labels
  acts        \* operations started so far

screen == <<sel, content, decrypting, seqNo>>
lists == <<msgs, picked, undo, view, cfs, lbls, found>>
viewVars == <<mbox, open4, screen, lists, waits, calls, srv, acts>>

Folder == {"inbox", "sent", "drafts", "archive", "spam", "trash"}
Entry == [folder : Folder, cf : CustomIds \cup {Nil}, labels : SUBSET LabelIds,
          read : BOOLEAN, starred : BOOLEAN]
Copy == [id : Mail, e : Entry]

(* What the pane shows: of a message its plaintext, the notice that the    *)
(* mailbox is locked, or an error; quote and edit are the plaintexts that  *)
(* reply and edit take over.                                               *)
Kinds == {"none", "plain", "locked", "error"}
Blank == [kind |-> "none", of |-> Nil, quote |-> Nil, edit |-> Nil, atts |-> Nil]

Wait == [op : {"load", "open", "search", "addFolder", "editFolder", "deleteFolder",
               "addLabel", "editLabel", "deleteLabel"},
         at : {"ask", "crypto"}, box : Boxes, id : Mail \cup CustomIds \cup LabelIds \cup {Nil},
         seq : Nat, e : Entry]
Call == [op : {"read", "folder", "attach", "detach"}, box : Boxes, id : Mail,
         read : BOOLEAN, folder : Folder \cup {"custom"}, arg : CustomIds \cup LabelIds \cup {Nil}]

Fresh(m) == [folder |-> IF m \in DraftMail THEN "drafts" ELSE "inbox", cf |-> Nil, labels |-> {},
             read |-> m \in DraftMail, starred |-> FALSE]

MailViewTypeOK ==
  /\ mbox \in Boxes /\ open4 \in Boxes \cup {Nil}
  /\ DOMAIN msgs \subseteq Mail /\ \A m \in DOMAIN msgs : msgs[m] \in Entry
  /\ sel \in Copy \cup {Nil}
  /\ picked \subseteq Mail
  /\ undo \in [id : Mail, previousFolder : Folder] \cup {Nil}
  /\ view \in [folder : Folder, cf : CustomIds \cup {Nil}, label : LabelIds \cup {Nil}]
  /\ cfs \subseteq CustomIds /\ lbls \subseteq LabelIds
  /\ content \in [kind : Kinds, of : Mail \cup {Nil}, quote : Mail \cup {Nil},
                  edit : Mail \cup {Nil}, atts : Mail \cup {Nil}]
  /\ decrypting \in BOOLEAN
  /\ found \in [query : BOOLEAN, ids : SUBSET Mail]
  /\ seqNo \in 0..MaxActs
  /\ waits \subseteq Wait /\ calls \subseteq Call
  /\ \A m \in Mail : srv.mail[m] \in Entry
  /\ srv.cfs \in [Boxes -> SUBSET CustomIds] /\ srv.lbls \in [Boxes -> SUBSET LabelIds]
  /\ acts \in 0..MaxActs

(* A mailbox is open, its mail all in the inbox or all in the trash. *)
MailViewInit ==
  /\ \E b \in Boxes : mbox = b /\ open4 = b
  /\ view \in [folder : {"inbox", "trash"}, cf : {Nil}, label : {Nil}]
  /\ \/ cfs = CustomIds /\ lbls = LabelIds
     \/ cfs = {} /\ lbls = {}
  /\ srv = [mail |-> [m \in Mail |-> IF m \in DraftMail THEN Fresh(m)
                                    ELSE [Fresh(m) EXCEPT !.folder = view.folder]],
            cfs |-> [b \in Boxes |-> IF b = mbox THEN cfs ELSE {}],
            lbls |-> [b \in Boxes |-> IF b = mbox THEN lbls ELSE {}]]
  /\ msgs = [m \in {n \in Mail : HomeOf[n] = mbox} |-> srv.mail[m]]
  /\ sel = Nil /\ picked = {} /\ undo = Nil
  /\ content = Blank /\ decrypting = FALSE
  /\ found = [query |-> FALSE, ids |-> {}]
  /\ seqNo = 0
  /\ waits = {} /\ calls = {}
  /\ acts = 0

----------------------------------------------------------------------------
Act == acts < MaxActs /\ acts' = acts + 1
Pending(w) == Cardinality(waits) < MaxWaits /\ waits' = waits \cup {w}
NewWait(op, at, id) == [op |-> op, at |-> at, box |-> mbox, id |-> id, seq |-> 0,
                        e |-> Fresh(CHOOSE m \in Mail : TRUE)]
Over(w) == waits' = waits \ {w}

(* setMessages(prev => prev.map(...)) on the ids, with f as the change. *)
Mapped(ids, f(_)) == [m \in DOMAIN msgs |-> IF m \in ids THEN f(msgs[m]) ELSE msgs[m]]
(* The open copy follows a change, or the pane closes. *)
CopyToo(ids, f(_)) == IF sel # Nil /\ sel.id \in ids THEN [sel EXCEPT !.e = f(@)] ELSE sel
Closed(ids) == IF sel # Nil /\ sel.id \in ids THEN Nil ELSE sel
Send(cs) == calls' = calls \cup cs
ReadCall(m, r) == [op |-> "read", box |-> mbox, id |-> m, read |-> r,
                   folder |-> "inbox", arg |-> Nil]

----------------------------------------------------------------------------
(* What the list shows.                                                    *)

TrashToo(m) ==
  LET e == msgs[m]
  IN IF view.cf # Nil THEN e.cf = view.cf
     ELSE IF view.label # Nil THEN view.label \in e.labels
     ELSE IF view.folder = "inbox" THEN e.cf = Nil /\ e.folder = "inbox"
     ELSE e.folder = view.folder
matchFolder(m) ==
  LET e == msgs[m]
  IN IF view.cf # Nil THEN e.cf = view.cf /\ e.folder # "trash"
     ELSE IF view.label # Nil THEN view.label \in e.labels /\ e.folder # "trash"
     ELSE IF view.folder = "inbox" THEN e.cf = Nil /\ e.folder = "inbox"
     ELSE e.folder = view.folder

(* With a query a row shows when its text matches, which any may, or when  *)
(* the server found it.                                                    *)
filteredMessages == {m \in DOMAIN msgs : matchFolder(m)}

folderCounts(f) ==
  Cardinality({m \in DOMAIN msgs : msgs[m].folder = f /\ (f = "inbox" => msgs[m].cf = Nil)})
customFolderCounts(c) ==
  Cardinality({m \in DOMAIN msgs : msgs[m].cf = c /\ msgs[m].folder # "trash"})
labelCounts(l) ==
  Cardinality({m \in DOMAIN msgs : l \in msgs[m].labels /\ msgs[m].folder # "trash"})

----------------------------------------------------------------------------
(* Opening a message. Each call of openMessage takes the next number of    *)
(* currentDecryptSeq, and only the call with the last number may write.    *)

Anyone(w) == TRUE
Latest(w) == w.seq = seqNo

openMessage(m) ==
  /\ Act
  /\ seqNo' = seqNo + 1
  /\ sel' = [id |-> m, e |-> msgs[m]]
  /\ msgs' = Mapped({m}, LAMBDA e : [e EXCEPT !.read = TRUE])
  /\ IF msgs[m].read THEN UNCHANGED calls ELSE Send({ReadCall(m, TRUE)})
  /\ LET draft == msgs[m].folder = "drafts"
         locked == draft /\ open4 # mbox
         w == [NewWait("open", IF draft THEN "crypto" ELSE "ask", m)
                 EXCEPT !.seq = seqNo + 1, !.e = msgs[m]]
     IN /\ decrypting' = ~locked
        /\ content' = IF locked THEN [Blank EXCEPT !.kind = "locked", !.of = m] ELSE Blank
        /\ IF locked THEN UNCHANGED waits ELSE Pending(w)
  /\ UNCHANGED <<mbox, open4, picked, undo, view, cfs, lbls, found, srv>>

(* The neighbours of the open message in the list as it is now. *)
OpenNeighbour(m) ==
  /\ sel # Nil /\ sel.id \in filteredMessages /\ m # sel.id
  /\ openMessage(m)

PlaceholderQuoted(w) ==
  IF Latest(w)
    THEN content' = [content EXCEPT !.kind = "error", !.of = w.id, !.quote = w.id] /\ decrypting' = FALSE
    ELSE UNCHANGED <<content, decrypting>>
ErrorOnly(w) ==
  IF Latest(w)
    THEN content' = [content EXCEPT !.kind = "error", !.of = w.id] /\ UNCHANGED decrypting
    ELSE UNCHANGED <<content, decrypting>>
OpenFailed(w) ==
  IF Latest(w)
    THEN content' = [content EXCEPT !.kind = "error", !.of = w.id] /\ decrypting' = FALSE
    ELSE UNCHANGED <<content, decrypting>>

(* The body and the attachments have come: the key is looked at only now. *)
BodyAnswer(w) ==
  /\ w.op = "open" /\ w.at = "ask"
  /\ \/ OpenFailed(w) /\ Over(w)
     \/ /\ ~Latest(w) /\ Over(w)
        /\ UNCHANGED <<content, decrypting>>
     \/ /\ Latest(w) /\ open4 # w.box
        /\ content' = [content EXCEPT !.kind = "locked", !.of = w.id, !.atts = w.id]
        /\ decrypting' = FALSE
        /\ Over(w)
     \/ /\ Latest(w) /\ open4 = w.box
        /\ content' = [content EXCEPT !.atts = w.id]
        /\ waits' = (waits \ {w}) \cup {[w EXCEPT !.at = "crypto"]}
        /\ UNCHANGED decrypting
  /\ UNCHANGED <<mbox, open4, sel, seqNo, lists, calls, srv, acts>>

(* The message is decrypted: the entry it was opened from, marked read,    *)
(* replaces both the open copy and the row.                                *)
PlaintextShown(w) ==
  IF w.e.folder = "drafts"
    THEN /\ content' = [content EXCEPT !.kind = "plain", !.of = w.id, !.edit = w.id]
         /\ UNCHANGED <<sel, msgs>>
    ELSE /\ content' = [content EXCEPT !.kind = "plain", !.of = w.id, !.quote = w.id]
         /\ sel' = [id |-> w.id, e |-> [w.e EXCEPT !.read = TRUE]]
         /\ msgs' = Mapped({w.id}, LAMBDA e : [w.e EXCEPT !.read = TRUE])

CryptoAnswer(w) ==
  /\ w.op = "open" /\ w.at = "crypto"
  /\ Over(w)
  /\ \/ OpenFailed(w) /\ UNCHANGED <<sel, msgs>>
     \/ Latest(w) /\ PlaintextShown(w) /\ decrypting' = FALSE
     \/ ~Latest(w) /\ UNCHANGED <<sel, msgs, content, decrypting>>
  /\ UNCHANGED <<mbox, open4, seqNo, picked, undo, view, cfs, lbls, found, calls, srv, acts>>

(* Escape closes the pane, or else clears the selection; the back button   *)
(* closes the pane. An open still under way goes on.                       *)
handleKeyDown ==
  /\ Act
  /\ \/ sel # Nil /\ sel' = Nil /\ UNCHANGED picked
     \/ sel = Nil /\ picked # {} /\ picked' = {} /\ UNCHANGED sel
  /\ UNCHANGED <<mbox, open4, content, decrypting, seqNo, msgs, undo, view, cfs, lbls,
                 found, waits, calls, srv>>

----------------------------------------------------------------------------
(* Changes to one message.                                                 *)

Elsewhere == UNCHANGED <<mbox, open4, content, decrypting, seqNo, view, cfs, lbls,
                         found, waits, srv>>

toggleMessageStarred(m, e0) ==
  /\ Act
  /\ msgs' = Mapped({m}, LAMBDA e : [e EXCEPT !.starred = ~e0.starred])
  /\ sel' = CopyToo({m}, LAMBDA e : [e EXCEPT !.starred = ~e0.starred])
  /\ UNCHANGED <<picked, undo, calls>> /\ Elsewhere

toggleMessageRead(m, e0) ==
  /\ Act
  /\ msgs' = Mapped({m}, LAMBDA e : [e EXCEPT !.read = ~e0.read])
  /\ sel' = CopyToo({m}, LAMBDA e : [e EXCEPT !.read = ~e0.read])
  /\ Send({ReadCall(m, ~e0.read)})
  /\ UNCHANGED <<picked, undo>> /\ Elsewhere

(* Archive and trash stay in this browser: no request is sent. *)
MoveAway(m, e0, f) ==
  /\ Act
  /\ msgs' = Mapped({m}, LAMBDA e : [e EXCEPT !.folder = f])
  /\ sel' = Closed({m})
  /\ undo' = [id |-> m, previousFolder |-> e0.folder]
  /\ UNCHANGED <<picked, calls>> /\ Elsewhere
handleArchiveMessage(m, e0) == MoveAway(m, e0, "archive")
handleTrashMessage(m, e0) == e0.folder # "trash" /\ MoveAway(m, e0, "trash")

MarkSpam ==
  /\ Act /\ sel # Nil
  /\ msgs' = Mapped({sel.id}, LAMBDA e : [e EXCEPT !.folder = "spam"])
  /\ sel' = Nil
  /\ UNCHANGED <<picked, undo, calls>> /\ Elsewhere

handleDeleteForever(m, e0) ==
  /\ Act /\ e0.folder = "trash"
  /\ msgs' = [n \in DOMAIN msgs \ {m} |-> msgs[n]]
  /\ sel' = Closed({m})
  /\ picked' = picked \ {m}
  /\ UNCHANGED <<undo, calls>> /\ Elsewhere

handleUndo ==
  /\ Act /\ undo # Nil
  /\ msgs' = Mapped({undo.id}, LAMBDA e : [e EXCEPT !.folder = undo.previousFolder])
  /\ undo' = Nil
  /\ UNCHANGED <<sel, picked, calls>> /\ Elsewhere
(* The toast is gone after five seconds. *)
UndoExpires ==
  /\ undo # Nil /\ undo' = Nil
  /\ UNCHANGED <<msgs, sel, picked, calls, acts>> /\ Elsewhere

----------------------------------------------------------------------------
(* The selection and what is done to it.                                   *)

handleToggleCheck(m) ==
  /\ Act
  /\ picked' = IF m \in picked THEN picked \ {m} ELSE picked \cup {m}
  /\ UNCHANGED <<msgs, sel, undo, calls>> /\ Elsewhere
handleSelectFilter ==
  /\ Act
  /\ picked' \in {{}, filteredMessages, {m \in filteredMessages : msgs[m].read},
                  {m \in filteredMessages : ~msgs[m].read},
                  {m \in filteredMessages : msgs[m].starred},
                  {m \in filteredMessages : ~msgs[m].starred}}
  /\ UNCHANGED <<msgs, sel, undo, calls>> /\ Elsewhere

BatchTo(f) ==
  /\ Act /\ picked # {}
  /\ msgs' = Mapped(picked, LAMBDA e : [e EXCEPT !.folder = f])
  /\ sel' = Closed(picked)
  /\ picked' = {}
  /\ UNCHANGED <<undo, calls>> /\ Elsewhere
handleBatchArchive == BatchTo("archive")
handleBatchSpam == BatchTo("spam")
handleBatchTrash == view.folder # "trash" /\ BatchTo("trash")

handleBatchDeleteForever ==
  /\ Act /\ picked # {} /\ view.folder = "trash"
  /\ msgs' = [m \in DOMAIN msgs \ picked |-> msgs[m]]
  /\ sel' = Closed(picked)
  /\ picked' = {}
  /\ UNCHANGED <<undo, calls>> /\ Elsewhere

handleEmptyTrash ==
  /\ Act /\ view.folder = "trash"
  /\ LET gone == {m \in DOMAIN msgs : msgs[m].folder = "trash"}
     IN /\ gone # {}
        /\ msgs' = [m \in DOMAIN msgs \ gone |-> msgs[m]]
  /\ sel' = IF sel # Nil /\ sel.e.folder = "trash" THEN Nil ELSE sel
  /\ picked' = {}
  /\ UNCHANGED <<undo, calls>> /\ Elsewhere

handleBatchToggleRead(r) ==
  /\ Act /\ picked # {}
  /\ msgs' = Mapped(picked, LAMBDA e : [e EXCEPT !.read = r])
  /\ sel' = CopyToo(picked, LAMBDA e : [e EXCEPT !.read = r])
  /\ picked' = {}
  /\ Send({ReadCall(m, r) : m \in picked})
  /\ UNCHANGED undo /\ Elsewhere
handleBatchToggleStarred ==
  /\ Act /\ picked # {}
  /\ msgs' = Mapped(picked, LAMBDA e : [e EXCEPT !.starred = TRUE])
  /\ sel' = CopyToo(picked, LAMBDA e : [e EXCEPT !.starred = TRUE])
  /\ picked' = {}
  /\ UNCHANGED <<undo, calls>> /\ Elsewhere

(* A target is a folder of the program or a custom folder. *)
TargetAsFolder(ids, target) ==
  /\ Act /\ ids # {}
  /\ msgs' = Mapped(ids, LAMBDA e : [e EXCEPT !.folder = target])
  /\ sel' = Closed(ids)
  /\ picked' = picked \ ids
  /\ UNCHANGED <<undo, calls>> /\ Elsewhere
handleMoveMessages(ids, target) ==
  LET custom == target \in cfs
      f == IF custom THEN "inbox" ELSE target
      c == IF custom THEN target ELSE Nil
  IN /\ Act /\ ids # {}
     /\ msgs' = Mapped(ids, LAMBDA e : [e EXCEPT !.folder = f, !.cf = c])
     /\ sel' = Closed(ids)
     /\ picked' = picked \ ids
     /\ Send({[op |-> "folder", box |-> mbox, id |-> m, read |-> FALSE,
               folder |-> IF custom THEN "custom" ELSE target, arg |-> c] : m \in ids})
     /\ UNCHANGED undo /\ Elsewhere
MoveTargets == cfs \cup {"inbox", "archive", "spam", "trash"}
handleBatchMoveTo(target) == handleMoveMessages(picked, target)

LabelCalls(op, ids, l) ==
  {[op |-> op, box |-> mbox, id |-> m, read |-> FALSE, folder |-> "inbox", arg |-> l] : m \in ids}
handleAttachLabel(ids, l) ==
  /\ Act /\ ids # {}
  /\ msgs' = Mapped(ids, LAMBDA e : [e EXCEPT !.labels = @ \cup {l}])
  /\ sel' = CopyToo(ids, LAMBDA e : [e EXCEPT !.labels = @ \cup {l}])
  /\ Send(LabelCalls("attach", ids, l))
  /\ UNCHANGED <<picked, undo>> /\ Elsewhere
DetachLabel(ids, l) ==
  /\ Act /\ ids # {}
  /\ msgs' = Mapped(ids, LAMBDA e : [e EXCEPT !.labels = @ \ {l}])
  /\ sel' = CopyToo(ids, LAMBDA e : [e EXCEPT !.labels = @ \ {l}])
  /\ Send(LabelCalls("detach", ids, l))
  /\ UNCHANGED <<picked, undo>> /\ Elsewhere
toggleMessageLabel(ids, l) ==
  LET targets == ids \cap DOMAIN msgs
  IN IF targets # {} /\ \A m \in targets : l \in msgs[m].labels
       THEN DetachLabel(ids, l)
       ELSE handleAttachLabel(ids, l)
handleBatchToggleLabel(l) ==
  toggleMessageLabel(IF picked # {} THEN picked ELSE IF sel # Nil THEN {sel.id} ELSE {}, l)

(* What a dragged row carries: the whole selection when it is part of it. *)
handleDragStart(m) == IF m \in picked THEN picked ELSE {m}
handleDrop(m) ==
  \/ \E t \in MoveTargets : handleMoveMessages(handleDragStart(m), t)
  \/ \E l \in lbls : handleAttachLabel(handleDragStart(m), l)

----------------------------------------------------------------------------
(* Folders and labels. Their names are left out, so a save that finds its  *)
(* name taken is a save that changes nothing.                              *)

OnlyLists == UNCHANGED <<mbox, open4, content, decrypting, seqNo, undo, calls>>

(* The sidebar: a folder, a custom folder or a label is selected. *)
SelectView(v) ==
  /\ Act
  /\ view' = v
  /\ sel' = Nil /\ picked' = {}
  /\ UNCHANGED <<msgs, cfs, lbls, found, waits, srv>> /\ OnlyLists
SelectFolder(f) == SelectView([folder |-> f, cf |-> Nil, label |-> Nil])
handleSelectCustomFolder(c) == SelectView([view EXCEPT !.cf = c, !.label = Nil])
handleSelectLabel(l) == SelectView([view EXCEPT !.cf = Nil, !.label = l])

Ask(op, id) ==
  /\ Act
  /\ Pending(NewWait(op, "ask", id))
  /\ UNCHANGED <<msgs, sel, picked, view, cfs, lbls, found, srv>> /\ OnlyLists
handleSaveFolder(c) == Ask(IF c \in cfs THEN "editFolder" ELSE "addFolder", c)
handleDeleteFolder(c) == c \in cfs /\ Ask("deleteFolder", c)
handleSaveLabel(l) == Ask(IF l \in lbls THEN "editLabel" ELSE "addLabel", l)
handleDeleteLabel(l) == l \in lbls /\ Ask("deleteLabel", l)

(* The answer of a save: a new folder is appended, an edited one replaced. *)
SaveAnswer(w) ==
  /\ w.op \in {"addFolder", "editFolder", "addLabel", "editLabel"}
  /\ Over(w)
  /\ \/ UNCHANGED <<cfs, lbls, srv>>
     \/ /\ w.op = "addFolder" /\ w.id \notin srv.cfs[w.box]
        /\ srv' = [srv EXCEPT !.cfs[w.box] = @ \cup {w.id}]
        /\ cfs' = cfs \cup {w.id}
        /\ UNCHANGED lbls
     \/ /\ w.op = "addLabel" /\ w.id \notin srv.lbls[w.box]
        /\ srv' = [srv EXCEPT !.lbls[w.box] = @ \cup {w.id}]
        /\ lbls' = lbls \cup {w.id}
        /\ UNCHANGED cfs
  /\ UNCHANGED <<msgs, sel, picked, view, found, acts>> /\ OnlyLists

(* The server puts what the folder held back in the inbox, and so does the *)
(* list; the open copy is left as it is.                                   *)
DeleteFolderAnswer(w) ==
  /\ w.op = "deleteFolder"
  /\ Over(w)
  /\ \/ UNCHANGED <<msgs, view, cfs, srv>>
     \/ LET home(e) == IF e.cf = w.id THEN [e EXCEPT !.cf = Nil, !.folder = "inbox"] ELSE e
        IN /\ srv' = [srv EXCEPT !.cfs[w.box] = @ \ {w.id},
                                 !.mail = [m \in Mail |-> IF HomeOf[m] = w.box THEN home(srv.mail[m])
                                                      ELSE srv.mail[m]]]
           /\ msgs' = [m \in DOMAIN msgs |-> home(msgs[m])]
           /\ cfs' = cfs \ {w.id}
           /\ view' = IF view.cf = w.id THEN [view EXCEPT !.cf = Nil, !.folder = "inbox"] ELSE view
  /\ UNCHANGED <<sel, picked, lbls, found, acts>> /\ OnlyLists

DeleteLabelAnswer(w) ==
  /\ w.op = "deleteLabel"
  /\ Over(w)
  /\ \/ UNCHANGED <<msgs, view, lbls, srv>>
     \/ LET bare(e) == [e EXCEPT !.labels = e.labels \ {w.id}]
        IN /\ srv' = [srv EXCEPT !.lbls[w.box] = @ \ {w.id},
                                 !.mail = [m \in Mail |-> IF HomeOf[m] = w.box THEN bare(srv.mail[m])
                                                      ELSE srv.mail[m]]]
           /\ msgs' = [m \in DOMAIN msgs |-> bare(msgs[m])]
           /\ lbls' = lbls \ {w.id}
           /\ view' = IF view.label = w.id THEN [view EXCEPT !.label = Nil] ELSE view
  /\ UNCHANGED <<sel, picked, cfs, found, acts>> /\ OnlyLists

----------------------------------------------------------------------------
(* Loading, searching, switching.                                          *)

(* loadMailboxData is started by the refresh button, after an import, and  *)
(* by every sign-in, unlock and switch.                                    *)
loadMailboxData == Ask("load", Nil)

(* Whatever mailbox is selected by now, the rows that came replace the     *)
(* list. Stars are not stored and come back empty. A failed load changes   *)
(* nothing.                                                                *)
LoadMailAnswer(w) ==
  /\ w.op = "load"
  /\ Over(w)
  /\ \/ UNCHANGED <<msgs, cfs, lbls>>
     \/ /\ msgs' = [m \in {n \in Mail : HomeOf[n] = w.box} |-> [srv.mail[m] EXCEPT !.starred = FALSE]]
        /\ cfs' = srv.cfs[w.box] /\ lbls' = srv.lbls[w.box]
  /\ UNCHANGED <<sel, picked, view, found, srv, acts>> /\ OnlyLists

(* The search effect: an answer is applied even when the query has been    *)
(* cleared meanwhile, for nothing ever sets its cancelled flag.            *)
SearchEffect ==
  /\ Act
  /\ \/ /\ found' = [found EXCEPT !.query = TRUE]
        /\ IF open4 = mbox THEN Pending(NewWait("search", "ask", Nil)) ELSE UNCHANGED waits
     \/ found' = [query |-> FALSE, ids |-> {}] /\ UNCHANGED waits
  /\ UNCHANGED <<msgs, sel, picked, view, cfs, lbls, srv>> /\ OnlyLists
SearchAnswer(w) ==
  /\ w.op = "search"
  /\ Over(w)
  /\ found' \in {found} \cup {[found EXCEPT !.ids = {m}] : m \in {n \in Mail : HomeOf[n] = w.box}}
  /\ UNCHANGED <<msgs, sel, picked, view, cfs, lbls, srv, acts>> /\ OnlyLists

(* handleSwitchAccount (Session): only the mailbox and its key change, and *)
(* a load is started; what is open or selected stays.                      *)
SwitchMailbox(b) ==
  /\ Act /\ b # mbox
  /\ mbox' = b /\ open4' \in {b, Nil}
  /\ Pending([NewWait("load", "ask", Nil) EXCEPT !.box = b])
  /\ UNCHANGED <<screen, lists, calls, srv>>

(* The full sign-out locks the mailbox; the next sign-in opens it again.   *)
lockMailbox ==
  /\ Act /\ open4 # Nil
  /\ open4' = Nil
  /\ msgs' = [m \in {} |-> Fresh(m)]
  /\ sel' = Nil /\ content' = [Blank EXCEPT !.atts = content.atts]
  /\ picked' = {} /\ cfs' = {} /\ lbls' = {}
  /\ view' = [view EXCEPT !.cf = Nil, !.label = Nil]
  /\ found' = [found EXCEPT !.ids = {}]
  /\ UNCHANGED <<mbox, decrypting, seqNo, undo, waits, calls, srv>>
UnlockAgain ==
  /\ Act /\ open4 = Nil
  /\ open4' = mbox
  /\ Pending(NewWait("load", "ask", Nil))
  /\ UNCHANGED <<mbox, screen, lists, calls, srv>>

(* A request sent without waiting reaches the server, or fails and is only *)
(* logged; a message of another mailbox is not found.                      *)
ServerApplies(c) ==
  /\ calls' = calls \ {c}
  /\ \/ UNCHANGED srv
     \/ /\ HomeOf[c.id] = c.box /\ c.id \notin DraftMail
        /\ LET e == srv.mail[c.id]
           IN srv' = [srv EXCEPT !.mail[c.id] =
                CASE c.op = "read" -> [e EXCEPT !.read = c.read]
                  [] c.op = "folder" -> [e EXCEPT !.folder = IF c.folder = "custom" THEN "inbox" ELSE c.folder,
                                                 !.cf = c.arg]
                  [] c.op = "attach" -> [e EXCEPT !.labels = e.labels \cup {c.arg}]
                  [] c.op = "detach" -> [e EXCEPT !.labels = e.labels \ {c.arg}]]
  /\ UNCHANGED <<mbox, open4, screen, lists, waits, acts>>

----------------------------------------------------------------------------
(* MessageRow: the row itself, and the buttons over it. *)
RowStep(m) == openMessage(m) \/ handleToggleCheck(m) \/ handleDrop(m)
RowButtons(m, e) ==
  \/ toggleMessageStarred(m, e) \/ toggleMessageRead(m, e)
  \/ handleArchiveMessage(m, e)
  \/ handleTrashMessage(m, e) \/ handleDeleteForever(m, e)

(* A row is one line, or stacked when the pane is beside the list. *)
StackedRow(m) == RowStep(m) \/ RowButtons(m, msgs[m])

(* ReadingPane: its buttons work on the copy it was opened with. *)
PaneToolbar ==
  /\ sel # Nil
  /\ \/ handleKeyDown \/ MarkSpam
     \/ \E m \in filteredMessages : OpenNeighbour(m)
     \/ RowButtons(sel.id, sel.e)
PaneMenus ==
  /\ sel # Nil
  /\ \/ \E t \in MoveTargets : handleMoveMessages({sel.id}, t)
     \/ \E l \in lbls : toggleMessageLabel({sel.id}, l)

(* InboxToolbar: what is selected, what is done to the selection, and the  *)
(* menus.                                                                  *)
SelectMenu == handleSelectFilter \/ (sel = Nil /\ handleKeyDown)
BatchToolbar ==
  \/ handleBatchArchive \/ handleBatchSpam
  \/ handleBatchTrash \/ handleBatchDeleteForever
  \/ \E r \in BOOLEAN : handleBatchToggleRead(r)
  \/ handleBatchToggleStarred
BatchMenus ==
  \/ \E t \in MoveTargets : handleBatchMoveTo(t)
  \/ \E l \in lbls : handleBatchToggleLabel(l)
InboxToolbar == SelectMenu \/ BatchToolbar \/ BatchMenus

(* Sidebar: folders, custom folders and labels with their menus. *)
SidebarFolders ==
  \/ \E c \in cfs : handleSelectCustomFolder(c)
  \/ \E c \in CustomIds : handleSaveFolder(c) \/ handleDeleteFolder(c)
SidebarLabels ==
  \/ \E l \in lbls : handleSelectLabel(l)
  \/ \E l \in LabelIds : handleSaveLabel(l) \/ handleDeleteLabel(l)

ScreenStep ==
  \/ \E m \in filteredMessages : StackedRow(m)
  \/ PaneToolbar \/ PaneMenus
  \/ InboxToolbar
  \/ SidebarFolders \/ SidebarLabels
  \/ \E f \in {"inbox", "drafts", "archive", "trash"} : SelectFolder(f)
  \/ handleEmptyTrash \/ handleUndo
  \/ loadMailboxData \/ SearchEffect
  \/ \E b \in Boxes : SwitchMailbox(b)
  \/ lockMailbox \/ UnlockAgain

WaitStep(w) ==
  \/ BodyAnswer(w) \/ CryptoAnswer(w)
  \/ SaveAnswer(w) \/ DeleteFolderAnswer(w) \/ DeleteLabelAnswer(w)
  \/ LoadMailAnswer(w) \/ SearchAnswer(w)

MailViewNext ==
  \/ ScreenStep
  \/ \E w \in waits : WaitStep(w)
  \/ \E c \in calls : ServerApplies(c)
  \/ UndoExpires
MailViewSpec == MailViewInit /\ [][MailViewNext]_viewVars

(* Every request is answered or fails in the end, so a waiting handler     *)
(* always resumes.                                                         *)
MailViewFairness == WF_viewVars(\E w \in waits : w.op = "open" /\ WaitStep(w))

----------------------------------------------------------------------------
(* The text in the pane, and the attachments under it, are those of the    *)
(* message whose header is above them, in whatever order the answers of    *)
(* several opens come (currentDecryptSeq in openMessage).                  *)
LatestOpenWins ==
  sel # Nil => {content.of, content.atts} \subseteq {sel.id, Nil}

(* "Set ONLY on successful decrypt" (App.tsx:143): what reply, forward and *)
(* edit take over is the plaintext on screen, never a placeholder or the   *)
(* text of another message.                                                *)
SuccessOnlyPlaintext ==
  \A p \in {content.quote, content.edit} \ {Nil} : content.kind = "plain" /\ content.of = p

(* The number beside a folder or a label is the number of messages that    *)
(* view lists when no search is on, though folderCounts and                *)
(* filteredMessages decide it separately.                                  *)
BadgesMatchViews ==
  LET n == Cardinality(filteredMessages)
  IN n = (IF view.cf # Nil THEN customFolderCounts(view.cf)
          ELSE IF view.label # Nil THEN labelCounts(view.label)
          ELSE folderCounts(view.folder))

(* What is on the screen belongs together: header, text and attachments,   *)
(* what reply takes over, the numbers beside the folders and their lists,  *)
(* whatever answers are still on the way.                                  *)
ViewConsistent == LatestOpenWins /\ SuccessOnlyPlaintext /\ BadgesMatchViews

(* "Decrypting" does not spin for ever: the last open always ends, whether *)
(* the body comes, fails, or the mailbox was locked or switched meanwhile. *)
DecryptEnds == decrypting ~> ~decrypting
=============================================================================
