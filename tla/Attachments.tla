---------------------------- MODULE Attachments ----------------------------
(***************************************************************************)
(* The attachments of one mailbox: upload and deletion by                  *)
(* services/api/attachments.go, and their linking to a message by the send *)
(* and schedule handlers of services/api/outbound.go. The row is in        *)
(* PostgreSQL and the bytes are an object in the customer's storage; the   *)
(* statements on the two are never in one transaction. The storage worker  *)
(* looks the mailbox's storage up for every call, and uses its own default *)
(* storage when that fails.                                                *)
(***************************************************************************)
EXTENDS Naturals

CONSTANTS
  Atts,        \* attachment ids the uploads draw
  Msgs,        \* delivery ids the send and schedule handlers draw
  Drafts,      \* other message ids a client may name in an upload
  NoMsg,       \* message_id IS NULL
  NoAtt,       \* "no attachment" of an idle request
  Reqs,        \* concurrent requests of the attachments endpoint
  MaxGlitches  \* bound on requests that fail or are abandoned midway

ASSUME AttachmentsAssumption ==
  /\ NoMsg \notin Msgs \cup Drafts
  /\ Msgs \cap Drafts = {}
  /\ NoAtt \notin Atts
  /\ MaxGlitches \in Nat

VARIABLES
  drawn,    \* attachment ids drawn so far
  object,   \* attachments whose object is in the customer's storage
  astray,   \* attachments whose object is in the worker's default storage
  missed,   \* history: those the worker looked the storage up for in vain
  row,      \* attachments with a row
  link,     \* message_id of each row
  wanted,   \* attachment_ids of each message accepted so far
  sent,     \* the messages accepted
  req,      \* the requests in progress
  wish,     \* attachments a client is deleting and retries until answered
  deleted,  \* attachments whose DELETE took their row
  glitches  \* requests lost so far

blobs == <<object, astray, missed>>
attVars == <<drawn, blobs, row, link, wanted, sent, req, wish, deleted, glitches>>

Owners == Msgs \cup Drafts \cup {NoMsg}
Requests ==
  [pc : {"idle", "stored", "selected", "erased"},
   att : Atts \cup {NoAtt}, msg : Owners]
Idle == [pc |-> "idle", att |-> NoAtt, msg |-> NoMsg]

AttTypeOK ==
  /\ drawn \in SUBSET Atts
  /\ object \in SUBSET Atts /\ astray \in SUBSET Atts /\ missed \in SUBSET Atts
  /\ row \in SUBSET Atts
  /\ link \in [Atts -> Owners]
  /\ wanted \in [Msgs -> SUBSET Atts]
  /\ sent \in SUBSET Msgs
  /\ req \in [Reqs -> Requests]
  /\ wish \in SUBSET Atts /\ deleted \in SUBSET Atts
  /\ glitches \in 0..MaxGlitches

AttInit ==
  /\ drawn = {}
  /\ object = {} /\ astray = {} /\ missed = {}
  /\ row = {}
  /\ link = [a \in Atts |-> NoMsg]
  /\ wanted = [m \in Msgs |-> {}]
  /\ sent = {}
  /\ req = [r \in Reqs |-> Idle]
  /\ wish = {} /\ deleted = {}
  /\ glitches = 0

Unlinked(a) == a \in row /\ link[a] = NoMsg

-----------------------------------------------------------------------------
(* POST: the object first, then the row.                                    *)

\* The storage the worker takes: the mailbox's own, or the default one when it
\* cannot read mailbox_storage. It answers 200 either way.
getStorageForMailbox(a, own) ==
  \/ own /\ UNCHANGED <<missed, glitches>>
  \/ /\ ~own
     /\ missed' = missed \cup {a}
     /\ glitches < MaxGlitches /\ glitches' = glitches + 1

Uploaded(r, a, m) ==
  /\ req[r].pc = "idle" /\ a \notin drawn
  /\ drawn' = drawn \cup {a}
  /\ req' = [req EXCEPT ![r] = [pc |-> "stored", att |-> a, msg |-> m]]
  /\ UNCHANGED <<row, link, wanted, sent, wish, deleted>>

\* Mutant: the storage worker's answer is not looked at.
StoreResultIgnored(r, a, m, own) ==
  /\ Uploaded(r, a, m)
  /\ object' \in {object, object \cup {a}}
  /\ UNCHANGED <<astray, missed, glitches>>

attachmentsHandler_store(r, a, m, own) ==
  /\ Uploaded(r, a, m)
  /\ getStorageForMailbox(a, own)
  /\ object' = IF own THEN object \cup {a} ELSE object
  /\ astray' = IF own THEN astray ELSE astray \cup {a}

\* Mutant: the INSERT leaves the id to its DEFAULT gen_random_uuid().
IdNotPassed(r) ==
  /\ req[r].pc = "stored"
  /\ row' = row \cup {NoAtt}
  /\ req' = [req EXCEPT ![r] = Idle]
  /\ UNCHANGED <<drawn, blobs, link, wanted, sent, wish, deleted, glitches>>

attachmentsHandler_insert(r) ==
  /\ req[r].pc = "stored"
  /\ row' = row \cup {req[r].att}
  /\ link' = [link EXCEPT ![req[r].att] = req[r].msg]
  /\ req' = [req EXCEPT ![r] = Idle]
  /\ UNCHANGED <<drawn, blobs, wanted, sent, wish, deleted, glitches>>

-----------------------------------------------------------------------------
(* Send and schedule: the message and all of its links, or nothing.         *)

linkAttachments(m, S) ==
  /\ m \notin sent
  /\ \A a \in S : Unlinked(a)
  /\ link' = [a \in Atts |-> IF a \in S THEN m ELSE link[a]]
  /\ sent' = sent \cup {m}
  /\ wanted' = [wanted EXCEPT ![m] = S]
  /\ UNCHANGED <<drawn, blobs, row, req, wish, deleted, glitches>>

-----------------------------------------------------------------------------
(* DELETE: the row is read, the object is deleted, then the row.            *)

\* The client sends a DELETE, and repeats it until it has an answer.
ClientDeletes(a) ==
  /\ a \in drawn /\ a \notin wish
  /\ wish' = wish \cup {a}
  /\ UNCHANGED <<drawn, blobs, row, link, wanted, sent, req, deleted, glitches>>

attachmentsHandler_select(r, a) ==
  /\ req[r].pc = "idle" /\ a \in wish
  /\ Unlinked(a)
  /\ req' = [req EXCEPT ![r] = [pc |-> "selected", att |-> a, msg |-> NoMsg]]
  /\ UNCHANGED <<drawn, blobs, row, link, wanted, sent, wish, deleted, glitches>>

\* 404, or 409 for a linked attachment.
attachmentsHandler_refuse(a) ==
  /\ a \in wish /\ ~Unlinked(a)
  /\ wish' = wish \ {a}
  /\ UNCHANGED <<drawn, blobs, row, link, wanted, sent, req, deleted, glitches>>

\* Mutant: the object is left to the next request.
RowFirst(r, own) ==
  /\ req[r].pc = "selected"
  /\ row' = row \ {a \in {req[r].att} : Unlinked(a)}
  /\ deleted' = deleted \cup {a \in {req[r].att} : Unlinked(a)}
  /\ req' = [req EXCEPT ![r] = [pc |-> "erased", att |-> req[r].att, msg |-> NoMsg]]
  /\ UNCHANGED <<drawn, blobs, link, wanted, sent, wish, glitches>>

\* Deleting an object that is not there succeeds, in either storage.
deleteHandler(r, own) ==
  /\ req[r].pc = "selected"
  /\ getStorageForMailbox(req[r].att, own)
  /\ object' = IF own THEN object \ {req[r].att} ELSE object
  /\ astray' = IF own THEN astray ELSE astray \ {req[r].att}
  /\ req' = [req EXCEPT ![r] = [pc |-> "erased", att |-> req[r].att, msg |-> NoMsg]]
  /\ UNCHANGED <<drawn, row, link, wanted, sent, wish, deleted>>

\* Mutant: DELETE without AND message_id IS NULL.
DeleteAnyRow(r) ==
  /\ req[r].pc = "erased"
  /\ row' = row \ {req[r].att}
  /\ deleted' = deleted \cup {a \in {req[r].att} : a \in row}
  /\ wish' = wish \ {req[r].att}
  /\ req' = [req EXCEPT ![r] = Idle]
  /\ UNCHANGED <<drawn, blobs, link, wanted, sent, glitches>>

\* A row linked in the meantime stays: 409.
attachmentsHandler_delete(r) ==
  /\ req[r].pc = "erased"
  /\ row' = row \ {a \in {req[r].att} : Unlinked(a)}
  /\ deleted' = deleted \cup {a \in {req[r].att} : Unlinked(a)}
  /\ wish' = wish \ {req[r].att}
  /\ req' = [req EXCEPT ![r] = Idle]
  /\ UNCHANGED <<drawn, blobs, link, wanted, sent, glitches>>

-----------------------------------------------------------------------------
\* The storage worker, the database or the client fails; the answer is lost.
AttachmentRequestLost(r) ==
  /\ req[r].pc # "idle"
  /\ glitches < MaxGlitches /\ glitches' = glitches + 1
  /\ req' = [req EXCEPT ![r] = Idle]
  /\ UNCHANGED <<drawn, blobs, row, link, wanted, sent, wish, deleted>>

RequestStep(r) ==
  \/ attachmentsHandler_insert(r)
  \/ \E own \in BOOLEAN : deleteHandler(r, own)
  \/ attachmentsHandler_delete(r)

AttNext ==
  \/ \E r \in Reqs :
       \/ RequestStep(r)
       \/ AttachmentRequestLost(r)
       \/ \E a \in Atts : \/ attachmentsHandler_select(r, a)
                          \/ \E m \in sent \cup Drafts \cup {NoMsg}, own \in BOOLEAN :
                               attachmentsHandler_store(r, a, m, own)
  \/ \E m \in Msgs, S \in SUBSET Atts : linkAttachments(m, S)
  \/ \E a \in Atts : ClientDeletes(a) \/ attachmentsHandler_refuse(a)

AttSpec == AttInit /\ [][AttNext]_attVars

\* A request that has begun goes on, and the client repeats a DELETE that got
\* no answer, as the handler's comment expects of it.
AttFairness ==
  /\ \A r \in Reqs : WF_attVars(RequestStep(r))
  /\ \A a \in Atts :
       WF_attVars((\E r \in Reqs : attachmentsHandler_select(r, a))
                    \/ attachmentsHandler_refuse(a))

-----------------------------------------------------------------------------
(* What the attachments promise.                                            *)

\* A message that was accepted keeps every attachment it was sent with: its
\* links are complete, no other message takes them over, and no deletion that
\* was under way removes their rows.
SentComplete ==
  \A m \in sent : \A a \in wanted[m] : a \in row /\ link[a] = m

\* An attachment that a message can still be sent with, and that nobody is
\* deleting, has its bytes stored, whatever failed during its upload: in the
\* customer's storage, unless the worker looked that up in vain.
SendableHasObject ==
  \A a \in Atts : Unlinked(a) =>
    \/ a \in object
    \/ a \in astray /\ a \in missed
    \/ a \in wish

\* A deletion that took the row has left no bytes behind in either storage,
\* whatever other deletions, sends and failures ran beside it, as long as the
\* worker never looked the attachment's storage up in vain.
NoBlobLeft ==
  \A a \in deleted : a \notin object \cup astray \/ a \in missed

\* Rows and bytes stay together although no transaction spans them: what can be
\* sent has its bytes, and a row that was deleted left none behind.
BytesFollowRows == SendableHasObject /\ NoBlobLeft

\* A deletion that is retried converges: the row is gone, and the object unless
\* the worker missed the storage, or the attachment belongs to a message.
DeleteConverges ==
  \A a \in Atts :
    a \in wish /\ a \in row ~>
      (a \notin row /\ (a \notin object \/ a \in missed)) \/ link[a] # NoMsg
=============================================================================
