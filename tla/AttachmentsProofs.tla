------------------------- MODULE AttachmentsProofs -------------------------
(***************************************************************************)
(* Theorems about Attachments, for every set of attachments, messages and  *)
(* concurrent requests and every number of failures.                       *)
(***************************************************************************)
EXTENDS Attachments, TLAPS

-----------------------------------------------------------------------------
(* The inductive invariant. SentComplete needs that an INSERT never meets   *)
(* an existing row: an upload's id is its own, and is not in a row yet.     *)
(* SendableHasObject needs that a request which erases an object does so    *)
(* for an id whose client is still waiting, or that has no sendable row.    *)
(* NoBlobLeft needs that what a request has erased is not stored again.     *)

\* A request under way has an attachment whose id was drawn.
Working ==
  \A r \in Reqs : req[r].pc # "idle" => req[r].att \in drawn

\* The id of an upload belongs to no other request, to no row and to nothing
\* deleted, and its object is stored.
Uploading ==
  \A r \in Reqs : req[r].pc = "stored" =>
    /\ req[r].att \in object \/ (req[r].att \in astray /\ req[r].att \in missed)
    /\ req[r].att \notin row /\ req[r].att \notin deleted
    /\ \A s \in Reqs : s # r /\ req[s].pc # "idle" => req[s].att # req[r].att

\* The client of a deletion under way still waits, unless there is nothing
\* left that could be sent.
Deleting ==
  \A r \in Reqs :
    req[r].pc \in {"selected", "erased"} /\ Unlinked(req[r].att) =>
      req[r].att \in wish

\* An object is in the default storage only if a lookup failed, so what was
\* erased in the customer's storage is nowhere else.
Erased ==
  /\ astray \subseteq missed
  /\ \A r \in Reqs : req[r].pc = "erased" =>
       req[r].att \notin object \/ req[r].att \in missed

AttInv ==
  /\ AttTypeOK
  /\ row \subseteq drawn
  /\ Working
  /\ Uploading
  /\ Deleting
  /\ Erased
  /\ SentComplete
  /\ SendableHasObject
  /\ NoBlobLeft
  /\ deleted \subseteq drawn

\* Every step of an upload, a deletion or a send keeps the invariant.
LEMMA AttStep == AttInv /\ [AttNext]_attVars => AttInv'
<1> SUFFICES ASSUME AttInv, [AttNext]_attVars PROVE AttInv'
  OBVIOUS
<1> USE AttachmentsAssumption DEF AttInv, AttTypeOK, Requests, Owners
<1>1. ASSUME NEW r \in Reqs, attachmentsHandler_insert(r)
      PROVE  AttInv'
  <2>1. AttTypeOK'
    BY <1>1
    DEF attachmentsHandler_insert, Idle, blobs, Working, Unlinked
  <2>2. (row \subseteq drawn)' /\ Working'
    BY <1>1, <2>1
    DEF attachmentsHandler_insert, Idle, blobs, Working, Uploading, Unlinked
  <2>3. Uploading'
    BY <1>1, <2>1
    DEF attachmentsHandler_insert, Idle, blobs, Uploading, Working, Unlinked
  <2>4. Deleting'
    BY <1>1, <2>1
    DEF attachmentsHandler_insert, Idle, blobs, Deleting, Uploading, Unlinked
  <2>5. Erased'
    BY <1>1, <2>1
    DEF attachmentsHandler_insert, Idle, blobs, Erased, Uploading, Working, Unlinked
  <2>6. SentComplete'
    BY <1>1, <2>1
    DEF attachmentsHandler_insert, Idle, blobs, SentComplete, Uploading, Unlinked
  <2>7. SendableHasObject'
    BY <1>1, <2>1
    DEF attachmentsHandler_insert, Idle, blobs, SendableHasObject, Uploading, Deleting, Unlinked
  <2>8. NoBlobLeft' /\ (deleted \subseteq drawn)'
    BY <1>1, <2>1
    DEF attachmentsHandler_insert, Idle, blobs, NoBlobLeft, Erased, Uploading, Working, Unlinked
  <2> QED
    BY <2>1, <2>2, <2>3, <2>4, <2>5, <2>6, <2>7, <2>8
<1>2. ASSUME NEW r \in Reqs, NEW own \in BOOLEAN, deleteHandler(r, own)
      PROVE  AttInv'
  <2>1. AttTypeOK'
    BY <1>2
    DEF deleteHandler, getStorageForMailbox, Working, Unlinked
  <2>2. (row \subseteq drawn)' /\ Working'
    BY <1>2, <2>1
    DEF deleteHandler, getStorageForMailbox, Working, Uploading, Unlinked
  <2>3. Uploading'
    BY <1>2, <2>1
    DEF deleteHandler, getStorageForMailbox, Uploading, Working, Unlinked
  <2>4. Deleting'
    BY <1>2, <2>1
    DEF deleteHandler, getStorageForMailbox, Deleting, Uploading, Unlinked
  <2>5. Erased'
    BY <1>2, <2>1
    DEF deleteHandler, getStorageForMailbox, Erased, Uploading, Working, Unlinked
  <2>6. SentComplete'
    BY <1>2, <2>1
    DEF deleteHandler, getStorageForMailbox, SentComplete, Uploading, Unlinked
  <2>7. SendableHasObject'
    BY <1>2, <2>1
    DEF deleteHandler, getStorageForMailbox, SendableHasObject, Uploading, Deleting, Unlinked
  <2>8. NoBlobLeft' /\ (deleted \subseteq drawn)'
    BY <1>2, <2>1
    DEF deleteHandler, getStorageForMailbox, NoBlobLeft, Erased, Uploading, Working, Unlinked
  <2> QED
    BY <2>1, <2>2, <2>3, <2>4, <2>5, <2>6, <2>7, <2>8
<1>3. ASSUME NEW r \in Reqs, attachmentsHandler_delete(r)
      PROVE  AttInv'
  <2>1. AttTypeOK'
    BY <1>3
    DEF attachmentsHandler_delete, Idle, blobs, Working, Unlinked
  <2>2. (row \subseteq drawn)' /\ Working'
    BY <1>3, <2>1
    DEF attachmentsHandler_delete, Idle, blobs, Working, Uploading, Unlinked
  <2>3. Uploading'
    BY <1>3, <2>1
    DEF attachmentsHandler_delete, Idle, blobs, Uploading, Working, Unlinked
  <2>4. Deleting'
    BY <1>3, <2>1
    DEF attachmentsHandler_delete, Idle, blobs, Deleting, Uploading, Unlinked
  <2>5. Erased'
    BY <1>3, <2>1
    DEF attachmentsHandler_delete, Idle, blobs, Erased, Uploading, Working, Unlinked
  <2>6. SentComplete'
    BY <1>3, <2>1
    DEF attachmentsHandler_delete, Idle, blobs, SentComplete, Uploading, Unlinked
  <2>7. SendableHasObject'
    BY <1>3, <2>1
    DEF attachmentsHandler_delete, Idle, blobs, SendableHasObject, Uploading, Deleting, Unlinked
  <2>8. NoBlobLeft' /\ (deleted \subseteq drawn)'
    BY <1>3, <2>1
    DEF attachmentsHandler_delete, Idle, blobs, NoBlobLeft, Erased, Uploading, Working, Unlinked
  <2> QED
    BY <2>1, <2>2, <2>3, <2>4, <2>5, <2>6, <2>7, <2>8
<1>4. ASSUME NEW r \in Reqs, AttachmentRequestLost(r)
      PROVE  AttInv'
  <2>1. AttTypeOK'
    BY <1>4
    DEF AttachmentRequestLost, Idle, blobs, Working, Unlinked
  <2>2. (row \subseteq drawn)' /\ Working'
    BY <1>4, <2>1
    DEF AttachmentRequestLost, Idle, blobs, Working, Uploading, Unlinked
  <2>3. Uploading'
    BY <1>4, <2>1
    DEF AttachmentRequestLost, Idle, blobs, Uploading, Working, Unlinked
  <2>4. Deleting'
    BY <1>4, <2>1
    DEF AttachmentRequestLost, Idle, blobs, Deleting, Uploading, Unlinked
  <2>5. Erased'
    BY <1>4, <2>1
    DEF AttachmentRequestLost, Idle, blobs, Erased, Uploading, Working, Unlinked
  <2>6. SentComplete'
    BY <1>4, <2>1
    DEF AttachmentRequestLost, Idle, blobs, SentComplete, Uploading, Unlinked
  <2>7. SendableHasObject'
    BY <1>4, <2>1
    DEF AttachmentRequestLost, Idle, blobs, SendableHasObject, Uploading, Deleting, Unlinked
  <2>8. NoBlobLeft' /\ (deleted \subseteq drawn)'
    BY <1>4, <2>1
    DEF AttachmentRequestLost, Idle, blobs, NoBlobLeft, Erased, Uploading, Working, Unlinked
  <2> QED
    BY <2>1, <2>2, <2>3, <2>4, <2>5, <2>6, <2>7, <2>8
<1>5. ASSUME NEW r \in Reqs, NEW a \in Atts, attachmentsHandler_select(r, a)
      PROVE  AttInv'
  <2>1. AttTypeOK'
    BY <1>5
    DEF attachmentsHandler_select, blobs, Working, Unlinked
  <2>2. (row \subseteq drawn)' /\ Working'
    BY <1>5, <2>1
    DEF attachmentsHandler_select, blobs, Working, Uploading, Unlinked
  <2>3. Uploading'
    BY <1>5, <2>1
    DEF attachmentsHandler_select, blobs, Uploading, Working, Unlinked
  <2>4. Deleting'
    BY <1>5, <2>1
    DEF attachmentsHandler_select, blobs, Deleting, Uploading, Unlinked
  <2>5. Erased'
    BY <1>5, <2>1
    DEF attachmentsHandler_select, blobs, Erased, Uploading, Working, Unlinked
  <2>6. SentComplete'
    BY <1>5, <2>1
    DEF attachmentsHandler_select, blobs, SentComplete, Uploading, Unlinked
  <2>7. SendableHasObject'
    BY <1>5, <2>1
    DEF attachmentsHandler_select, blobs, SendableHasObject, Uploading, Deleting, Unlinked
  <2>8. NoBlobLeft' /\ (deleted \subseteq drawn)'
    BY <1>5, <2>1
    DEF attachmentsHandler_select, blobs, NoBlobLeft, Erased, Uploading, Working, Unlinked
  <2> QED
    BY <2>1, <2>2, <2>3, <2>4, <2>5, <2>6, <2>7, <2>8
<1>6. ASSUME NEW r \in Reqs, NEW a \in Atts, NEW m \in sent \cup Drafts \cup {NoMsg},
             NEW own \in BOOLEAN, attachmentsHandler_store(r, a, m, own)
      PROVE  AttInv'
  <2>1. AttTypeOK'
    BY <1>6
    DEF attachmentsHandler_store, Uploaded, getStorageForMailbox, Working, Unlinked
  <2>2. (row \subseteq drawn)' /\ Working'
    BY <1>6, <2>1
    DEF attachmentsHandler_store, Uploaded, getStorageForMailbox, Working, Uploading, Unlinked
  <2>3. Uploading'
    BY <1>6, <2>1
    DEF attachmentsHandler_store, Uploaded, getStorageForMailbox, Uploading, Working, Unlinked
  <2>4. Deleting'
    BY <1>6, <2>1
    DEF attachmentsHandler_store, Uploaded, getStorageForMailbox, Deleting, Uploading, Unlinked
  <2>5. Erased'
    BY <1>6, <2>1
    DEF attachmentsHandler_store, Uploaded, getStorageForMailbox, Erased, Uploading, Working, Unlinked
  <2>6. SentComplete'
    BY <1>6, <2>1
    DEF attachmentsHandler_store, Uploaded, getStorageForMailbox, SentComplete, Uploading, Unlinked
  <2>7. SendableHasObject'
    BY <1>6, <2>1
    DEF attachmentsHandler_store, Uploaded, getStorageForMailbox, SendableHasObject, Uploading, Deleting, Unlinked
  <2>8. NoBlobLeft' /\ (deleted \subseteq drawn)'
    BY <1>6, <2>1
    DEF attachmentsHandler_store, Uploaded, getStorageForMailbox, NoBlobLeft, Erased, Uploading, Working, Unlinked
  <2> QED
    BY <2>1, <2>2, <2>3, <2>4, <2>5, <2>6, <2>7, <2>8
<1>7. ASSUME NEW m \in Msgs, NEW S \in SUBSET Atts, linkAttachments(m, S)
      PROVE  AttInv'
  <2>1. AttTypeOK'
    BY <1>7
    DEF linkAttachments, blobs, Working, Unlinked
  <2>2. (row \subseteq drawn)' /\ Working'
    BY <1>7, <2>1
    DEF linkAttachments, blobs, Working, Uploading, Unlinked
  <2>3. Uploading'
    BY <1>7, <2>1
    DEF linkAttachments, blobs, Uploading, Working, Unlinked
  <2>4. Deleting'
    BY <1>7, <2>1
    DEF linkAttachments, blobs, Deleting, Uploading, Unlinked
  <2>5. Erased'
    BY <1>7, <2>1
    DEF linkAttachments, blobs, Erased, Uploading, Working, Unlinked
  <2>6. SentComplete'
    BY <1>7, <2>1
    DEF linkAttachments, blobs, SentComplete, Uploading, Unlinked
  <2>7. SendableHasObject'
    BY <1>7, <2>1
    DEF linkAttachments, blobs, SendableHasObject, Uploading, Deleting, Unlinked
  <2>8. NoBlobLeft' /\ (deleted \subseteq drawn)'
    BY <1>7, <2>1
    DEF linkAttachments, blobs, NoBlobLeft, Erased, Uploading, Working, Unlinked
  <2> QED
    BY <2>1, <2>2, <2>3, <2>4, <2>5, <2>6, <2>7, <2>8
<1>8. ASSUME NEW a \in Atts, ClientDeletes(a)
      PROVE  AttInv'
  <2>1. AttTypeOK'
    BY <1>8
    DEF ClientDeletes, blobs, Working, Unlinked
  <2>2. (row \subseteq drawn)' /\ Working'
    BY <1>8, <2>1
    DEF ClientDeletes, blobs, Working, Uploading, Unlinked
  <2>3. Uploading'
    BY <1>8, <2>1
    DEF ClientDeletes, blobs, Uploading, Working, Unlinked
  <2>4. Deleting'
    BY <1>8, <2>1
    DEF ClientDeletes, blobs, Deleting, Uploading, Unlinked
  <2>5. Erased'
    BY <1>8, <2>1
    DEF ClientDeletes, blobs, Erased, Uploading, Working, Unlinked
  <2>6. SentComplete'
    BY <1>8, <2>1
    DEF ClientDeletes, blobs, SentComplete, Uploading, Unlinked
  <2>7. SendableHasObject'
    BY <1>8, <2>1
    DEF ClientDeletes, blobs, SendableHasObject, Uploading, Deleting, Unlinked
  <2>8. NoBlobLeft' /\ (deleted \subseteq drawn)'
    BY <1>8, <2>1
    DEF ClientDeletes, blobs, NoBlobLeft, Erased, Uploading, Working, Unlinked
  <2> QED
    BY <2>1, <2>2, <2>3, <2>4, <2>5, <2>6, <2>7, <2>8
<1>9. ASSUME NEW a \in Atts, attachmentsHandler_refuse(a)
      PROVE  AttInv'
  <2>1. AttTypeOK'
    BY <1>9
    DEF attachmentsHandler_refuse, blobs, Working, Unlinked
  <2>2. (row \subseteq drawn)' /\ Working'
    BY <1>9, <2>1
    DEF attachmentsHandler_refuse, blobs, Working, Uploading, Unlinked
  <2>3. Uploading'
    BY <1>9, <2>1
    DEF attachmentsHandler_refuse, blobs, Uploading, Working, Unlinked
  <2>4. Deleting'
    BY <1>9, <2>1
    DEF attachmentsHandler_refuse, blobs, Deleting, Uploading, Unlinked
  <2>5. Erased'
    BY <1>9, <2>1
    DEF attachmentsHandler_refuse, blobs, Erased, Uploading, Working, Unlinked
  <2>6. SentComplete'
    BY <1>9, <2>1
    DEF attachmentsHandler_refuse, blobs, SentComplete, Uploading, Unlinked
  <2>7. SendableHasObject'
    BY <1>9, <2>1
    DEF attachmentsHandler_refuse, blobs, SendableHasObject, Uploading, Deleting, Unlinked
  <2>8. NoBlobLeft' /\ (deleted \subseteq drawn)'
    BY <1>9, <2>1
    DEF attachmentsHandler_refuse, blobs, NoBlobLeft, Erased, Uploading, Working, Unlinked
  <2> QED
    BY <2>1, <2>2, <2>3, <2>4, <2>5, <2>6, <2>7, <2>8
<1>10. CASE UNCHANGED attVars
  BY <1>10 DEF attVars, blobs, Working, Uploading, Deleting, Erased, SentComplete,
     SendableHasObject, NoBlobLeft, Unlinked
<1> QED
  BY <1>1, <1>2, <1>3, <1>4, <1>5, <1>6, <1>7, <1>8, <1>9, <1>10
     DEF AttNext, RequestStep

\* The invariant holds in every reachable state.
LEMMA AttAlways == AttSpec => []AttInv
<1>1. AttInit => AttInv
  BY AttachmentsAssumption DEF AttInit, AttInv, AttTypeOK, Requests, Owners,
     Idle, Working, Uploading, Deleting, Erased, SentComplete, SendableHasObject,
     NoBlobLeft, Unlinked
<1> QED
  BY <1>1, AttStep, PTL DEF AttSpec

\* Attachments is type correct for every instance.
THEOREM AttTypeCorrect == AttSpec => []AttTypeOK
<1>1. AttInv => AttTypeOK
  BY DEF AttInv
<1> QED
  BY <1>1, AttAlways, PTL

\* Whatever uploads, sends and deletions are under way and fail, an accepted
\* message keeps the rows of all its attachments.
THEOREM LinksStay == AttSpec => []SentComplete
<1>1. AttInv => SentComplete
  BY DEF AttInv
<1> QED
  BY <1>1, AttAlways, PTL

\* Store before INSERT and object before row: what can still be sent has its
\* bytes, unless its owner is deleting it, and has them in the customer's
\* storage unless the worker's lookup of it failed.
THEOREM SendableStored == AttSpec => []SendableHasObject
<1>1. AttInv => SendableHasObject
  BY DEF AttInv
<1> QED
  BY <1>1, AttAlways, PTL

\* Object before row: a deletion that took the row has left no bytes, unless
\* the worker's lookup of the storage failed for that attachment.
THEOREM DeletionsComplete == AttSpec => []NoBlobLeft
<1>1. AttInv => NoBlobLeft
  BY DEF AttInv
<1> QED
  BY <1>1, AttAlways, PTL

\* Store before INSERT, object before row: rows and bytes stay together over
\* every failure between the two (attachmentsHandler, deleteHandler).
THEOREM BytesKept == AttSpec => []BytesFollowRows
<1>1. SendableHasObject /\ NoBlobLeft => BytesFollowRows
  BY DEF BytesFollowRows
<1> QED
  BY <1>1, SendableStored, DeletionsComplete, PTL
=============================================================================
