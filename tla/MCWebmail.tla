------------------------------ MODULE MCWebmail ------------------------------
(* The webmail application for TLC: its parts hold separate state, and each  *)
(* behaviour is one of one part, chosen at the start, while the others rest. *)
EXTENDS Session, MailView, Compose, AddressBook, Import, MailSettings
CONSTANTS a, b, m1, m2, d1, d2, f1, c1, c2, i1, lab

VARIABLE part   \* the part of the application that moves

\* Two messages of one mailbox and a draft of the other.
Home == [m \in Mail |-> IF m = d1 THEN b ELSE a]

\* Files of up to three lines, the longer ones with a separator inside a body,
\* an escaped separator and a blank line before one; and one that is no mailbox.
Mbox(rest) == [mbox |-> TRUE, lines |-> <<"from">> \o rest]
LineKinds == {"from", "text", "blank", "esc"}
FewFiles ==
  {Mbox(r) : r \in UNION {[1..n -> LineKinds] : n \in 0..2}}
    \cup {Mbox(<<"text", "from", "text">>), Mbox(<<"text", "blank", "from", "esc", "text">>)}
    \cup {[mbox |-> FALSE, lines |-> <<"from", "text">>]}

webVars == <<sessionVars, viewVars, composeVars, bookVars, importVars, settingsVars, part>>

\* The session of a tab that has finished its first request and rests.
SessionAtRest ==
  /\ user = None /\ shape = Full /\ box = None /\ key = None /\ unlocked = None
  /\ list = <<>> /\ durable = <<>>
  /\ stored = [n \in Accounts |-> None] /\ vault = [n \in Accounts |-> NoEntry]
  /\ token = None /\ stand = None /\ cookie = None
  /\ loading = FALSE /\ loginBusy = FALSE /\ codeBusy = FALSE
  /\ challenge = None /\ cached = FALSE /\ joining = None /\ joinBusy = FALSE
  /\ tasks = {} /\ ops = 0

\* The application starts in mailbox a, which has the mail; b has the draft.
\* The mail is in the inbox, beside a folder and a label of the user's, or it is
\* all in the trash of a mailbox that has neither.
Init ==
  /\ part \in {"session", "view", "compose", "book", "import", "settings"}
  /\ IF part = "session" THEN SessionInit ELSE SessionAtRest
  /\ MailViewInit /\ mbox = a /\ (view.folder = "trash") = (cfs = {})
  /\ part = "view" \/ view.folder = "inbox"
  /\ ComposeInit
  /\ AddressBookInit /\ book = a
  /\ ImportInit /\ target = a
  /\ MailSettingsInit /\ owner = a /\ (part = "settings" \/ rules = NoRules)

Next ==
  \/ /\ part = "session" /\ SessionNext
     /\ UNCHANGED <<viewVars, composeVars, bookVars, importVars, settingsVars, part>>
  \/ /\ part = "view" /\ MailViewNext
     /\ UNCHANGED <<sessionVars, composeVars, bookVars, importVars, settingsVars, part>>
  \/ /\ part = "compose" /\ ComposeNext
     /\ UNCHANGED <<sessionVars, viewVars, bookVars, importVars, settingsVars, part>>
  \/ /\ part = "book" /\ AddressBookNext
     /\ UNCHANGED <<sessionVars, viewVars, composeVars, importVars, settingsVars, part>>
  \/ /\ part = "import" /\ ImportNext
     /\ UNCHANGED <<sessionVars, viewVars, composeVars, bookVars, settingsVars, part>>
  \/ /\ part = "settings" /\ MailSettingsNext
     /\ UNCHANGED <<sessionVars, viewVars, composeVars, bookVars, importVars, part>>

\* A part that rests has nothing under way, so its fairness asks for nothing.
FairSpec ==
  /\ Init /\ [][Next]_webVars
  /\ SessionFairness /\ MailViewFairness /\ ComposeFairness /\ ImportFairness
  /\ MailSettingsFairness

----------------------------------------------------------------------------
(* The state of every part is well formed, its waiting handlers included. *)
WebmailTypeOK ==
  /\ SessionTypeOK /\ MailViewTypeOK /\ ComposeTypeOK
  /\ AddressBookTypeOK /\ ImportTypeOK /\ MailSettingsTypeOK

(* Optimistic versions: a save of a draft or of a contact that the server   *)
(* would accept was made from the row as it is now (handleSaveDraft,        *)
(* handleSaveContact), whatever other devices, late answers and reloads did *)
(* between the two.                                                         *)
NoLostUpdate == NoLostDraftUpdate /\ NoLostContactUpdate

(* What was removed stays removed: an attachment taken off a form has no    *)
(* row and goes out with no message (removeComposeAttachment), a deleted    *)
(* filter or address rule does not return to its list (handleDeleteFilter), *)
(* in whatever order the answers to earlier requests about it come.         *)
RemovedStaysRemoved == RemovedNeverSent /\ NoGhostFilter

(* Nothing that is under way stays so: the loading screen, a sign-out,      *)
(* "decrypting", the busy status of the compose form, an import and the     *)
(* save buttons' "saving" all end, on every path of the handlers that began *)
(* them.                                                                    *)
ScreenUnblocks ==
  LoadingEnds /\ LogoutEnds /\ DecryptEnds /\ BusyEnds /\ ImportEnds /\ SavingEnds
=============================================================================
