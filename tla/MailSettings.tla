---------------------------- MODULE MailSettings ----------------------------
(***************************************************************************)
(* The settings page of apps/webmail: routes/settings/SignaturesTab,       *)
(* AppearanceTab, AutoReplyTab, FiltersTab, BridgeTab, the preferences of  *)
(* App.tsx and signature.ts. (SecurityTab is in KeyRing and Session.)      *)
(* A tab loads the settings of its mailbox once, when it is shown, and     *)
(* names its mailbox through props.mailbox, which is whatever mailbox is   *)
(* selected when it is read. A set of settings (a signature with its       *)
(* display name and photo, the appearance, the auto-reply rule) is         *)
(* abstracted to the mailbox it was made for; Default is what the program  *)
(* starts with. Filters, address rules and bridge credentials are items.   *)
(***************************************************************************)
EXTENDS Naturals, FiniteSets

CONSTANTS
  Holders,    \* mailboxes
  ItemIds,   \* ids of filters, address rules and credentials
  Default,   \* default settings
  MaxSaves,  \* bound on handlers waiting at once
  MaxSteps   \* bound on what the user does

ASSUME MailSettingsAssumption ==
  Default \notin Holders /\ MaxSaves \in Nat /\ MaxSteps \in Nat

VARIABLES
  owner,     \* selectedMailbox
  tab,       \* the tab on screen
  look,      \* density, layout, theme, language...: signals and localStorage
  localSig,  \* byos.signature.<mailbox> in localStorage
  settings,  \* the server's settings by mailbox
  rules,     \* the server's items
  deleted,   \* items whose deletion was confirmed, with the tab it was made in
  saves,     \* handlers waiting for the server
  steps      \* operations so far

settingsVars == <<owner, tab, look, localSig, settings, rules, deleted, saves, steps>>

Made == Holders \cup {Default}
Tabs == {"none", "signatures", "appearance", "autoreply", "filters", "bridge"}
ItemKinds == {"custom", "sieve", "address", "bridge"}
(* FiltersTab has savingRule beside savingFilter; the others have one flag. *)
Flags == {"main", "rule"}
Flag(kind) == IF kind = "address" THEN "rule" ELSE "main"
(* An item: its mailbox, its kind, whether it is active, its version,      *)
(* which is 0 once it is deleted.                                          *)
RuleRow == [box : Holders, kind : ItemKinds, on : BOOLEAN, ver : Nat]
NoRules == [i \in {} |-> [box |-> owner, kind |-> "custom", on |-> TRUE, ver |-> 0]]
Listed(l) == DOMAIN l \subseteq ItemIds /\ \A i \in DOMAIN l : l[i] \in RuleRow

MailSettingsTypeOK ==
  /\ owner \in Holders
  /\ tab.kind \in Tabs /\ tab.no \in 0..MaxSteps
  /\ tab.form \in Made /\ Listed(tab.items)
  /\ tab.loading \in BOOLEAN /\ tab.saving \subseteq Flags
  /\ look \in Made
  /\ localSig \in [Holders -> Made]
  /\ settings \in [Holders -> [sig : Made, look : Made, reply : Made]]
  /\ Listed(rules) /\ deleted \subseteq ItemIds \X (0..MaxSteps)
  /\ \A s \in saves : /\ s.box \in Holders /\ s.no \in 0..MaxSteps
                      /\ s.value \in Made /\ s.form \in Made /\ Listed(s.items)
                      /\ s.id \in ItemIds \cup {Default}
  /\ steps \in 0..MaxSteps

Shown(kind, no) == [kind |-> kind, no |-> no, form |-> Default, items |-> NoRules,
                    loading |-> kind # "none", saving |-> {}]
MailSettingsInit ==
  /\ owner \in Holders
  /\ tab = Shown("none", 0)
  /\ look = Default
  /\ localSig = [o \in Holders |-> Default]
  /\ settings = [o \in Holders |-> [sig |-> o, look |-> o, reply |-> o]]
  /\ \/ rules = NoRules
     \/ \E i \in ItemIds, kind \in ItemKinds :
          rules = [j \in {i} |-> [box |-> owner, kind |-> kind, on |-> TRUE, ver |-> 1]]
  /\ deleted = {} /\ saves = {} /\ steps = 0

----------------------------------------------------------------------------
Step == steps < MaxSteps /\ steps' = steps + 1

(* A request and, from "back" on, its answer: ok or an error. *)
Request(op) == [op |-> op, at |-> "go", ok |-> FALSE, box |-> owner, no |-> tab.no, id |-> Default,
                kind |-> "custom", on |-> TRUE, value |-> Default, form |-> tab.form, items |-> NoRules]
Requested(s) == Cardinality(saves) < MaxSaves /\ saves' = saves \cup {s}
Mine(s) == s.no = tab.no
Unless(own, s) == IF Mine(s) THEN own ELSE tab

(* The server carries a request out, or not; its answer is on the way. *)
Replied(s, ok) == saves' = (saves \ {s}) \cup {[s EXCEPT !.at = "back", !.ok = ok]}
Live(box) == {i \in DOMAIN rules : rules[i].box = box /\ rules[i].ver > 0}
OfKind(ids, bridge) == {i \in ids : (rules[i].kind = "bridge") = bridge}
ServerReads(s) ==
  /\ s.op = "load" \/ s.op = "prefs"
  /\ saves' = (saves \ {s}) \cup {[s EXCEPT !.at = "back", !.ok = TRUE,
       !.value = CASE s.kind = "signatures" -> settings[s.box].sig
                   [] s.kind = "autoreply" -> settings[s.box].reply
                   [] OTHER -> settings[s.box].look,
       !.items = IF s.kind \in {"filters", "bridge"}
                   THEN [i \in OfKind(Live(s.box), s.kind = "bridge") |-> rules[i]] ELSE NoRules]}
  /\ UNCHANGED <<settings, rules>>
ServerStores(s) ==
  /\ s.op \in {"sig", "look", "reply"}
  /\ settings' = CASE s.op = "sig" -> [settings EXCEPT ![s.box].sig = s.value]
                   [] s.op = "look" -> [settings EXCEPT ![s.box].look = s.value]
                   [] s.op = "reply" -> [settings EXCEPT ![s.box].reply = s.value]
  /\ Replied(s, TRUE)
  /\ UNCHANGED rules
ServerCreates(s) ==
  /\ s.op = "create"
  /\ \E i \in ItemIds \ DOMAIN rules :
       LET row == [box |-> s.box, kind |-> s.kind, on |-> TRUE, ver |-> 1]
       IN /\ rules' = [j \in DOMAIN rules \cup {i} |-> IF j = i THEN row ELSE rules[j]]
          /\ saves' = (saves \ {s}) \cup {[s EXCEPT !.at = "back", !.ok = TRUE, !.id = i,
                                                   !.items = [j \in {i} |-> row]]}
  /\ UNCHANGED settings
ServerUpdates(s) ==
  /\ s.op \in {"toggle", "edit"} /\ s.id \in Live(s.box)
  /\ LET row == [rules[s.id] EXCEPT !.on = IF s.op = "toggle" THEN s.on ELSE @,
                                    !.ver = IF s.op = "edit" THEN @ + 1 ELSE @]
     IN /\ rules' = [rules EXCEPT ![s.id] = row]
        /\ saves' = (saves \ {s}) \cup {[s EXCEPT !.at = "back", !.ok = TRUE,
                                                 !.items = [j \in {s.id} |-> row]]}
  /\ UNCHANGED settings
ServerDeletes(s) ==
  /\ s.op = "delete" /\ s.id \in Live(s.box)
  /\ rules' = [rules EXCEPT ![s.id].ver = 0]
  /\ Replied(s, TRUE)
  /\ UNCHANGED settings
ServerDoes(s) ==
  /\ s.at = "go"
  /\ \/ ServerReads(s) \/ ServerStores(s) \/ ServerCreates(s) \/ ServerUpdates(s) \/ ServerDeletes(s)
     \/ Replied(s, FALSE) /\ UNCHANGED <<settings, rules>>
  /\ UNCHANGED <<owner, tab, look, localSig, deleted, steps>>
(* The connection breaks and an answer is lost. *)
AnswerLost(s) ==
  /\ s.at = "back" /\ s.ok
  /\ Replied(s, FALSE)
  /\ UNCHANGED <<owner, tab, look, localSig, settings, rules, deleted, steps>>

----------------------------------------------------------------------------
(* Showing a tab. What was typed in the one before stays with its waiting  *)
(* handlers only.                                                          *)
ShowTab(kind) ==
  /\ Step /\ kind # tab.kind
  /\ tab' = Shown(kind, tab.no + 1)
  /\ LET left == {IF Mine(s) THEN [s EXCEPT !.form = tab.form] ELSE s : s \in saves}
     IN IF kind = "none" THEN saves' = left
        ELSE /\ Cardinality(left) < MaxSaves
             /\ saves' = left \cup {[Request("load") EXCEPT !.no = tab.no + 1, !.kind = kind]}
  /\ UNCHANGED <<owner, look, localSig, settings, rules, deleted>>

(* The callbacks of AppearanceTab reach App.tsx even from a tab that is    *)
(* gone. AutoReplyTab keeps its defaults when the load fails.              *)
LoadTabAnswer(s) ==
  /\ s.op = "load" /\ s.at = "back"
  /\ saves' = saves \ {s}
  /\ tab' = Unless([tab EXCEPT !.loading = FALSE,
                               !.form = IF s.ok THEN s.value ELSE @,
                               !.items = IF s.ok THEN s.items ELSE @], s)
  /\ look' = IF s.ok /\ s.kind = "appearance" THEN s.value ELSE look
  /\ UNCHANGED <<owner, localSig, settings, rules, deleted, steps>>

(* Every field is typed again, for the mailbox selected now. *)
FillForm ==
  /\ Step /\ tab.kind \in {"signatures", "autoreply"} /\ ~tab.loading /\ tab.form # owner
  /\ tab' = [tab EXCEPT !.form = owner]
  /\ UNCHANGED <<owner, look, localSig, settings, rules, deleted, saves>>

(* The save button of the signatures and of the auto-reply tab. *)
SaveForm(kind, op) ==
  /\ Step /\ tab.kind = kind /\ ~tab.loading /\ tab.saving = {}
  /\ tab' = [tab EXCEPT !.saving = {"main"}]
  /\ Requested([Request(op) EXCEPT !.value = tab.form])
  /\ UNCHANGED <<owner, look, localSig, settings, rules, deleted>>
handleSaveSignatures == SaveForm("signatures", "sig")
handleSaveAutoReply == SaveForm("autoreply", "reply")

(* Then the signature is kept in this browser as well, under the mailbox   *)
(* that is selected by then.                                               *)
SignsWithNumber(s) == localSig' = [localSig EXCEPT ![owner] = s.no]
saveSignature(s) ==
  localSig' = [localSig EXCEPT ![owner] = IF Mine(s) THEN tab.form ELSE s.form]
FormSaved(s) ==
  /\ s.op \in {"sig", "reply", "look"} /\ s.at = "back"
  /\ saves' = saves \ {s}
  /\ IF s.op = "sig" /\ s.ok THEN saveSignature(s) ELSE UNCHANGED localSig
  /\ tab' = Unless([tab EXCEPT !.saving = {}], s)
  /\ UNCHANGED <<owner, look, settings, rules, deleted, steps>>

(* Each option of the appearance tab saves all of them as they are shown,  *)
(* before the load has ended too.                                          *)
handleApply ==
  /\ Step /\ tab.kind = "appearance"
  /\ tab' = [tab EXCEPT !.saving = {"main"}]
  /\ Requested([Request("look") EXCEPT !.value = look])
  /\ UNCHANGED <<owner, look, localSig, settings, rules, deleted>>

(* loadMailboxData also loads the appearance of its mailbox. *)
PrefsAnswer(s) ==
  /\ s.op = "prefs" /\ s.at = "back"
  /\ saves' = saves \ {s}
  /\ look' = IF s.ok THEN s.value ELSE look
  /\ UNCHANGED <<owner, tab, localSig, settings, rules, deleted, steps>>

(* handleSwitchAccount, and handleLogout of one account when its request   *)
(* has been answered: nothing on the page is loaded again.                 *)
SwitchOwner(o) ==
  /\ Step /\ o # owner
  /\ owner' = o
  /\ Requested([Request("prefs") EXCEPT !.box = o, !.kind = "appearance"])
  /\ UNCHANGED <<tab, look, localSig, settings, rules, deleted>>

----------------------------------------------------------------------------
(* Filters, address rules and bridge credentials.                          *)

OnItems == UNCHANGED <<owner, look, localSig, settings, rules, deleted>>
(* Only the dialog of the bridge tab opens while its list is loading. *)
CreateItem(where, kind) ==
  /\ Step /\ tab.kind = where /\ (where = "bridge" \/ ~tab.loading) /\ Flag(kind) \notin tab.saving
  /\ tab' = [tab EXCEPT !.saving = @ \cup {Flag(kind)}]
  /\ Requested([Request("create") EXCEPT !.kind = kind])
  /\ OnItems
handleSaveCustomFilter == CreateItem("filters", "custom")
handleSaveSieveFilter == CreateItem("filters", "sieve")
handleAddAddressRule == CreateItem("filters", "address")
handleCreateToken == CreateItem("bridge", "bridge")

EditFilter(i) ==
  /\ Step /\ tab.items[i].kind = "custom" /\ ~tab.loading /\ "main" \notin tab.saving
  /\ tab' = [tab EXCEPT !.saving = @ \cup {"main"}]
  /\ Requested([Request("edit") EXCEPT !.id = i])
  /\ OnItems
handleToggleFilterActive(i) ==
  /\ Step /\ tab.items[i].kind \in {"custom", "sieve"} /\ ~tab.loading
  /\ Requested([Request("toggle") EXCEPT !.id = i, !.on = ~tab.items[i].on])
  /\ UNCHANGED tab /\ OnItems
DeleteItem(i, kinds) ==
  /\ Step /\ tab.items[i].kind \in kinds /\ ~tab.loading
  /\ Requested([Request("delete") EXCEPT !.id = i, !.kind = tab.items[i].kind])
  /\ UNCHANGED tab /\ OnItems
handleDeleteFilter(i) == DeleteItem(i, {"custom", "sieve"})
handleDeleteAddressRule(i) == DeleteItem(i, {"address"})
handleRevoke(i) == DeleteItem(i, {"bridge"})

(* A created item joins the list; a credential has the list loaded again.  *)
CreateAnswer(s) ==
  /\ s.op = "create" /\ s.at = "back"
  /\ IF s.ok /\ s.kind = "bridge"
       THEN /\ tab' = Unless([tab EXCEPT !.loading = TRUE], s)
            /\ saves' = (saves \ {s}) \cup
                 {[Request("reload") EXCEPT !.no = s.no, !.kind = "bridge"]}
       ELSE /\ tab' = Unless([tab EXCEPT !.saving = @ \ {Flag(s.kind)}, !.items =
                        IF s.ok THEN [i \in DOMAIN @ \cup {s.id} |-> IF i = s.id THEN s.items[i] ELSE @[i]]
                                ELSE @], s)
            /\ saves' = saves \ {s}
  /\ UNCHANGED <<owner, look, localSig, settings, rules, deleted, steps>>
loadCredentials(s) ==
  /\ s.op = "reload"
  /\ saves' = saves \ {s}
  /\ \E list \in {tab.items, [i \in OfKind(Live(s.box), TRUE) |-> rules[i]]} :
       tab' = Unless([tab EXCEPT !.items = list, !.loading = FALSE, !.saving = {}], s)
  /\ UNCHANGED <<owner, look, localSig, settings, rules, deleted, steps>>

(* An updated filter takes its place in the list, if it is there still. *)
UpdateOrInsert(s) ==
  /\ s.op \in {"toggle", "edit"} /\ s.at = "back"
  /\ saves' = saves \ {s}
  /\ tab' = Unless([tab EXCEPT !.saving = IF s.op = "edit" THEN @ \ {"main"} ELSE @,
                               !.items = IF s.ok THEN [i \in DOMAIN @ \cup {s.id} |->
                                                         IF i = s.id THEN s.items[i] ELSE @[i]] ELSE @], s)
  /\ UNCHANGED <<owner, look, localSig, settings, rules, deleted, steps>>
UpdateAnswer(s) ==
  /\ s.op \in {"toggle", "edit"} /\ s.at = "back"
  /\ saves' = saves \ {s}
  /\ tab' = Unless([tab EXCEPT !.saving = IF s.op = "edit" THEN @ \ {"main"} ELSE @,
                               !.items = IF s.ok THEN [i \in DOMAIN @ |->
                                                         IF i = s.id THEN s.items[i] ELSE @[i]] ELSE @], s)
  /\ UNCHANGED <<owner, look, localSig, settings, rules, deleted, steps>>
DeleteAnswer(s) ==
  /\ s.op = "delete" /\ s.at = "back"
  /\ saves' = saves \ {s}
  /\ deleted' = IF s.ok THEN deleted \cup {<<s.id, s.no>>} ELSE deleted
  /\ tab' = Unless([tab EXCEPT !.items = IF s.ok THEN [i \in DOMAIN @ \ {s.id} |-> @[i]] ELSE @], s)
  /\ UNCHANGED <<owner, look, localSig, settings, rules, steps>>

----------------------------------------------------------------------------
(* The tabs, by what they offer. *)
SignaturesTab == tab.kind = "signatures" /\ (FillForm \/ handleSaveSignatures)
AutoReplyTab == tab.kind = "autoreply" /\ (FillForm \/ handleSaveAutoReply)
FilterList ==
  \E i \in DOMAIN tab.items : handleToggleFilterActive(i) \/ handleDeleteFilter(i)
AddressLists ==
  handleAddAddressRule \/ \E i \in DOMAIN tab.items : handleDeleteAddressRule(i)
FilterDialogs ==
  \/ handleSaveCustomFilter \/ handleSaveSieveFilter
  \/ \E i \in DOMAIN tab.items : EditFilter(i)
BridgeTab == handleCreateToken \/ \E i \in DOMAIN tab.items : handleRevoke(i)

PageStep ==
  \/ \E kind \in Tabs : ShowTab(kind)
  \/ SignaturesTab \/ AutoReplyTab \/ handleApply
  \/ FilterList \/ AddressLists \/ FilterDialogs
  \/ BridgeTab
  \/ \E o \in Holders : SwitchOwner(o)

SaveStep(s) ==
  \/ ServerDoes(s) \/ AnswerLost(s)
  \/ LoadTabAnswer(s) \/ FormSaved(s) \/ PrefsAnswer(s)
  \/ CreateAnswer(s) \/ loadCredentials(s) \/ UpdateAnswer(s) \/ DeleteAnswer(s)

MailSettingsNext == PageStep \/ \E s \in saves : SaveStep(s)
MailSettingsSpec == MailSettingsInit /\ [][MailSettingsNext]_settingsVars

(* Every request is answered or fails in the end, so a waiting handler     *)
(* always resumes.                                                         *)
MailSettingsFairness == WF_settingsVars(\E s \in saves : SaveStep(s))

----------------------------------------------------------------------------
(* A filter or an address rule that was deleted does not come back to the  *)
(* list it was deleted from, though answers to earlier changes of it come  *)
(* after the deletion's.                                                   *)
NoGhostFilter ==
  \A i \in DOMAIN tab.items : tab.items[i].kind # "bridge" => <<i, tab.no>> \notin deleted

(* The save buttons come back: each "saving" is always lifted, whatever    *)
(* else is being saved.                                                    *)
SavingEnds == \A f \in Flags : f \in tab.saving ~> f \notin tab.saving
=============================================================================
