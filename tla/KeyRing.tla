------------------------------ MODULE KeyRing ------------------------------
(***************************************************************************)
(* The keys of one mailbox, from its invitation on: the activation wizard  *)
(* (apps/webmail/src/routes/setup-account.tsx), the forgotten-password     *)
(* dialog and the unlock form of App.tsx, and the security tab             *)
(* (routes/settings/SecurityTab.tsx), against the rows they change on the  *)
(* server. Passwords, key pairs and recovery phrases are numbered in the   *)
(* order they are made up; 0 is none. A wrapped key is what the server     *)
(* stores: the secret key, the password its envelope opens with and the    *)
(* phrase its root wrap opens with.                                        *)
(***************************************************************************)
EXTENDS Naturals, FiniteSets

CONSTANTS
  Browsers,  \* the browsers the owner uses
  MaxPw,     \* bound on passwords made up
  MaxKey,    \* bound on key pairs generated
  MaxPhrase, \* bound on recovery phrases generated
  MaxMade,   \* bound on all of them together
  MaxOpen    \* bound on the dialogs and tabs in use at once

ASSUME KeyRingAssumption ==
  /\ MaxPw \in Nat \ {0} /\ MaxKey \in Nat \ {0} /\ MaxPhrase \in Nat
  /\ MaxMade \in Nat /\ MaxOpen \in Nat

VARIABLES
  wizard,    \* the activation page
  account,   \* users and mailboxes rows of the owner, mailbox_settings
  forgot,    \* the forgotten-password dialog of each browser
  heal,      \* the password of each browser's login that found no wrapped key
  tab,       \* the security tab
  made,      \* passwords, key pairs and phrases made up so far
  born,      \* the password each key was first wrapped under
  shown,     \* keys for which the phrase or an old password was presented
  restored   \* handleReactivateKeys has succeeded once

keyVars == <<wizard, account, forgot, heal, tab, made, born, shown, restored>>

Pws == 0..MaxPw
Keys == 0..MaxKey
Phrases == 0..MaxPhrase

Wrapped == [sk : Keys, pw : Pws, root : Phrases]
NoWrap == [sk |-> 0, pw |-> 0, root |-> 0]

NoWizard == [step |-> 0, pw |-> 0, phrase |-> 0, pk |-> 0, wrap |-> NoWrap,
             saved |-> FALSE, factor |-> FALSE, busy |-> FALSE]
NoForgot == [step |-> 0, challenge |-> FALSE, old |-> NoWrap,
             pw |-> 0, phrase |-> 0]
NoTab == [open |-> FALSE, prev |-> NoWrap, dialog |-> "none"]

WizardSteps == 0..4
ForgotSteps == 0..2
WizardPage == [step : WizardSteps, pw : Pws, phrase : Phrases, pk : Keys, wrap : Wrapped,
               saved : BOOLEAN, factor : BOOLEAN, busy : BOOLEAN]
AccountRow == [claimed : BOOLEAN, private : BOOLEAN, pw : Pws, pk : Keys, wrap : Wrapped,
               prev : Wrapped, sealed : [phrase : Phrases, pw : Pws]]
ForgotDialog == [step : ForgotSteps, challenge : BOOLEAN, old : Wrapped, pw : Pws,
                 phrase : Phrases]
SecurityTab == [open : BOOLEAN, prev : Wrapped, dialog : {"none", "changing", "secret"}]
Counters == [pw : Pws, key : Keys, phrase : Phrases]

KeyRingTypeOK ==
  /\ wizard \in WizardPage
  /\ account \in AccountRow
  /\ forgot \in [Browsers -> ForgotDialog]
  /\ heal \in [Browsers -> Pws]
  /\ tab \in SecurityTab
  /\ made \in Counters
  /\ born \in [Keys -> Pws]
  /\ shown \subseteq Keys
  /\ restored \in BOOLEAN

(* A mailbox the organisation manages comes with a provisional key pair,   *)
(* whose secret key the invitation carries under the activation token; a   *)
(* private one has none. An early mailbox is older than the column of the  *)
(* wrapped key (023_mailbox_invitations.sql): its owner has a password and *)
(* its row a public key only; which kind it is no longer matters.          *)
KeyRingInit ==
  /\ \E private, early \in BOOLEAN :
       LET pk == IF private /\ ~early THEN 0 ELSE 1
           pw == IF early THEN 1 ELSE 0
       IN /\ early => private
          /\ account = [claimed |-> early, private |-> private, pw |-> pw, pk |-> pk,
                        wrap |-> NoWrap, prev |-> NoWrap,
                        sealed |-> [phrase |-> 0, pw |-> 0]]
          /\ made = [pw |-> pw, key |-> pk, phrase |-> 0]
  /\ wizard = NoWizard
  /\ forgot = [b \in Browsers |-> NoForgot]
  /\ heal = [b \in Browsers |-> 0]
  /\ tab = NoTab
  /\ born = [k \in Keys |-> 0]
  /\ shown = {}
  /\ restored = FALSE

----------------------------------------------------------------------------
(* message_crypto.ts: what opens a wrapped key. 0 is the thrown error.     *)

autoUnwrapMailboxKey(pw, w) == IF w # NoWrap /\ pw = w.pw THEN w.sk ELSE 0
unwrapMailboxKeyWithRecoveryPhrase(phrase, w) ==
  IF phrase # 0 /\ phrase = w.root THEN w.sk ELSE 0
WrapWithoutRoot(pw, sk) == [sk |-> sk, pw |-> pw]
wrapMailboxKeyWithPassphrase(pw, sk) == [sk |-> sk, pw |-> pw, root |-> 0]

Room == made.pw + made.key + made.phrase < MaxMade
NewPw == made.pw + 1
NewKey == made.key + 1
NewPhrase == made.phrase + 1

----------------------------------------------------------------------------
(* setup-account.tsx: the activation wizard.                               *)

OnlyWizard == UNCHANGED <<account, forgot, heal, tab, shown, restored>>

(* The link is opened (again): whatever the page held is gone. *)
OpenSetup ==
  /\ wizard # NoWizard
  /\ wizard' = NoWizard
  /\ OnlyWizard /\ UNCHANGED <<made, born>>

(* verifyInvitation: an invitation already used is refused. *)
verifyInvitation ==
  /\ wizard.step = 0
  /\ ~account.claimed
  /\ wizard' = [wizard EXCEPT !.step = 1]
  /\ OnlyWizard /\ UNCHANGED <<made, born>>

(* Step 1: a password of 12 characters or more, typed twice. *)
isPasswordValid ==
  /\ wizard.step = 1 /\ ~wizard.busy
  /\ Room /\ NewPw \in Pws
  /\ wizard' = [wizard EXCEPT !.pw = NewPw]
  /\ made' = [made EXCEPT !.pw = NewPw]
  /\ OnlyWizard /\ UNCHANGED born

KeepsFirstWrap ==
  /\ wizard.step = 1 /\ ~wizard.busy
  /\ wizard.pw # 0
  /\ IF wizard.wrap # NoWrap
       THEN wizard' = [wizard EXCEPT !.step = 2] /\ UNCHANGED <<made, born>>
       ELSE /\ Room /\ NewPhrase \in Phrases /\ NewKey \in Keys
            /\ wizard' = [wizard EXCEPT !.step = 2, !.phrase = NewPhrase, !.pk = NewKey,
                            !.wrap = [sk |-> NewKey, pw |-> wizard.pw, root |-> NewPhrase]]
            /\ made' = [made EXCEPT !.phrase = NewPhrase, !.key = NewKey]
            /\ UNCHANGED born
  /\ OnlyWizard

(* A new phrase is generated at every pass, and a key pair too when the    *)
(* mailbox is private. Nothing unticks the box of step 2.                  *)
handleProceedToKeys ==
  /\ wizard.step = 1 /\ ~wizard.busy
  /\ wizard.pw # 0
  /\ Room /\ NewPhrase \in Phrases
  /\ account.private => NewKey \in Keys
  /\ LET key == IF account.private THEN NewKey ELSE 1
     IN /\ wizard' = [wizard EXCEPT !.step = 2, !.phrase = NewPhrase, !.pk = key,
                        !.wrap = [sk |-> key, pw |-> wizard.pw, root |-> NewPhrase]]
        /\ made' = [made EXCEPT !.phrase = NewPhrase,
                                !.key = IF account.private THEN NewKey ELSE @]
  /\ OnlyWizard /\ UNCHANGED born

(* Step 2: the box under the phrase, ticked or unticked. *)
ConfirmSaved ==
  /\ wizard.step = 2
  /\ wizard' = [wizard EXCEPT !.saved = ~@]
  /\ OnlyWizard /\ UNCHANGED <<made, born>>
BackToPassword ==
  /\ wizard.step = 2 /\ ~wizard.busy
  /\ wizard' = [wizard EXCEPT !.step = 1]
  /\ OnlyWizard /\ UNCHANGED <<made, born>>
handleProceedTo2FA ==
  /\ wizard.step = 2 /\ wizard.saved /\ ~wizard.busy
  /\ wizard' = [wizard EXCEPT !.step = 3]
  /\ OnlyWizard /\ UNCHANGED <<made, born>>

(* Step 3: a second factor is entered. *)
BackToPhrase ==
  /\ wizard.step = 3 /\ ~wizard.busy
  /\ wizard' = [wizard EXCEPT !.step = 2]
  /\ OnlyWizard /\ UNCHANGED <<made, born>>
is2FAValid ==
  /\ wizard.step = 3 /\ ~wizard.factor
  /\ wizard' = [wizard EXCEPT !.factor = TRUE]
  /\ OnlyWizard /\ UNCHANGED <<made, born>>
handleFinalizeActivation ==
  /\ wizard.step = 3 /\ wizard.saved /\ wizard.factor /\ ~wizard.busy
  /\ wizard' = [wizard EXCEPT !.busy = TRUE]
  /\ OnlyWizard /\ UNCHANGED <<made, born>>

(* claimInvitation on the server, once per invitation. The answer may be   *)
(* lost: the account is then active and the page shows an error.           *)
Claim(answered) ==
  /\ wizard.step = 3 /\ wizard.busy
  /\ ~account.claimed
  /\ account' = [account EXCEPT !.claimed = TRUE, !.pw = wizard.pw, !.pk = wizard.pk,
                                !.wrap = wizard.wrap]
  /\ born' = [born EXCEPT ![wizard.pk] = wizard.pw]
  /\ wizard' = IF answered THEN [wizard EXCEPT !.step = 4]
                           ELSE [wizard EXCEPT !.busy = FALSE]
  /\ UNCHANGED <<forgot, heal, tab, made, shown, restored>>
ClaimRefused ==
  /\ wizard.step = 3 /\ wizard.busy
  /\ wizard' = [wizard EXCEPT !.busy = FALSE]
  /\ OnlyWizard /\ UNCHANGED <<made, born>>

(* The phrase is sealed under the password in the settings, best effort,   *)
(* and the page is left for the inbox.                                     *)
SealPhrase ==
  /\ wizard.step = 4 /\ wizard.busy
  /\ \/ account' = [account EXCEPT !.sealed = [phrase |-> wizard.phrase, pw |-> wizard.pw]]
     \/ UNCHANGED account
  /\ wizard' = NoWizard
  /\ UNCHANGED <<forgot, heal, tab, made, born, shown, restored>>

----------------------------------------------------------------------------
(* App.tsx: the forgotten-password dialog.                                 *)

(* The browsers whose dialog is in use. A dialog goes on while there is     *)
(* room for what it would make.                                             *)
Dialogs == {b \in Browsers : forgot[b].step \in {1, 2}}

OnlyForgot == UNCHANGED <<wizard, account, heal, tab, shown, restored>>

handleOpenForgotPassword(b) ==
  /\ account.claimed /\ Room
  /\ forgot[b].step # 1
  /\ Cardinality(Dialogs \ {b}) + (IF tab.open THEN 1 ELSE 0) < MaxOpen
  /\ forgot' = [forgot EXCEPT ![b] = [NoForgot EXCEPT !.step = 1]]
  /\ OnlyForgot /\ UNCHANGED <<made, born>>

(* handleFindRecoveryMethods only fills the list of methods;               *)
(* handleRequestRecoveryCode opens a challenge and keeps the wrapped key   *)
(* the server has now.                                                     *)
handleRequestRecoveryCode(b) ==
  /\ forgot[b].step = 1 /\ Room
  /\ forgot' = [forgot EXCEPT ![b] =
                 [@ EXCEPT !.step = 2, !.challenge = TRUE, !.old = account.wrap]]
  /\ OnlyForgot /\ UNCHANGED <<made, born>>

BackToMethods(b) ==
  /\ forgot[b].step = 2 /\ Room
  /\ forgot' = [forgot EXCEPT ![b].step = 1]
  /\ OnlyForgot /\ UNCHANGED <<made, born>>

(* The new password is typed, with a recovery phrase or without one. *)
TypeReset(b) ==
  /\ forgot[b].step = 2
  /\ Room /\ NewPw \in Pws
  /\ \E phrase \in 0..made.phrase :
       forgot' = [forgot EXCEPT ![b] = [@ EXCEPT !.pw = NewPw, !.phrase = phrase]]
  /\ made' = [made EXCEPT !.pw = NewPw]
  /\ OnlyForgot /\ UNCHANGED born

(* The wrapped key and the public key that go with the reset. The phrase   *)
(* opens the old key, but the id passed to wasm_wrap_mailbox_key is the    *)
(* hex of the id's characters, 32 bytes where the crypto core takes 16:    *)
(* the call throws, the error is caught, and a fresh key pair is made.     *)
RootWrapAccepts(idBytes) == idBytes = 16
rewrapUnderNewPassword(f) ==
  IF f.old = NoWrap THEN NoWrap ELSE [f.old EXCEPT !.pw = f.pw]
rewrapOldKey(f) ==
  LET sk == unwrapMailboxKeyWithRecoveryPhrase(f.phrase, f.old)
  IN IF sk # 0 /\ RootWrapAccepts(32)
       THEN [sk |-> sk, pw |-> f.pw, root |-> f.phrase]
       ELSE NoWrap

(* recoveryFlowResetPasswordHandler: the challenge is used up, the current *)
(* wrap is archived unless the key is the old one re-wrapped.              *)
OldPublicKey(f, kept) ==
  account' = [account EXCEPT !.pw = f.pw,
                             !.wrap = IF kept # NoWrap THEN kept
                                      ELSE wrapMailboxKeyWithPassphrase(f.pw, NewKey)]
ServerReset(f, kept) ==
  LET rewrapped == kept # NoWrap
  IN account' = [account EXCEPT
       !.pw = f.pw,
       !.pk = IF rewrapped THEN @ ELSE NewKey,
       !.wrap = IF rewrapped THEN kept ELSE wrapMailboxKeyWithPassphrase(f.pw, NewKey),
       !.prev = IF rewrapped THEN NoWrap ELSE IF account.wrap # NoWrap THEN account.wrap ELSE @]

(* The sessions of the owner end with the reset: what the security tab or a *)
(* login of before still asks for is refused.                               *)
RevokeSessions == heal' = [c \in Browsers |-> 0] /\ tab' = NoTab

(* The last page of the dialog only says that the password is reset: it     *)
(* reads none of the fields, and the next dialog clears them.               *)
handleResetPasswordWithRecovery(b) ==
  /\ forgot[b].step = 2 /\ forgot[b].challenge /\ forgot[b].pw # 0
  /\ LET f == forgot[b]
         kept == rewrapOldKey(f)
     IN /\ kept = NoWrap => Room /\ NewKey \in Keys
        /\ ServerReset(f, kept)
        /\ made' = IF kept # NoWrap THEN made ELSE [made EXCEPT !.key = NewKey]
        /\ born' = IF kept # NoWrap THEN born ELSE [born EXCEPT ![NewKey] = f.pw]
        /\ shown' = IF kept # NoWrap
                      THEN shown \cup {unwrapMailboxKeyWithRecoveryPhrase(f.phrase, f.old)}
                      ELSE shown
  /\ \/ forgot' = [forgot EXCEPT ![b] = NoForgot]
     \/ forgot' = [forgot EXCEPT ![b].challenge = FALSE]      \* the answer is lost
  /\ RevokeSessions
  /\ UNCHANGED <<wizard, restored>>

(* handleUnlock and the add-mailbox dialog: a login that is answered        *)
(* without a wrapped key makes a key pair and registers it under the        *)
(* password typed, whatever the row holds by the time the request is        *)
(* served. The request may fail, which is only logged.                      *)
LoginFindsNoKey(b) ==
  /\ account.claimed /\ account.wrap = NoWrap
  /\ heal[b] = 0
  /\ heal' = [heal EXCEPT ![b] = account.pw]
  /\ UNCHANGED <<wizard, account, forgot, tab, made, born, shown, restored>>
SelfHeal(b) ==
  /\ heal[b] # 0
  /\ Room /\ NewKey \in Keys
  /\ account' = [account EXCEPT !.wrap = wrapMailboxKeyWithPassphrase(heal[b], NewKey),
                             !.pk = NewKey]
  /\ made' = [made EXCEPT !.key = NewKey]
  /\ born' = [born EXCEPT ![NewKey] = heal[b]]
  /\ heal' = [heal EXCEPT ![b] = 0]
  /\ UNCHANGED <<wizard, forgot, tab, shown, restored>>
HealFails(b) ==
  /\ heal[b] # 0
  /\ heal' = [heal EXCEPT ![b] = 0]
  /\ UNCHANGED <<wizard, account, forgot, tab, made, born, shown, restored>>

----------------------------------------------------------------------------
(* SecurityTab.tsx.                                                        *)

OnlyTab == UNCHANGED <<wizard, forgot, heal, shown, restored>>

(* The tab keeps the archived key of the session that opened it. *)
loadData ==
  /\ account.claimed /\ ~tab.open
  /\ Cardinality(Dialogs) < MaxOpen
  /\ tab' = [NoTab EXCEPT !.open = TRUE, !.prev = account.prev]
  /\ OnlyTab /\ UNCHANGED <<account, made, born>>
CloseTab ==
  /\ tab.open
  /\ tab' = NoTab
  /\ OnlyTab /\ UNCHANGED <<account, made, born>>

(* handleChangePassword: the current password is verified, then the new    *)
(* one is set. No key is wrapped again.                                    *)
VerifyCurrentPassword ==
  /\ tab.open
  /\ tab' = [tab EXCEPT !.dialog = "changing"]
  /\ OnlyTab /\ UNCHANGED <<account, made, born>>
handleChangePassword ==
  /\ tab.open /\ tab.dialog = "changing"
  /\ Room /\ NewPw \in Pws
  /\ account' = [account EXCEPT !.pw = NewPw]
  /\ tab' = [tab EXCEPT !.dialog = "none"]
  /\ made' = [made EXCEPT !.pw = NewPw]
  /\ OnlyTab /\ UNCHANGED born

(* The secret opens the archived key the tab knows; the password typed     *)
(* with it is not verified. The server takes the wrap, keeps the public    *)
(* key and clears the archive.                                             *)
handleReactivateKeys ==
  /\ tab.open /\ tab.prev # NoWrap
  /\ \E phrase \in 0..made.phrase, pw, pass \in 1..made.pw :
       LET byPhrase == unwrapMailboxKeyWithRecoveryPhrase(phrase, tab.prev)
           sk == IF byPhrase # 0 THEN byPhrase ELSE autoUnwrapMailboxKey(pw, tab.prev)
       IN /\ sk # 0
          /\ account' = [account EXCEPT !.wrap = wrapMailboxKeyWithPassphrase(pass, sk),
                                     !.prev = NoWrap]
          /\ shown' = shown \cup {sk}
  /\ tab' = [tab EXCEPT !.prev = NoWrap]
  /\ restored' = TRUE
  /\ UNCHANGED <<wizard, forgot, heal, made, born>>

(* The current password is verified, then the sealed phrase is opened with *)
(* what was typed.                                                         *)
handleRevealPhrase ==
  /\ tab.open
  /\ account.sealed.phrase # 0 /\ account.sealed.pw = account.pw
  /\ tab' = [tab EXCEPT !.dialog = "secret"]
  /\ OnlyTab /\ UNCHANGED <<account, made, born>>
handleExportPrivateKey ==
  /\ tab.open /\ account.wrap # NoWrap
  /\ tab' = [tab EXCEPT !.dialog = "secret"]
  /\ OnlyTab /\ UNCHANGED <<account, made, born>>

----------------------------------------------------------------------------
(* The pages of the wizard. *)
PasswordPage == isPasswordValid \/ handleProceedToKeys
PhrasePage == ConfirmSaved \/ BackToPassword \/ handleProceedTo2FA
FactorPage == BackToPhrase \/ is2FAValid \/ handleFinalizeActivation

WizardStep ==
  \/ OpenSetup \/ verifyInvitation
  \/ PasswordPage \/ PhrasePage \/ FactorPage
  \/ Claim(TRUE) \/ Claim(FALSE) \/ ClaimRefused \/ SealPhrase

(* The pages of the forgotten-password dialog. *)
MethodsPage(b) == handleOpenForgotPassword(b) \/ handleRequestRecoveryCode(b)
ResetPage(b) == BackToMethods(b) \/ TypeReset(b) \/ handleResetPasswordWithRecovery(b)
ForgotStep(b) == MethodsPage(b) \/ ResetPage(b)
HealStep(b) == LoginFindsNoKey(b) \/ SelfHeal(b) \/ HealFails(b)

(* The dialogs of the security tab. *)
ChangePasswordDialog == VerifyCurrentPassword \/ handleChangePassword
KeyDialogs == handleExportPrivateKey \/ handleRevealPhrase
TabStep ==
  \/ loadData \/ CloseTab
  \/ ChangePasswordDialog \/ KeyDialogs
  \/ handleReactivateKeys

(* Once the invitation is claimed an activation page that missed the answer *)
(* can only be refused, so the owner is taken to have left it; a page that   *)
(* is still sealing the phrase runs beside everything else.                  *)
KeyRingNext ==
  \/ WizardStep
  \/ wizard.step \in {0, 4} /\ (TabStep \/ \E b \in Browsers : ForgotStep(b) \/ HealStep(b))
KeyRingSpec == KeyRingInit /\ [][KeyRingNext]_keyVars

----------------------------------------------------------------------------
(* What the wizard is about to register opens with the password and with   *)
(* the phrase on its own screens, however often the user went back.        *)
WizardWrapOpens ==
  wizard.step \in 2..4 =>
    /\ autoUnwrapMailboxKey(wizard.pw, wizard.wrap) = wizard.pk
    /\ unwrapMailboxKeyWithRecoveryPhrase(wizard.phrase, wizard.wrap) = wizard.pk

(* New mail is sealed to a key the owner holds: as long as no historical   *)
(* key was reactivated, the registered public key is the one of the        *)
(* wrapped secret key, whatever resets run in two browsers at once.        *)
PublicKeyOpens == (account.wrap # NoWrap /\ ~restored) => account.wrap.sk = account.pk

(* A password reset does not by itself recover encrypted mail              *)
(* (docs/04-product-rules.md:32): a secret key opens with another password *)
(* than the one it was made under only after the phrase or an old password *)
(* was presented.                                                          *)
ResetDoesNotRecover ==
  \A w \in {account.wrap, account.prev} :
    (w # NoWrap /\ w.pw # born[w.sk]) => w.sk \in shown

(* Entering the recovery phrase in the reset dialog keeps the key          *)
(* (App.tsx:3347).                                                         *)
PhraseResetKeepsKey ==
  [][\A b \in Browsers :
       (/\ forgot[b].challenge /\ ~forgot'[b].challenge
        /\ unwrapMailboxKeyWithRecoveryPhrase(forgot[b].phrase, account.wrap) # 0)
       => account'.wrap.sk = account.wrap.sk]_keyVars
=============================================================================
